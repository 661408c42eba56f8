--------------------------- MODULE OperatorProofs ----------------------------
(***************************************************************************)
(* The types of Operator, and what follows of the cache from KubeProofs,   *)
(* for any number of controllers, CRs, steps and specs.                    *)
(***************************************************************************)
EXTENDS Operator, KubeProofs, FiniteSetTheorems

\* Which objects there are, and that no CR is a dependent of another.
LEMMA KeyFacts ==
    /\ CRs \subseteq Keys /\ Dependents \subseteq Keys
    /\ Keys = CRs \cup Dependents
    /\ \A k \in Dependents : k \notin CRs
    /\ \A cr \in CRs : cr.kind \in Controllers
    /\ \A cr \in CRs : \A i \in StepNumbers(cr.kind) : StepKey(cr, i) \in Dependents
  BY KeysAssumption, StepsAssumption DEF ObjectKeys, Dependents, Controllers

\* A CR as users may write it is a proper state of it, and the other way round.
LEMMA CRValue ==
    ASSUME NEW cr \in CRs
    PROVE  /\ \A u \in Uids, spec \in Specs[cr.kind] :
                  [uid |-> u, spec |-> spec] \in Values[cr]
           /\ \A o \in Values[cr] : o.uid \in Uids /\ o.spec \in Specs[cr.kind]
  <1>1. Values[cr] = [uid : Uids, spec : Specs[cr.kind]]
    BY KeysAssumption, KeyFacts DEF ObjectValues
  <1> QED BY <1>1

\* The same for what a pass creates.
LEMMA DependentValue ==
    ASSUME NEW k \in Dependents
    PROVE  /\ \A cr \in CreatorsOf(k), u \in Uids, data \in Data :
                  [owner |-> [cr |-> cr, uid |-> u], data |-> data] \in Values[k]
           /\ \A o \in Values[k] : o.owner.cr \in CreatorsOf(k) /\ o.owner.uid \in Uids
  <1>1. Values[k] = [owner : [cr : CreatorsOf(k), uid : Uids], data : Data]
    BY KeysAssumption, KeyFacts DEF ObjectValues
  <1> QED BY <1>1

\* Only CRs create.
LEMMA CreatorsAreCRs == \A k : CreatorsOf(k) \subseteq CRs
  BY DEF CreatorsOf

\* Steps have numbers a worker can count.
LEMMA StepFacts ==
    ASSUME NEW c \in Controllers
    PROVE  /\ Len(Steps[c]) \in Nat \ {0}
           /\ 1 \in StepNumbers(c)
           /\ StepNumbers(c) \subseteq Nat
  <1>1. Steps[c] \in Seq(STRING) /\ Steps[c] # << >>
    BY StepsAssumption
  <1>2. Len(Steps[c]) \in Nat /\ Len(Steps[c]) # 0
    BY <1>1, LenProperties, EmptySeq
  <1> QED BY <1>2 DEF StepNumbers

\* What a worker in the middle of a pass is about to create is a proper object.
LEMMA WorkTyped ==
    ASSUME TypeOK, NEW c \in Controllers, work[c] # None
    PROVE  /\ work[c] \in PassesOf(c)
           /\ work[c].cr \in CRs /\ work[c].cr.kind = c
           /\ work[c].uid \in Uids /\ work[c].spec \in Specs[c]
           /\ work[c].step \in StepNumbers(c)
           /\ Target(c) \in Dependents
           /\ Built(c) # None => Owned(c) \in Values[Target(c)]
  <1>1. work[c] \in PassesOf(c)
    BY DEF TypeOK
  <1>2. /\ work[c].cr \in CRs /\ work[c].cr.kind = c
        /\ work[c].uid \in Uids /\ work[c].spec \in Specs[c]
        /\ work[c].step \in StepNumbers(c)
    BY <1>1 DEF PassesOf
  <1>3. Target(c) \in Dependents /\ work[c].cr \in CreatorsOf(Target(c))
    BY <1>2, KeyFacts DEF Target, CreatorsOf
  <1>4. Built(c) \in Data \cup {None}
    BY <1>2, StepsAssumption DEF Built
  <1>5. Built(c) # None => Owned(c) \in Values[Target(c)]
    BY <1>2, <1>3, <1>4, DependentValue DEF Owned
  <1> QED BY <1>1, <1>2, <1>3, <1>5

\* The next step of a pass, or its end, has the right type.
LEMMA AdvanceTyped ==
    ASSUME TypeOK, NEW c \in Controllers, work[c] # None, Advance(c)
    PROVE  /\ DOMAIN work' = Controllers /\ queue' \subseteq CRs
           /\ \A d \in Controllers : work'[d] \in PassesOf(d) \cup {None}
  <1>1. work[c] \in PassesOf(c)
    BY WorkTyped
  <1>2. work[c].step # Len(Steps[c]) => work[c].step + 1 \in StepNumbers(c)
    BY <1>1, StepFacts DEF PassesOf, StepNumbers
  <1>3. work[c].step # Len(Steps[c]) =>
            [work[c] EXCEPT !.step = @ + 1, !.missing = FALSE] \in PassesOf(c)
    BY <1>1, <1>2 DEF PassesOf
  <1> QED BY <1>3 DEF TypeOK, Advance

\* The failure of a pass leaves work and queue with the right types.
LEMMA FailTyped ==
    ASSUME TypeOK, NEW c \in Controllers, work[c] # None, Fail(c)
    PROVE  /\ DOMAIN work' = Controllers /\ queue' \subseteq CRs
           /\ \A d \in Controllers : work'[d] \in PassesOf(d) \cup {None}
  BY WorkTyped DEF TypeOK, Fail

------------------------------------------------------------------------------
(* Types, action by action.                                                *)

\* The types hold at the start.
LEMMA InitTyped == Init => TypeOK
  <1> SUFFICES ASSUME Init PROVE TypeOK
    OBVIOUS
  <1>1. KubeTypeOK
    BY DEF Init, KubeInit, KubeTypeOK
  <1> QED BY <1>1, BoundsAssumption DEF Init, TypeOK

\* Users keep the types.
LEMMA UserTyped ==
    ASSUME TypeOK, NEW cr \in CRs,
           \/ \E spec \in Specs[cr.kind] : CreateCR(cr, spec) \/ EditCR(cr, spec)
           \/ DeleteCR(cr)
    PROVE  TypeOK'
  <1>0. KubeTypeOK /\ cr \in Keys
    BY KeyFacts DEF TypeOK
  <1>1. ASSUME NEW spec \in Specs[cr.kind], CreateCR(cr, spec) PROVE TypeOK'
    <2>1. nextUid \in Uids /\ nextUid + 1 \in 1..(MaxUid + 1)
      BY <1>1, BoundsAssumption DEF CreateCR, TypeOK, Uids
    <2>2. [uid |-> nextUid, spec |-> spec] \in Values[cr]
      BY <2>1, CRValue
    <2>3. KubeTypeOK'
      BY <1>0, <1>1, <2>2, WriteTyped DEF CreateCR
    <2>4. spec \in AllSpecs
      BY KeyFacts DEF AllSpecs
    <2>5. given' \in [Uids -> SUBSET (CRs \X AllSpecs)]
      BY <1>1, <2>1, <2>4 DEF CreateCR, TypeOK
    <2> QED BY <1>1, <2>1, <2>3, <2>5 DEF CreateCR, TypeOK, workVars
  <1>2. ASSUME NEW spec \in Specs[cr.kind], EditCR(cr, spec) PROVE TypeOK'
    <2>0. store[cr] \in Values[cr]
      BY <1>0, <1>2 DEF EditCR, KubeTypeOK
    <2>1. store[cr].uid \in Uids
      BY <2>0, CRValue
    <2>2. [uid |-> store[cr].uid, spec |-> spec] \in Values[cr]
      BY <2>1, CRValue
    <2>3. KubeTypeOK'
      BY <1>0, <1>2, <2>2, WriteTyped DEF EditCR
    <2>4. spec \in AllSpecs
      BY KeyFacts DEF AllSpecs
    <2>5. given' \in [Uids -> SUBSET (CRs \X AllSpecs)]
      BY <1>2, <2>1, <2>4 DEF EditCR, TypeOK
    <2>6. edits' \in 0..MaxEdits
      BY <1>2, BoundsAssumption DEF EditCR, TypeOK
    <2> QED BY <1>2, <2>3, <2>5, <2>6 DEF EditCR, TypeOK, workVars
  <1>3. ASSUME DeleteCR(cr) PROVE TypeOK'
    <2>1. KubeTypeOK'
      BY <1>0, <1>3, RemoveTyped DEF DeleteCR
    <2> QED BY <1>3, <2>1 DEF DeleteCR, TypeOK, workVars, boundVars, historyVars
  <1> QED BY <1>1, <1>2, <1>3

\* A fault keeps the count of faults within its bound.
LEMMA FaultTyped ==
    ASSUME TypeOK, NEW kind, Fault(kind)
    PROVE  faults' \in 0..MaxFaults
  BY BoundsAssumption DEF TypeOK, Fault

\* Deletions of dependents keep the types.
LEMMA ClusterTyped ==
    ASSUME TypeOK, NEW k \in Dependents, GarbageCollect(k) \/ OutsideDelete(k)
    PROVE  TypeOK'
  <1>0. KubeTypeOK /\ k \in Keys
    BY KeyFacts DEF TypeOK
  <1>1. CASE GarbageCollect(k)
    <2>1. KubeTypeOK'
      BY <1>0, <1>1, RemoveTyped DEF GarbageCollect
    <2> QED BY <1>1, <2>1 DEF GarbageCollect, TypeOK, workVars, boundVars
  <1>2. CASE OutsideDelete(k)
    <2>1. KubeTypeOK'
      BY <1>0, <1>2, RemoveTyped DEF OutsideDelete
    <2>2. faults' \in 0..MaxFaults
      BY <1>2, FaultTyped DEF OutsideDelete
    <2> QED BY <1>2, <2>1, <2>2 DEF OutsideDelete, TypeOK, workVars
  <1> QED BY <1>1, <1>2

\* Informers and event handlers keep the types.
LEMMA InformerTyped ==
    ASSUME TypeOK, InformerStep
    PROVE  TypeOK'
  <1>1. ASSUME NEW k \in Keys, Deliver(k) PROVE TypeOK'
    <2>1. KubeTypeOK'
      BY <1>1, ReceiveTyped DEF Deliver, TypeOK
    <2>2. notices' \in [CRs -> Nat]
      BY <1>1 DEF Deliver, TypeOK
    <2> QED BY <1>1, <2>1, <2>2 DEF Deliver, TypeOK, boundVars, historyVars
  <1>2. ASSUME NEW kind \in Kinds, Resync(kind) PROVE TypeOK'
    <2>1. notices' \in [CRs -> Nat]
      BY <1>2 DEF Resync
    <2>2. KubeTypeOK'
      BY <1>2 DEF Resync, TypeOK, KubeTypeOK, kubeVars
    <2> QED BY <1>2, <2>1, <2>2 DEF Resync, TypeOK, boundVars, historyVars
  <1>3. ASSUME NEW cr \in CRs, Notify(cr) PROVE TypeOK'
    <2>1. notices' \in [CRs -> Nat] /\ queue' \subseteq CRs
      BY <1>3 DEF Notify, TypeOK
    <2>2. KubeTypeOK'
      BY <1>3 DEF Notify, TypeOK, KubeTypeOK, kubeVars
    <2> QED BY <1>3, <2>1, <2>2 DEF Notify, TypeOK, boundVars, historyVars
  <1>4. ASSUME NEW kind \in Kinds, BrokenWatch(kind) PROVE TypeOK'
    <2>1. KubeTypeOK'
      BY <1>4, RewatchTyped DEF BrokenWatch, TypeOK
    <2>2. faults' \in 0..MaxFaults
      BY <1>4, FaultTyped DEF BrokenWatch
    <2> QED BY <1>4, <2>1, <2>2 DEF BrokenWatch, TypeOK, workVars, historyVars
  <1> QED BY <1>1, <1>2, <1>3, <1>4 DEF InformerStep

\* Workers keep the types.
LEMMA WorkerTyped ==
    ASSUME TypeOK, WorkerStep
    PROVE  TypeOK'
  <1>1. ASSUME NEW cr \in CRs, BeginPass(cr) PROVE TypeOK'
    <2>1. cr \in Keys /\ cr.kind \in Controllers
      BY KeyFacts
    <2>2. cache[cr] # None => cache[cr].uid \in Uids /\ cache[cr].spec \in Specs[cr.kind]
      <3>1. cache[cr] # None => cache[cr] \in Values[cr]
        BY <2>1 DEF TypeOK, KubeTypeOK
      <3> QED BY <3>1, CRValue
    <2>3. 1 \in StepNumbers(cr.kind)
      BY <2>1, StepFacts
    <2>4. cache[cr] # None =>
              [cr |-> cr, uid |-> cache[cr].uid, spec |-> cache[cr].spec,
               step |-> 1, missing |-> FALSE] \in PassesOf(cr.kind)
      BY <2>2, <2>3 DEF PassesOf
    <2>5. /\ DOMAIN work' = Controllers /\ queue' \subseteq CRs
          /\ \A d \in Controllers : work'[d] \in PassesOf(d) \cup {None}
      BY <1>1, <2>4 DEF BeginPass, TypeOK
    <2>6. KubeTypeOK'
      BY <1>1 DEF BeginPass, TypeOK, KubeTypeOK, kubeVars
    <2> QED BY <1>1, <2>5, <2>6 DEF BeginPass, TypeOK, boundVars, historyVars
  <1>2. ASSUME NEW c \in Controllers, PassStep(c) PROVE TypeOK'
    <2>1. work[c] # None
      BY <1>2 DEF PassStep, FindObject, MissObject, LookupFails, CreateObject, FailToBuild,
                  Conflict, Rejected, ReplyLost, Creating
    <2>2. /\ work[c] \in PassesOf(c) /\ Target(c) \in Keys /\ Target(c) \in Dependents
          /\ Built(c) # None => Owned(c) \in Values[Target(c)]
      BY <2>1, WorkTyped, KeyFacts
    <2>3. CASE FindObject(c)
      <3>1. KubeTypeOK'
        BY <2>3 DEF FindObject, TypeOK, KubeTypeOK, kubeVars
      <3> QED BY <2>1, <2>3, <3>1, AdvanceTyped
              DEF FindObject, TypeOK, boundVars, historyVars
    <2>4. CASE MissObject(c)
      <3>1. KubeTypeOK'
        BY <2>4 DEF MissObject, TypeOK, KubeTypeOK, kubeVars
      <3>2. [work[c] EXCEPT !.missing = TRUE] \in PassesOf(c)
        BY <2>2 DEF PassesOf
      <3>3. DOMAIN work' = Controllers /\ queue' \subseteq CRs
        BY <2>4 DEF MissObject, TypeOK
      <3>4. \A d \in Controllers : work'[d] \in PassesOf(d) \cup {None}
        BY <2>4, <3>2 DEF MissObject, TypeOK
      <3> QED BY <2>4, <3>1, <3>3, <3>4
              DEF MissObject, TypeOK, boundVars, historyVars
    <2>5. CASE CreateObject(c)
      <3>1. KubeTypeOK'
        BY <2>2, <2>5, WriteTyped DEF CreateObject, TypeOK
      <3> QED BY <2>1, <2>5, <3>1, AdvanceTyped DEF CreateObject, TypeOK, boundVars
    <2>6. CASE FailToBuild(c) \/ Conflict(c)
      <3>1. KubeTypeOK'
        BY <2>6 DEF FailToBuild, Conflict, TypeOK, KubeTypeOK, kubeVars
      <3>2. Fail(c) /\ UNCHANGED <<notices, boundVars, historyVars>>
        BY <2>6 DEF FailToBuild, Conflict
      <3> QED BY <2>1, <3>1, <3>2, FailTyped DEF TypeOK, boundVars, historyVars
    <2>7. CASE Rejected(c) \/ LookupFails(c)
      <3>1. KubeTypeOK'
        BY <2>7 DEF Rejected, LookupFails, TypeOK, KubeTypeOK, kubeVars
      <3>2. faults' \in 0..MaxFaults
        BY <2>7, FaultTyped DEF Rejected, LookupFails
      <3> QED BY <2>1, <2>7, <3>1, <3>2, FailTyped
              DEF Rejected, LookupFails, TypeOK, historyVars
    <2>8. CASE ReplyLost(c)
      <3>1. KubeTypeOK'
        BY <2>2, <2>8, WriteTyped DEF ReplyLost, TypeOK
      <3>2. faults' \in 0..MaxFaults
        BY <2>8, FaultTyped DEF ReplyLost
      <3> QED BY <2>1, <2>8, <3>1, <3>2, FailTyped DEF ReplyLost, TypeOK
    <2> QED BY <1>2, <2>3, <2>4, <2>5, <2>6, <2>7, <2>8 DEF PassStep
  <1>3. ASSUME NEW cr \in CRs, ReadFails(cr) PROVE TypeOK'
    <2>1. KubeTypeOK'
      BY <1>3 DEF ReadFails, TypeOK, KubeTypeOK, kubeVars
    <2> QED BY <1>3, <2>1, FaultTyped DEF ReadFails, TypeOK, workVars, historyVars
  <1> QED BY <1>1, <1>2, <1>3 DEF WorkerStep

\* A restart keeps the types; what the new process is told of is finite.
LEMMA RestartTyped ==
    ASSUME TypeOK, Restart
    PROVE  TypeOK'
  <1>1. KubeTypeOK'
    BY RelistTyped DEF Restart, TypeOK
  <1>2. ASSUME NEW cr \in CRs
        PROVE  Cardinality({k \in Keys : cr \in Concerned(k, cache'[k])}) \in Nat
    <2> DEFINE S == {k \in Keys : cr \in Concerned(k, cache'[k])}
    <2>1. IsFiniteSet(Keys) /\ S \subseteq Keys
      BY KeysAssumption
    <2>2. IsFiniteSet(S)
      BY <2>1, FS_Subset
    <2> QED BY <2>2, FS_CardinalityType
  <1>3. notices' \in [CRs -> Nat]
    BY <1>2 DEF Restart
  <1>4. faults' \in 0..MaxFaults
    BY FaultTyped DEF Restart
  <1> QED BY <1>1, <1>3, <1>4 DEF Restart, TypeOK, historyVars

\* A step that changes nothing keeps the types.
LEMMA StutterTyped ==
    ASSUME TypeOK, UNCHANGED vars
    PROVE  TypeOK'
  BY DEF TypeOK, KubeTypeOK, vars, kubeVars, workVars, boundVars, historyVars

\* Every step keeps the types.
LEMMA NextTyped ==
    ASSUME TypeOK, [Next]_vars
    PROVE  TypeOK'
  BY UserTyped, ClusterTyped, InformerTyped, WorkerTyped, RestartTyped, StutterTyped
     DEF Next, UserStep, ClusterStep

\* Every variable has its type: what is stored, cached, in flight or about to be
\* created is always an object of the kind that belongs there, with an owner that
\* is a CR and, for each pass, a step of its own controller.
THEOREM TypesHold == Spec => []TypeOK
  BY InitTyped, NextTyped, PTL DEF Spec

------------------------------------------------------------------------------
(* The cache.                                                              *)

\* At the start there is nothing to track.
LEMMA InitTracks == Init => CacheTracksStore
  <1> SUFFICES ASSUME Init PROVE CacheTracksStore
    OBVIOUS
  <1>1. \A k \in Keys : watch[k] = << >> /\ cache[k] = None /\ store[k] = None
    BY DEF Init, KubeInit
  <1> QED BY <1>1 DEF CacheTracksStore, Tracks

\* A step that leaves store, cache and watches alone keeps objects tracked.
LEMMA UnchangedTracks ==
    ASSUME CacheTracksStore, UNCHANGED kubeVars
    PROVE  CacheTracksStore'
  BY DEF CacheTracksStore, Tracks, kubeVars, Outcome

\* Every step writes one object, removes one, lets an informer read one event, list
\* everything or watch a kind anew, or leaves all of that alone.
LEMMA KubeStep ==
    ASSUME TypeOK, [Next]_vars
    PROVE  \/ \E k \in Keys : \E o \in Values[k] : Write(k, o)
           \/ \E k \in Keys : Remove(k)
           \/ \E k \in Keys : Receive(k)
           \/ Relist
           \/ \E kind \in Kinds : Rewatch(kind)
           \/ UNCHANGED kubeVars
  <1> DEFINE Goal == \/ \E k \in Keys : \E o \in Values[k] : Write(k, o)
                     \/ \E k \in Keys : Remove(k)
                     \/ \E k \in Keys : Receive(k)
                     \/ Relist
                     \/ \E kind \in Kinds : Rewatch(kind)
                     \/ UNCHANGED kubeVars
  <1> SUFFICES Goal
    OBVIOUS
  <1>1. ASSUME NEW cr \in CRs, NEW spec \in Specs[cr.kind], CreateCR(cr, spec)
        PROVE  Goal
    <2>1. [uid |-> nextUid, spec |-> spec] \in Values[cr]
      BY <1>1, CRValue DEF CreateCR, TypeOK, Uids
    <2> QED BY <1>1, <2>1, KeyFacts DEF CreateCR
  <1>2. ASSUME NEW cr \in CRs, NEW spec \in Specs[cr.kind], EditCR(cr, spec)
        PROVE  Goal
    <2>1. store[cr] \in Values[cr]
      BY <1>2, KeyFacts DEF EditCR, TypeOK, KubeTypeOK
    <2>2. [uid |-> store[cr].uid, spec |-> spec] \in Values[cr]
      BY <2>1, CRValue
    <2> QED BY <1>2, <2>2, KeyFacts DEF EditCR
  <1>3. ASSUME NEW cr \in CRs, DeleteCR(cr) PROVE Goal
    BY <1>3, KeyFacts DEF DeleteCR
  <1>4. ASSUME ClusterStep PROVE Goal
    BY <1>4, KeyFacts DEF ClusterStep, GarbageCollect, OutsideDelete
  <1>5. ASSUME InformerStep PROVE Goal
    BY <1>5 DEF InformerStep, Deliver, Resync, BrokenWatch, Notify
  <1>6. ASSUME NEW cr \in CRs, BeginPass(cr) \/ ReadFails(cr) PROVE Goal
    BY <1>6 DEF BeginPass, ReadFails, kubeVars
  <1>7. ASSUME NEW c \in Controllers, PassStep(c) PROVE Goal
    <2>1. CASE CreateObject(c) \/ ReplyLost(c)
      <3>1. work[c] # None /\ Built(c) # None /\ Write(Target(c), Owned(c))
        BY <2>1 DEF CreateObject, ReplyLost, Creating
      <3>2. Target(c) \in Keys /\ Owned(c) \in Values[Target(c)]
        BY <3>1, WorkTyped, KeyFacts
      <3> QED BY <3>1, <3>2
    <2>2. CASE ~ (CreateObject(c) \/ ReplyLost(c))
      BY <1>7, <2>2 DEF PassStep, FindObject, MissObject, LookupFails, FailToBuild, Conflict,
                        Rejected
    <2> QED BY <2>1, <2>2
  <1>8. ASSUME Restart PROVE Goal
    BY <1>8 DEF Restart
  <1>9. ASSUME UNCHANGED vars PROVE Goal
    BY <1>9 DEF vars, kubeVars
  <1> QED BY <1>1, <1>2, <1>3, <1>4, <1>5, <1>6, <1>7, <1>8, <1>9
          DEF Next, UserStep, WorkerStep

\* Every step keeps every object tracked.
LEMMA NextTracks ==
    ASSUME TypeOK, CacheTracksStore, [Next]_vars
    PROVE  CacheTracksStore'
  <1>1. KubeTypeOK
    BY DEF TypeOK
  <1> QED BY <1>1, KubeStep, WriteTracks, RemoveTracks, ReceiveTracks, RelistTracks,
             RewatchTracks, UnchangedTracks

\* However far an informer lags behind, and whatever restarts and broken watches
\* there were, the events it has yet to read are exactly what its cache lacks: once
\* it has read them, it holds what the API server holds.
THEOREM CacheIsEventuallyRight == Spec => []CacheTracksStore
  <1>1. TypeOK /\ CacheTracksStore /\ [Next]_vars => CacheTracksStore'
    BY NextTracks
  <1> QED BY InitTracks, TypesHold, <1>1, PTL DEF Spec

==============================================================================

---------------------------- MODULE NoticeProofs -----------------------------
(***************************************************************************)
(* No wake-up is lost: whenever an object of a live CR is missing, the CR  *)
(* is queued, about to be, or in a pass that will come to that object.     *)
(***************************************************************************)
EXTENDS HistoryProofs

\* A pass on the CR will begin, whatever the object it is for.
Called(cr) == cr \in queue \/ notices[cr] > 0 \/ EventPending(cr)

\* A pass on the CR is under way and has yet to finish its i-th step.
WorkingUpTo(cr, i) ==
    work[cr.kind] # None /\ work[cr.kind].cr = cr /\ work[cr.kind].step <= i

\* A worker at an incarnation of a CR that is gone leaves the next one to be called.
StaleIsCalled ==
    \A c \in Controllers : work[c] # None =>
        LET cr == work[c].cr IN
        store[cr] # None /\ store[cr].uid # work[c].uid => Called(cr)

\* While a watch may still break: what the controller is told about, but has not
\* heard of, is missing or about to be collected only if its CR will be looked at
\* without the events of that object.
CanBreak == "broken watch" \in Faults /\ faults < MaxFaults

UnseenIsNoticed ==
    \A cr \in CRs : \A i \in StepNumbers(cr.kind) :
        LET k == StepKey(cr, i) IN
        /\ store[cr] # None /\ k.kind = WatchedKind[cr.kind]
        /\ cache[k] = None
        /\ store[k] # None => ~ Alive(store[k].owner)
        => Called(cr) \/ WorkingUpTo(cr, i)

NoticeInv == MissingIsNoticed /\ StaleIsCalled /\ (CanBreak => UnseenIsNoticed)

------------------------------------------------------------------------------
(* What a step makes of a CR and of its being called.                      *)

\* What is written or removed is announced, and no other announcement lost.
LEMMA WriteTells ==
    ASSUME TypeOK, NEW k \in Keys, Remove(k) \/ \E o \in Values[k] : Write(k, o),
           NEW j \in Keys
    PROVE  watch'[k] # << >> /\ (watch[j] # << >> => watch'[j] # << >>)
  <1>1. KubeTypeOK /\ watch[k] \in Seq(EventsOf(k)) /\ DOMAIN watch = Keys
    BY DEF TypeOK, KubeTypeOK
  <1>2. \E e \in EventsOf(k) : watch' = [watch EXCEPT ![k] = Append(@, e)]
    <2>1. ASSUME Remove(k) PROVE store[k] \in Values[k]
      BY <1>1, <2>1 DEF Remove, KubeTypeOK
    <2> QED BY <2>1, EventTyped DEF Write, Remove
  <1>3. PICK e \in EventsOf(k) : watch' = [watch EXCEPT ![k] = Append(@, e)]
    BY <1>2
  <1>4. Append(watch[k], e) # << >>
    BY <1>1, AppendProperties
  <1> QED BY <1>1, <1>3, <1>4

\* What concerns a CR: its own states, and those of watched objects it owns.
LEMMA ConcernedFacts ==
    ASSUME NEW k \in Keys, NEW o \in Values[k]
    PROVE  /\ k \in CRs => Concerned(k, o) = {k}
           /\ k \in Dependents => \A cr \in CRs :
                  o.owner.cr = cr /\ WatchedKind[cr.kind] = k.kind => cr \in Concerned(k, o)
  BY KeyFacts, NoneAssumption DEF Concerned

\* An event that is read calls those it concerns.
LEMMA DeliverCalls ==
    ASSUME TypeOK, NEW k \in Keys, Deliver(k), NEW cr \in CRs
    PROVE  /\ notices[cr] > 0 => notices'[cr] > 0
           /\ k = cr => notices'[cr] > 0
           /\ k \in Dependents /\ WatchedKind[cr.kind] = k.kind
              /\ (\A o \in Values[k] : o.owner.cr = cr) => notices'[cr] > 0
  <1> DEFINE e == Head(watch[k])
             woken == Woken(k, e)
  <1>1. notices[cr] \in Nat /\ notices'[cr] = IF cr \in woken THEN notices[cr] + 1
                                                             ELSE notices[cr]
    BY DEF Deliver, TypeOK
  <1>2. e.obj \in Values[k]
    <2>1. watch[k] \in Seq(EventsOf(k)) /\ watch[k] # << >>
      BY DEF Deliver, Receive, TypeOK, KubeTypeOK
    <2>2. e \in EventsOf(k)
      BY <2>1, HeadTailProperties
    <2> QED BY <2>2 DEF EventsOf
  <1>3. Concerned(k, e.obj) \subseteq woken
    BY DEF Woken
  <1> HIDE DEF e, woken
  <1> QED BY <1>1, <1>2, <1>3, ConcernedFacts

\* A new process is told of every CR it lists.
LEMMA RestartCalls ==
    ASSUME TypeOK, Restart, NEW cr \in CRs, store[cr] # None
    PROVE  notices'[cr] > 0 \/ watch'[cr] # << >>
  <1>0. cr \in Keys /\ store[cr] \in Values[cr]
    BY KeyFacts DEF TypeOK, KubeTypeOK
  <1>1. watch'[cr] # << >> \/ cache'[cr] = store[cr]
    BY <1>0 DEF Restart, Relist
  <1>2. ASSUME cache'[cr] = store[cr] PROVE notices'[cr] > 0
    <2> DEFINE S == {k \in Keys : cr \in Concerned(k, cache'[k])}
    <2>1. cr \in S
      BY <1>0, <1>2, ConcernedFacts
    <2>2. IsFiniteSet(S)
      BY KeysAssumption, FS_Subset
    <2>3. Cardinality(S) \in Nat /\ Cardinality(S) # 0
      BY <2>1, <2>2, FS_CardinalityType, FS_EmptySet
    <2>4. notices'[cr] = Cardinality(S)
      BY DEF Restart
    <2> QED BY <2>3, <2>4
  <1> QED BY <1>1, <1>2

\* A new watch has something to tell of an object that is there, or was known.
LEMMA RewatchTells ==
    ASSUME TypeOK, CacheTracksStore, NEW kind \in Kinds, Rewatch(kind), NEW k \in Keys,
           watch[k] # << >>, store[k] # None \/ cache[k] # None
    PROVE  watch'[k] # << >>
  <1>0. KubeTypeOK /\ watch[k] \in Seq(EventsOf(k)) /\ Tracks(k)
    BY DEF TypeOK, KubeTypeOK, CacheTracksStore
  <1>1. CASE watch'[k] = watch[k]
    BY <1>1
  <1>2. ASSUME NEW n \in 0..Len(watch[k]), watch'[k] = Rewatched(k, n), watch'[k] = << >>
        PROVE  FALSE
    <2> DEFINE first == Resent(k, n)
               rest == SubSeq(watch[k], n + 1, Len(watch[k]))
    <2>1. store[k] = cache[k]
      BY <1>0, <1>2, RewatchedFacts
    <2>2. first = << >> => cache[k] = None
      <3>1. ASSUME NEW e \in EventsOf(k) PROVE <<e>> # << >>
        OBVIOUS
      <3> QED BY <1>0, <3>1, ResentFacts
    <2>3. first # << >>
      BY <2>1, <2>2
    <2>4. PICK e \in EventsOf(k) : first = <<e>>
      BY <1>0, <2>3, ResentFacts
    <2>5. rest \in Seq(EventsOf(k))
      BY <1>0, DropFacts
    <2>6. watch'[k] = <<e>> \o rest
      BY <1>2, <2>4 DEF Rewatched
    <2> HIDE DEF rest
    <2> QED BY <1>2, <2>5, <2>6, PutFirstFacts
  <1> QED BY <1>0, <1>1, <1>2, RewatchCases

\* A CR that comes to be is announced, and one that stays keeps its uid.
LEMMA CRSteps ==
    ASSUME TypeOK, [Next]_vars, NEW cr \in CRs, store'[cr] # None
    PROVE  /\ store[cr] = None => Called(cr)'
           /\ store[cr] # None => store'[cr].uid = store[cr].uid
  <1>0. /\ cr \in Keys /\ DOMAIN store = Keys /\ DOMAIN watch = Keys
        /\ watch[cr] \in Seq(EventsOf(cr))
        /\ \A k \in Dependents : k # cr
    BY KeyFacts DEF TypeOK, KubeTypeOK
  <1>1. ASSUME NEW d \in CRs, NEW spec \in Specs[d.kind], CreateCR(d, spec)
        PROVE  /\ store[cr] = None => watch'[cr] # << >>
               /\ store[cr] # None => store'[cr] = store[cr]
    <2>1. CASE d = cr
      <3>1. watch'[cr] # << >>
        BY <1>0, <1>1, <2>1, UserWrite, WriteTells
      <3>2. store[cr] = None
        BY <1>1, <2>1 DEF CreateCR
      <3> QED BY <1>0, <3>1, <3>2
    <2>2. CASE d # cr
      BY <1>0, <1>1, <2>2 DEF CreateCR, Write
    <2> QED BY <2>1, <2>2
  <1>2. ASSUME NEW d \in CRs, NEW spec \in Specs[d.kind], EditCR(d, spec)
        PROVE  store[cr] # None /\ store'[cr].uid = store[cr].uid
    BY <1>0, <1>2 DEF EditCR, Write
  <1>3. ASSUME NEW c \in Controllers, Creates(c) PROVE store'[cr] = store[cr]
    BY <1>0, <1>3, CreateStates
  <1>4. ASSUME Quiet PROVE store'[cr] = store[cr]
    BY <1>0, <1>4 DEF Quiet, Remove, Receive, Relist, Rewatch, kubeVars
  <1> QED BY <1>1, <1>2, <1>3, <1>4, StepCases DEF Called, EventPending

------------------------------------------------------------------------------
(* How a call is answered: by a pass, and by nothing else.                 *)

\* As long as its CR is there a call lasts until a pass begins.
LEMMA CalledStays ==
    ASSUME TypeOK, CacheTracksStore, [Next]_vars, NEW cr \in CRs,
           store'[cr] # None, Called(cr)
    PROVE  Called(cr)' \/ (BeginPass(cr) /\ cache[cr] # None)
  <1> DEFINE Goal == Called(cr)' \/ (BeginPass(cr) /\ cache[cr] # None)
  <1> SUFFICES ASSUME store[cr] # None PROVE Goal
    BY CRSteps
  <1>0. /\ cr \in Keys /\ DOMAIN store = Keys /\ DOMAIN watch = Keys
        /\ notices \in [CRs -> Nat] /\ Tracks(cr)
    BY KeyFacts DEF TypeOK, KubeTypeOK, CacheTracksStore
  <1>1. ASSUME NEW d \in CRs, NEW spec \in Specs[d.kind],
               CreateCR(d, spec) \/ EditCR(d, spec)
        PROVE  Goal
    <2>1. watch[cr] # << >> => watch'[cr] # << >>
      <3>1. PICK u \in Uids : /\ Write(d, [uid |-> u, spec |-> spec])
                              /\ [uid |-> u, spec |-> spec] \in Values[d]
        BY <1>1, UserWrite
      <3> QED BY <1>0, <3>1, WriteTells, KeyFacts
    <2>2. queue' = queue /\ notices' = notices
      BY <1>1 DEF CreateCR, EditCR, workVars
    <2> QED BY <2>1, <2>2 DEF Called, EventPending
  <1>2. ASSUME NEW k \in Keys, Remove(k), UNCHANGED <<queue, notices>> PROVE Goal
    <2>1. watch[cr] # << >> => watch'[cr] # << >>
      BY <1>0, <1>2, WriteTells
    <2> QED BY <1>2, <2>1 DEF Called, EventPending
  <1>3. ASSUME NEW d \in CRs, DeleteCR(d) PROVE Goal
    BY <1>2, <1>3, KeyFacts DEF DeleteCR, workVars
  <1>4. ASSUME ClusterStep PROVE Goal
    BY <1>2, <1>4, KeyFacts DEF ClusterStep, GarbageCollect, OutsideDelete, workVars
  <1>5. ASSUME NEW k \in Keys, Deliver(k) PROVE Goal
    <2>1. (notices[cr] > 0 => notices'[cr] > 0) /\ (k = cr => notices'[cr] > 0)
      BY <1>5, DeliverCalls
    <2>2. k # cr => watch'[cr] = watch[cr]
      BY <1>0, <1>5 DEF Deliver, Receive
    <2>3. queue' = queue
      BY <1>5 DEF Deliver
    <2> QED BY <2>1, <2>2, <2>3 DEF Called, EventPending
  <1>6. ASSUME NEW kind \in Kinds, Resync(kind) PROVE Goal
    <2>1. notices[cr] = 0 /\ queue' = queue /\ watch' = watch
      BY <1>6 DEF Resync, kubeVars
    <2> QED BY <2>1 DEF Called, EventPending
  <1>7. ASSUME NEW kind \in Kinds, BrokenWatch(kind) PROVE Goal
    <2>1. watch[cr] # << >> => watch'[cr] # << >>
      BY <1>0, <1>7, RewatchTells DEF BrokenWatch
    <2> QED BY <1>7, <2>1 DEF BrokenWatch, workVars, Called, EventPending
  <1>8. ASSUME NEW d \in CRs, Notify(d) PROVE Goal
    <2>1. watch' = watch /\ queue' = queue \cup {d}
      BY <1>8 DEF Notify, kubeVars
    <2>2. d # cr => notices'[cr] = notices[cr]
      BY <1>0, <1>8 DEF Notify
    <2> QED BY <2>1, <2>2 DEF Called, EventPending
  <1>9. ASSUME NEW d \in CRs, BeginPass(d) \/ ReadFails(d) PROVE Goal
    <2>1. /\ watch' = watch /\ notices' = notices
          /\ IF BeginPass(d) THEN queue' = queue \ {d} ELSE queue' = queue
      BY <1>9 DEF BeginPass, ReadFails, kubeVars, workVars
    <2>2. ASSUME d = cr, cache[cr] = None PROVE watch[cr] # << >>
      BY <1>0, <2>2 DEF Tracks
    <2> QED BY <1>9, <2>1, <2>2 DEF Called, EventPending
  <1>10. ASSUME NEW c \in Controllers, PassStep(c) PROVE Goal
    <2>1. notices' = notices /\ queue \subseteq queue'
      BY <1>10 DEF PassStep, FindObject, MissObject, LookupFails, CreateObject, FailToBuild,
                   Conflict, Rejected, ReplyLost, Advance, Fail
    <2>2. watch[cr] # << >> => watch'[cr] # << >>
      <3>1. CASE CreateObject(c) \/ ReplyLost(c)
        <4>1. Creates(c)
          BY <3>1 DEF CreateObject, ReplyLost, Creating, Creates
        <4> QED BY <1>0, <4>1, CreateStates, WriteTells, KeyFacts
      <3>2. CASE ~ (CreateObject(c) \/ ReplyLost(c))
        BY <1>10, <3>2 DEF PassStep, FindObject, MissObject, LookupFails, FailToBuild, Conflict,
                           Rejected, kubeVars
      <3> QED BY <3>1, <3>2
    <2> QED BY <2>1, <2>2 DEF Called, EventPending
  <1>11. CASE Restart
    BY <1>11, RestartCalls DEF Called, EventPending
  <1>12. CASE UNCHANGED vars
    BY <1>12 DEF vars, workVars, kubeVars, Called, EventPending
  <1> QED BY <1>1, <1>3, <1>4, <1>5, <1>6, <1>7, <1>8, <1>9, <1>10, <1>11, <1>12
          DEF Next, UserStep, InformerStep, WorkerStep

\* The i-th step of the pass on a CR is done: its object was found, or is created.
PassesStep(cr, i) ==
    /\ work[cr.kind] # None /\ work[cr.kind].cr = cr /\ work[cr.kind].step = i
    /\ \/ FindObject(cr.kind) /\ cache[StepKey(cr, i)] # None
       \/ Creates(cr.kind)

\* A pass under way stays so until it is done with the step, or will be repeated.
LEMMA WorkingStays ==
    ASSUME TypeOK, CacheTracksStore, [Next]_vars, NEW cr \in CRs,
           NEW i \in StepNumbers(cr.kind),
           store'[cr] # None, WorkingUpTo(cr, i)
    PROVE  Called(cr)' \/ WorkingUpTo(cr, i)' \/ PassesStep(cr, i)
  <1> DEFINE c == cr.kind
             Goal == Called(cr)' \/ WorkingUpTo(cr, i)' \/ PassesStep(cr, i)
  <1> SUFFICES Goal
    OBVIOUS
  <1>0. /\ c \in Controllers /\ DOMAIN work = Controllers
        /\ work[c] # None /\ work[c] \in PassesOf(c) /\ work[c].cr = cr
        /\ work[c].step \in Nat /\ work[c].step <= i /\ work[c].step \in StepNumbers(c)
        /\ i \in StepNumbers(c) /\ i \in Nat /\ Len(Steps[c]) \in Nat
    BY KeyFacts, StepFacts, WorkTyped DEF WorkingUpTo, TypeOK
  <1>1. ASSUME work'[c] = work[c] PROVE Goal
    BY <1>1 DEF WorkingUpTo
  <1>2. CASE UserStep
    BY <1>1, <1>2 DEF UserStep, CreateCR, EditCR, DeleteCR, workVars
  <1>3. CASE ClusterStep
    BY <1>1, <1>3 DEF ClusterStep, GarbageCollect, OutsideDelete, workVars
  <1>4. CASE InformerStep
    BY <1>1, <1>4 DEF InformerStep, Deliver, Resync, BrokenWatch, Notify, workVars
  <1>5. ASSUME NEW d \in CRs, BeginPass(d) \/ ReadFails(d) PROVE Goal
    BY <1>0, <1>1, <1>5 DEF BeginPass, ReadFails, workVars
  <1>6. ASSUME NEW d \in Controllers, PassStep(d), d # c PROVE Goal
    BY <1>0, <1>1, <1>6 DEF PassStep, FindObject, MissObject, LookupFails, CreateObject,
           FailToBuild, Conflict, Rejected, ReplyLost, Advance, Fail
  <1>7. CASE PassStep(c)
    <2>1. ASSUME Advance(c), work[c].step # i PROVE Goal
      <3>1. work[c].step # Len(Steps[c])
        BY <1>0, <2>1 DEF StepNumbers
      <3>2. work'[c] = [work[c] EXCEPT !.step = work[c].step + 1, !.missing = FALSE]
        BY <1>0, <2>1, <3>1 DEF Advance
      <3>3. work'[c].cr = cr /\ work'[c].step = work[c].step + 1 /\ work'[c] \in PassesOf(c)
        <4>1. work[c].step + 1 \in StepNumbers(c)
          BY <1>0, <3>1 DEF StepNumbers
        <4> QED BY <1>0, <3>2, <4>1 DEF PassesOf
      <3>4. work'[c] # None
        BY <1>0, <3>3, NoneAssumption
      <3>5. work'[c].step <= i
        BY <1>0, <2>1, <3>3
      <3> QED BY <3>3, <3>4, <3>5 DEF WorkingUpTo
    <2>2. CASE FindObject(c)
      <3>1. Advance(c) /\ cache[Target(c)] # None
        BY <2>2 DEF FindObject
      <3>2. work[c].step = i => Target(c) = StepKey(cr, i)
        BY <1>0 DEF Target
      <3> QED BY <1>0, <2>1, <2>2, <3>1, <3>2 DEF PassesStep
    <2>3. CASE CreateObject(c)
      <3>1. Advance(c) /\ Creates(c)
        BY <2>3 DEF CreateObject, Creates, Creating
      <3> QED BY <1>0, <2>1, <3>1 DEF PassesStep
    <2>4. CASE MissObject(c)
      <3>1. work'[c] = [work[c] EXCEPT !.missing = TRUE]
        BY <1>0, <2>4 DEF MissObject
      <3>2. /\ work'[c].cr = cr /\ work'[c].step = work[c].step
            /\ work'[c] \in PassesOf(c)
        BY <1>0, <3>1 DEF PassesOf
      <3>3. work'[c] # None
        BY <1>0, <3>2, NoneAssumption
      <3> QED BY <1>0, <3>2, <3>3 DEF WorkingUpTo
    <2>5. CASE LookupFails(c) \/ FailToBuild(c) \/ Conflict(c) \/ Rejected(c) \/ ReplyLost(c)
      <3>1. cr \in queue'
        BY <1>0, <2>5 DEF LookupFails, FailToBuild, Conflict, Rejected, ReplyLost, Fail
      <3> QED BY <3>1 DEF Called
    <2> QED BY <1>7, <2>2, <2>3, <2>4, <2>5 DEF PassStep
  <1>8. CASE Restart
    <2>1. store[cr] # None
      BY <1>8 DEF Restart, Relist
    <2> QED BY <1>8, <2>1, RestartCalls DEF Called, EventPending
  <1>9. CASE UNCHANGED vars
    BY <1>1, <1>9 DEF vars, workVars
  <1> QED BY <1>2, <1>3, <1>4, <1>5, <1>6, <1>7, <1>8, <1>9 DEF Next, WorkerStep

\* So a CR that was called, or is being worked on, stays one of these until the step is
\* done.
LEMMA NoticedStays ==
    ASSUME TypeOK, CacheTracksStore, [Next]_vars, NEW cr \in CRs,
           NEW i \in StepNumbers(cr.kind),
           store'[cr] # None, Called(cr) \/ WorkingUpTo(cr, i)
    PROVE  Called(cr)' \/ WorkingUpTo(cr, i)' \/ PassesStep(cr, i)
  <1>1. ASSUME BeginPass(cr), cache[cr] # None PROVE WorkingUpTo(cr, i)'
    <2>0. cr.kind \in Controllers /\ DOMAIN work = Controllers /\ cr \in Keys
      BY KeyFacts DEF TypeOK
    <2>1. work'[cr.kind] = [cr |-> cr, uid |-> cache[cr].uid, spec |-> cache[cr].spec,
                            step |-> 1, missing |-> FALSE]
      BY <1>1, <2>0 DEF BeginPass
    <2>2. cache[cr].uid \in Uids /\ cache[cr].spec \in Specs[cr.kind]
      BY <1>1, <2>0, CRValue DEF TypeOK, KubeTypeOK
    <2>3. work'[cr.kind] \in PassesOf(cr.kind)
      BY <2>0, <2>1, <2>2, StepFacts DEF PassesOf
    <2>4. work'[cr.kind] # None
      BY <2>0, <2>3, NoneAssumption
    <2>5. 1 <= i
      BY <2>0 DEF StepNumbers
    <2> QED BY <2>1, <2>4, <2>5 DEF WorkingUpTo
  <1> QED BY <1>1, CalledStays, WorkingStays

------------------------------------------------------------------------------
(* Losses.                                                                 *)

\* A watched object has one possible owner.
LEMMA OwnerOfWatched ==
    ASSUME WatchedUnshared, NEW cr \in CRs, NEW i \in StepNumbers(cr.kind),
           StepKey(cr, i).kind = WatchedKind[cr.kind]
    PROVE  /\ \A o \in Values[StepKey(cr, i)] : o.owner.cr = cr
           /\ \A c \in Controllers : TypeOK /\ work[c] # None /\ Target(c) = StepKey(cr, i) =>
                  work[c].cr = cr
  <1> DEFINE k == StepKey(cr, i)
  <1>1. k \in Dependents
    BY KeyFacts
  <1>2. CreatorsOf(k) \subseteq {cr}
    BY DEF WatchedUnshared, CreatorsOf
  <1>3. \A o \in Values[k] : o.owner.cr = cr
    BY <1>1, <1>2, DependentValue
  <1>4. ASSUME NEW c \in Controllers, TypeOK, work[c] # None, Target(c) = k
        PROVE  work[c].cr = cr
    <2>1. PICK dr \in CRs : dr = work[c].cr /\ work[c].step \in StepNumbers(dr.kind)
      BY <1>4, WorkTyped
    <2>2. StepKey(cr, i) = StepKey(dr, work[c].step)
      BY <1>4, <2>1 DEF Target
    <2> QED BY <2>1, <2>2 DEF WatchedUnshared
  <1> QED BY <1>3, <1>4

\* The passes that create know their object, and were not begun by this step.
LEMMA CreatesFacts ==
    ASSUME TypeOK, NEW cr \in CRs, NEW i \in StepNumbers(cr.kind), PassesStep(cr, i)
    PROVE  /\ cr.kind \in Controllers /\ Target(cr.kind) = StepKey(cr, i)
           /\ Creates(cr.kind) =>
                  /\ store' = [store EXCEPT ![StepKey(cr, i)] = Owned(cr.kind)]
                  /\ store'[StepKey(cr, i)] # None
  <1>1. cr.kind \in Controllers /\ Target(cr.kind) = StepKey(cr, i)
    BY KeyFacts DEF PassesStep, Target
  <1>2. ASSUME Creates(cr.kind)
        PROVE  /\ store' = [store EXCEPT ![StepKey(cr, i)] = Owned(cr.kind)]
               /\ store'[StepKey(cr, i)] # None
    <2>1. /\ store' = [store EXCEPT ![StepKey(cr, i)] = Owned(cr.kind)]
          /\ Owned(cr.kind) \in Values[StepKey(cr, i)] /\ StepKey(cr, i) \in Keys
      BY <1>1, <1>2, CreateStates, KeyFacts
    <2> QED BY <2>1, NoneAssumption DEF TypeOK, KubeTypeOK
  <1> QED BY <1>1, <1>2

\* What a step takes from the API server becomes an event, and counts as lost.
LEMMA LossTold ==
    ASSUME TypeOK, [Next]_vars, NEW k \in Dependents, store[k] # None, store'[k] = None
    PROVE  /\ k \in lost' /\ watch'[k] # << >>
           /\ GarbageCollect(k) \/ OutsideDelete(k)
  <1>0. k \in Keys /\ k \notin CRs /\ DOMAIN store = Keys /\ Existed(k)
    BY KeyFacts DEF TypeOK, KubeTypeOK, Existed
  <1>1. k \in lost'
    BY <1>0, ExistedStays DEF Existed
  <1>2. GarbageCollect(k) \/ OutsideDelete(k)
    <2>1. ASSUME NEW cr \in CRs, NEW spec \in Specs[cr.kind],
                 CreateCR(cr, spec) \/ EditCR(cr, spec)
          PROVE  store'[k] = store[k]
      BY <1>0, <2>1 DEF CreateCR, EditCR, Write
    <2>2. ASSUME NEW cr \in CRs, DeleteCR(cr) PROVE store'[k] = store[k]
      BY <1>0, <2>2 DEF DeleteCR, Remove
    <2>3. ASSUME NEW d \in Dependents, d # k, GarbageCollect(d) \/ OutsideDelete(d)
          PROVE  store'[k] = store[k]
      BY <1>0, <2>3 DEF GarbageCollect, OutsideDelete, Remove
    <2>4. ASSUME NEW c \in Controllers, Creates(c) PROVE store'[k] # None
      <3>1. /\ store' = [store EXCEPT ![Target(c)] = Owned(c)]
            /\ Owned(c) \in Values[Target(c)] /\ Target(c) \in Keys
        BY <1>0, <2>4, CreateStates, KeyFacts
      <3> QED BY <1>0, <3>1, NoneAssumption
    <2>5. ASSUME InformerStep PROVE store' = store
      BY <2>5 DEF InformerStep, Deliver, Receive, Resync, BrokenWatch, Rewatch, Notify, kubeVars
    <2>6. ASSUME NEW cr \in CRs, BeginPass(cr) \/ ReadFails(cr) PROVE store' = store
      BY <2>6 DEF BeginPass, ReadFails, kubeVars
    <2>7. ASSUME NEW c \in Controllers, PassStep(c) PROVE Creates(c) \/ store' = store
      BY <2>7 DEF PassStep, FindObject, MissObject, LookupFails, FailToBuild, Conflict, Rejected,
                  CreateObject, ReplyLost, Creating, Creates, kubeVars
    <2>8. ASSUME Restart \/ UNCHANGED vars PROVE store' = store
      BY <2>8 DEF Restart, Relist, vars, kubeVars
    <2> QED BY <2>1, <2>2, <2>3, <2>4, <2>5, <2>6, <2>7, <2>8
            DEF Next, UserStep, ClusterStep, WorkerStep
  <1>3. Remove(k)
    BY <1>2 DEF GarbageCollect, OutsideDelete
  <1> QED BY <1>0, <1>1, <1>2, <1>3, WriteTells

\* A pending event of an object goes because it is read, because a new process lists
\* everything, or because a new watch has nothing to tell of it.
LEMMA PendingStays ==
    ASSUME TypeOK, [Next]_vars, NEW k \in Keys, watch[k] # << >>
    PROVE  \/ watch'[k] # << >>
           \/ Deliver(k)
           \/ Restart
           \/ \E kind \in Kinds : BrokenWatch(kind)
  <1> DEFINE Goal == \/ watch'[k] # << >>
                     \/ Deliver(k)
                     \/ Restart
                     \/ \E kind \in Kinds : BrokenWatch(kind)
  <1> SUFFICES Goal
    OBVIOUS
  <1>0. DOMAIN watch = Keys
    BY DEF TypeOK, KubeTypeOK
  <1>1. ASSUME NEW j \in Keys, Remove(j) \/ \E o \in Values[j] : Write(j, o) PROVE Goal
    BY <1>1, WriteTells
  <1>2. ASSUME NEW j \in Keys, Deliver(j) PROVE Goal
    BY <1>0, <1>2 DEF Deliver, Receive
  <1>3. ASSUME NEW cr \in CRs, NEW spec \in Specs[cr.kind],
               CreateCR(cr, spec) \/ EditCR(cr, spec)
        PROVE  Goal
    <2>1. PICK u \in Uids : /\ Write(cr, [uid |-> u, spec |-> spec])
                            /\ [uid |-> u, spec |-> spec] \in Values[cr]
      BY <1>3, UserWrite
    <2> QED BY <1>1, <2>1, KeyFacts
  <1>4. ASSUME NEW cr \in CRs, DeleteCR(cr) PROVE Goal
    BY <1>1, <1>4, KeyFacts DEF DeleteCR
  <1>5. ASSUME ClusterStep PROVE Goal
    BY <1>1, <1>5, KeyFacts DEF ClusterStep, GarbageCollect, OutsideDelete
  <1>6. ASSUME InformerStep PROVE Goal
    BY <1>2, <1>6 DEF InformerStep, Resync, Notify, kubeVars
  <1>7. ASSUME NEW cr \in CRs, BeginPass(cr) \/ ReadFails(cr) PROVE Goal
    BY <1>7 DEF BeginPass, ReadFails, kubeVars
  <1>8. ASSUME NEW c \in Controllers, PassStep(c) PROVE Goal
    <2>1. CASE CreateObject(c) \/ ReplyLost(c)
      <3>1. Creates(c)
        BY <2>1 DEF CreateObject, ReplyLost, Creating, Creates
      <3> QED BY <1>1, <3>1, CreateStates, KeyFacts
    <2>2. CASE ~ (CreateObject(c) \/ ReplyLost(c))
      BY <1>8, <2>2 DEF PassStep, FindObject, MissObject, LookupFails, FailToBuild, Conflict,
                        Rejected, kubeVars
    <2> QED BY <2>1, <2>2
  <1>9. ASSUME UNCHANGED vars PROVE Goal
    BY <1>9 DEF vars, kubeVars
  <1> QED BY <1>3, <1>4, <1>5, <1>6, <1>7, <1>8, <1>9 DEF Next, UserStep, WorkerStep

------------------------------------------------------------------------------
(* The invariant, part by part.                                            *)

\* Nothing is there at the start, so nothing is missing.
LEMMA InitNoticed == Init => NoticeInv
  <1> SUFFICES ASSUME Init PROVE NoticeInv
    OBVIOUS
  <1>1. \A cr \in CRs : store[cr] = None
    BY KeyFacts DEF Init, KubeInit
  <1>2. \A c \in Controllers : work[c] = None
    BY DEF Init
  <1> QED BY <1>1, <1>2 DEF NoticeInv, MissingIsNoticed, StaleIsCalled, UnseenIsNoticed

\* What goes missing is an event; what was missing stays noticed until it is made.
LEMMA NextMissing ==
    ASSUME WatchedUnshared, TypeOK, CacheTracksStore, OrderInv, NoticeInv, [Next]_vars
    PROVE  MissingIsNoticed'
  <1> SUFFICES ASSUME NEW cr \in CRs, NEW i \in StepNumbers(cr.kind),
                      store'[cr] # None, store'[StepKey(cr, i)] = None,
                      Repairable(cr, i)'
               PROVE  Waking(cr, i)'
    BY DEF MissingIsNoticed, StepKey
  <1> DEFINE k == StepKey(cr, i)
             Watched == k.kind = WatchedKind[cr.kind]
  <1>0. k \in Dependents /\ k \in Keys /\ Tracks(k)
    BY KeyFacts DEF CacheTracksStore
  <1>1. /\ Repairable(cr, i)' <=> (k \in lost' => Watched)
        /\ Repairable(cr, i) <=> (k \in lost => Watched)
    BY DEF Repairable, StepKey
  <1>2. /\ Called(cr)' \/ WorkingUpTo(cr, i)' \/ (Watched /\ watch'[k] # << >>)
               => Waking(cr, i)'
        /\ Waking(cr, i)
               => Called(cr) \/ WorkingUpTo(cr, i) \/ (Watched /\ watch[k] # << >>)
    BY DEF Waking, Called, WorkingUpTo, EventPending, StepKey
  <1> HIDE DEF k, Watched
  <1>3. CASE store[cr] = None
    BY <1>2, <1>3, CRSteps
  <1>4. CASE store[cr] # None /\ store[k] # None
    BY <1>0, <1>1, <1>2, <1>4, LossTold DEF k
  <1>5. CASE store[cr] # None /\ store[k] = None
    <2>1. k \in lost => k \in lost'
      <3>1. ASSUME k \in lost PROVE Existed(k)'
        BY <1>0, <3>1, ExistedStays DEF Existed
      <3> QED BY <3>1 DEF Existed, k
    <2>2. Waking(cr, i)
      <3>1. Repairable(cr, i)
        BY <1>1, <2>1
      <3> QED BY <1>5, <3>1 DEF NoticeInv, MissingIsNoticed, k
    <2>3. ASSUME Called(cr) \/ WorkingUpTo(cr, i) PROVE Waking(cr, i)'
      <3>1. ASSUME PassesStep(cr, i) PROVE Watched /\ watch'[k] # << >>
        <4>1. FindObject(cr.kind) /\ cache[k] # None
          BY <3>1, CreatesFacts DEF PassesStep, k
        <4>2. watch[k] # << >> /\ watch' = watch
          BY <1>0, <1>5, <4>1 DEF Tracks, FindObject, kubeVars
        <4>3. k \in lost
          BY <1>0, <1>5, <4>1 DEF OrderInv, ToldExisted, States, Existed
        <4> QED BY <1>1, <2>1, <4>2, <4>3
      <3> QED BY <1>2, <2>3, <3>1, NoticedStays
    <2>4. ASSUME Watched, watch[k] # << >> PROVE Waking(cr, i)'
      <3>1. CASE watch'[k] # << >>
        BY <1>2, <2>4, <3>1
      <3>2. CASE Deliver(k)
        <4>1. notices'[cr] > 0
          BY <1>0, <2>4, <3>2, OwnerOfWatched, DeliverCalls DEF k, Watched
        <4> QED BY <1>2, <4>1 DEF Called
      <3>3. CASE Restart
        BY <1>2, <1>5, <3>3, RestartCalls DEF Called, EventPending
      <3>4. ASSUME NEW kind \in Kinds, BrokenWatch(kind), watch'[k] = << >>
            PROVE  Waking(cr, i)'
        <4>1. cache[k] = None
          BY <1>0, <2>4, <3>4, RewatchTells DEF BrokenWatch
        <4>2. CanBreak
          BY <3>4 DEF BrokenWatch, Fault, CanBreak
        <4>3. Called(cr) \/ WorkingUpTo(cr, i)
          BY <1>5, <2>4, <4>1, <4>2 DEF NoticeInv, UnseenIsNoticed, k, Watched
        <4> QED BY <2>3, <4>3
      <3> QED BY <1>0, <2>4, <3>1, <3>2, <3>3, <3>4, PendingStays
    <2> QED BY <1>2, <2>2, <2>3, <2>4
  <1> QED BY <1>3, <1>4, <1>5

\* A worker at an old incarnation started before the new one was heard of.
LEMMA NextStale ==
    ASSUME TypeOK, CacheTracksStore, NoticeInv, [Next]_vars
    PROVE  StaleIsCalled'
  <1> SUFFICES ASSUME NEW c \in Controllers, work'[c] # None,
                      NEW cr \in CRs, cr = work'[c].cr,
                      store'[cr] # None, store'[cr].uid # work'[c].uid
               PROVE  Called(cr)'
    <2>1. \A c \in Controllers : work'[c] # None => work'[c].cr \in CRs
      BY NextTyped, WorkTyped DEF TypeOK, PassesOf
    <2> QED BY <2>1 DEF StaleIsCalled
  <1>0. cr \in Keys /\ Tracks(cr) /\ cr.kind = c
    <2>1. work'[c] \in PassesOf(c)
      BY NextTyped DEF TypeOK
    <2> QED BY <2>1, KeyFacts DEF CacheTracksStore, PassesOf
  <1>1. CASE store[cr] = None
    BY <1>1, CRSteps
  <1>2. CASE store[cr] # None /\ (Stays(c) \/ Misses(c) \/ Advances(c))
    <2>1. work[c] # None /\ work[c] \in PassesOf(c)
      BY <1>2, WorkTyped DEF Stays, Misses, Advances
    <2>2. work'[c].cr = work[c].cr /\ work'[c].uid = work[c].uid
      BY <1>2, <2>1 DEF Stays, Misses, Advances, PassesOf
    <2>3. store[cr].uid # work[c].uid
      BY <1>2, <2>2, CRSteps
    <2>4. Called(cr)
      BY <1>2, <2>1, <2>2, <2>3 DEF NoticeInv, StaleIsCalled
    <2>5. ~ BeginPass(cr)
      BY <1>0, <2>1 DEF BeginPass
    <2> QED BY <2>4, <2>5, CalledStays
  <1>3. CASE store[cr] # None /\ Begins(c)
    <2>1. cache[cr] # None /\ work'[c].uid = cache[cr].uid
      BY <1>3 DEF Begins
    <2>2. store[cr].uid # cache[cr].uid
      BY <1>3, <2>1, CRSteps
    <2>3. watch[cr] # << >>
      BY <1>0, <2>2 DEF Tracks
    <2>4. BeginPass(cr) => watch' = watch
      BY DEF BeginPass, kubeVars
    <2> QED BY <2>3, <2>4, CalledStays DEF Called, EventPending
  <1> QED BY <1>1, <1>2, <1>3, WorkSteps DEF Ends

\* Faults are counted one at a time.
LEMMA FaultsCounted ==
    ASSUME TypeOK, [Next]_vars
    PROVE  faults \in Nat /\ faults' \in {faults, faults + 1} /\ MaxFaults \in Nat
  <1>0. faults \in Nat /\ MaxFaults \in Nat
    BY BoundsAssumption DEF TypeOK
  <1>1. CASE UserStep
    BY <1>0, <1>1 DEF UserStep, CreateCR, EditCR, DeleteCR, boundVars
  <1>2. CASE ClusterStep
    BY <1>0, <1>2 DEF ClusterStep, GarbageCollect, OutsideDelete, Fault, boundVars
  <1>3. CASE InformerStep
    BY <1>0, <1>3 DEF InformerStep, Deliver, Resync, BrokenWatch, Notify, Fault, boundVars
  <1>4. CASE WorkerStep
    <2>1. ASSUME NEW cr \in CRs, BeginPass(cr) \/ ReadFails(cr)
          PROVE  faults' \in {faults, faults + 1}
      BY <2>1 DEF BeginPass, ReadFails, Fault, boundVars
    <2>2. ASSUME NEW c \in Controllers, PassStep(c) PROVE faults' \in {faults, faults + 1}
      BY <2>2 DEF PassStep, FindObject, MissObject, LookupFails, CreateObject, FailToBuild,
                  Conflict, Rejected, ReplyLost, Fault, boundVars
    <2> QED BY <1>0, <1>4, <2>1, <2>2 DEF WorkerStep
  <1>5. CASE Restart \/ UNCHANGED vars
    BY <1>0, <1>5 DEF Restart, Fault, vars, boundVars
  <1> QED BY <1>0, <1>1, <1>2, <1>3, <1>4, <1>5 DEF Next

\* What no one has heard of is looked for all the same.
LEMMA NextUnseen ==
    ASSUME WatchedUnshared, LossesAreTold, TypeOK, CacheTracksStore, NoticeInv,
           [Next]_vars, CanBreak'
    PROVE  UnseenIsNoticed'
  <1> SUFFICES ASSUME NEW cr \in CRs, NEW i \in StepNumbers(cr.kind),
                      store'[cr] # None, StepKey(cr, i).kind = WatchedKind[cr.kind],
                      cache'[StepKey(cr, i)] = None,
                      store'[StepKey(cr, i)] # None =>
                          ~ Alive(store[StepKey(cr, i)].owner)'
               PROVE  Called(cr)' \/ WorkingUpTo(cr, i)'
    BY DEF UnseenIsNoticed, StepKey
  <1> DEFINE k == StepKey(cr, i)
  <1>0. /\ k \in Dependents /\ k \in Keys /\ k # cr /\ cr \in Keys /\ Tracks(k)
        /\ DOMAIN cache = Keys
    BY KeyFacts DEF CacheTracksStore, TypeOK, KubeTypeOK
  <1>1. /\ k.kind = WatchedKind[cr.kind] /\ cache'[k] = None
        /\ store'[k] # None => ~ Alive(store[k].owner)'
    OBVIOUS
  <1>2. \A o \in Values[k] : o.owner.cr = cr
    BY OwnerOfWatched
  <1> HIDE DEF k
  <1>3. faults \in Nat /\ faults' \in {faults, faults + 1} /\ MaxFaults \in Nat
    BY FaultsCounted
  <1>4. CanBreak /\ UnseenIsNoticed
    <2>1. "broken watch" \in Faults /\ faults < MaxFaults
      <3>1. "broken watch" \in Faults
        BY DEF CanBreak
      <3>2. faults' < MaxFaults
        BY DEF CanBreak
      <3>3. faults < MaxFaults
        BY <1>3, <3>2
      <3> QED BY <3>1, <3>3
    <2> QED BY <2>1 DEF CanBreak, NoticeInv
  <1>5. CASE store[cr] = None
    BY <1>5, CRSteps
  <1>6. CASE store[cr] # None /\ cache[k] # None
    <2>1. ASSUME Deliver(k) PROVE notices'[cr] > 0
      BY <1>0, <1>2, <1>1, <2>1, DeliverCalls
    <2>2. CASE Restart
      BY <1>6, <2>2, RestartCalls DEF Called, EventPending
    <2>3. ASSUME ~ Deliver(k), ~ Restart PROVE cache'[k] = cache[k]
      <3>1. ASSUME NEW j \in Keys, Deliver(j) PROVE cache'[k] = cache[k]
        BY <1>0, <2>3, <3>1 DEF Deliver, Receive
      <3>2. ASSUME NEW c \in Controllers, PassStep(c) PROVE cache' = cache
        BY <3>2 DEF PassStep, FindObject, MissObject, LookupFails, CreateObject, FailToBuild,
                    Conflict, Rejected, ReplyLost, Write, kubeVars
      <3> QED BY <2>3, <3>1, <3>2
              DEF Next, UserStep, CreateCR, EditCR, DeleteCR, ClusterStep, GarbageCollect,
                  OutsideDelete, InformerStep, Resync, BrokenWatch, Rewatch, Notify,
                  WorkerStep, BeginPass, ReadFails, Write, Remove, kubeVars, vars
    <2> QED BY <1>6, <1>1, <2>1, <2>2, <2>3 DEF Called
  <1>7. CASE /\ store[cr] # None /\ cache[k] = None
             /\ store[k] # None => ~ Alive(store[k].owner)
    <2>1. Called(cr) \/ WorkingUpTo(cr, i)
      BY <1>4, <1>7 DEF UnseenIsNoticed, k
    <2>2. ASSUME PassesStep(cr, i) PROVE Called(cr)'
      <3> DEFINE c == cr.kind
      <3>1. /\ Creates(c) /\ c \in Controllers /\ work[c] # None /\ work[c].cr = cr
            /\ store' = [store EXCEPT ![k] = Owned(c)] /\ store'[k] # None
        BY <1>7, <2>2, CreatesFacts DEF PassesStep, k
      <3>2. store'[k].owner.cr = cr /\ store'[k].owner.uid = work[c].uid
        BY <1>0, <3>1 DEF Owned, TypeOK, KubeTypeOK
      <3>3. store'[cr] = store[cr]
        BY <1>0, <3>1
      <3>4. store[cr].uid # work[c].uid
        BY <1>7, <1>1, <3>1, <3>2, <3>3 DEF Alive
      <3>5. Called(cr)
        BY <1>7, <3>1, <3>4 DEF NoticeInv, StaleIsCalled
      <3>6. ~ BeginPass(cr)
        BY <3>1 DEF BeginPass
      <3> QED BY <3>5, <3>6, CalledStays
    <2> QED BY <2>1, <2>2, NoticedStays
  <1>8. CASE /\ store[cr] # None /\ cache[k] = None
             /\ store[k] # None /\ Alive(store[k].owner)
    <2>0. store[k] \in Values[k] /\ store[k].owner.cr = cr
      BY <1>0, <1>2, <1>8 DEF TypeOK, KubeTypeOK
    <2>1. store[cr].uid = store[k].owner.uid
      BY <1>8, <2>0 DEF Alive
    <2>2. CASE store'[k] = None
      <3>1. OutsideDelete(k)
        BY <1>0, <1>8, <2>2, LossTold DEF GarbageCollect
      <3>2. "outside delete" \in Faults /\ faults < MaxFaults /\ faults' = faults + 1
        BY <3>1 DEF OutsideDelete, Fault
      <3>3. MaxLag <= 1
        <4>1. "broken watch" \in Faults
          BY DEF CanBreak
        <4>2. faults' < MaxFaults
          BY DEF CanBreak
        <4>3. faults' = faults + 1
          BY <3>2
        <4>4. ~ (MaxFaults <= 1)
          BY <1>3, <4>2, <4>3
        <4> QED BY <3>2, <4>1, <4>4 DEF LossesAreTold
      <3>4. Len(watch[k]) < MaxLag /\ Len(watch[k]) \in Nat /\ MaxLag \in Nat
        BY <1>0, <3>1, BoundsAssumption, LenProperties
           DEF OutsideDelete, Remove, TypeOK, KubeTypeOK
      <3>5. watch[k] = << >>
        <4>1. Len(watch[k]) = 0
          BY <3>3, <3>4
        <4> QED BY <1>0, <4>1, EmptySeq DEF TypeOK, KubeTypeOK
      <3> QED BY <1>0, <1>8, <3>5 DEF Tracks
    <2>3. CASE store'[k] # None
      <3>1. store'[k] = store[k]
        <4>1. ASSUME NEW c \in Controllers, Creates(c), k = Target(c) PROVE FALSE
          BY <1>8, <4>1 DEF Creates, CreateObject, ReplyLost
        <4> QED BY <1>0, <2>3, <4>1, NewDependents
      <3>2. store'[cr].uid = store[cr].uid
        BY <1>8, CRSteps
      <3>3. Alive(store[k].owner)'
        BY <2>0, <2>1, <3>1, <3>2 DEF Alive
      <3> QED BY <1>1, <2>3, <3>3
    <2> QED BY <2>2, <2>3
  <1> QED BY <1>5, <1>6, <1>7, <1>8

\* No wake-up is lost, whatever the order of events, edits, conflicts, errors, crashes
\* and broken watches, however far informers lag behind: an object that a live CR lacks
\* will be looked for by a pass that is under way, queued or announced.
THEOREM MissingObjectsAreNoticed ==
    ASSUME WatchedUnshared, LossesAreTold
    PROVE  Spec => []MissingIsNoticed
  <1>1. /\ TypeOK /\ CacheTracksStore /\ OrderInv /\ NoticeInv /\ [Next]_vars
        => NoticeInv'
    BY NextMissing, NextStale, NextUnseen DEF NoticeInv
  <1>2. NoticeInv => MissingIsNoticed
    BY DEF NoticeInv
  <1> QED BY InitNoticed, TypesHold, CacheIsEventuallyRight, OrderHolds, <1>1, <1>2, PTL
          DEF Spec

==============================================================================

---------------------------- MODULE HistoryProofs ----------------------------
(***************************************************************************)
(* What the history of the API server has to do with what a worker does:   *)
(* the order in which objects are created, and what they are created from. *)
(*                                                                         *)
(* Both results rest on the set of states anybody can be told an object is *)
(* in: that of the API server, that of the cache, and those of the events  *)
(* in between.  Only a write of an object adds to its states.              *)
(***************************************************************************)
EXTENDS OperatorProofs

Told(k) == {watch[k][i].obj : i \in DOMAIN watch[k]}
States(k) == ({store[k], cache[k]} \cup Told(k)) \ {None}

\* An event at the end of a watch tells of one more state of its object.
LEMMA ToldAppend ==
    ASSUME KubeTypeOK, NEW k \in Keys, NEW e \in EventsOf(k),
           watch' = [watch EXCEPT ![k] = Append(@, e)],
           NEW d \in Keys
    PROVE  Told(d)' \subseteq Told(d) \cup (IF d = k THEN {e.obj} ELSE {})
  <1> DEFINE old == watch[d]
             new == watch'[d]
  <1>0. old \in Seq(EventsOf(d)) /\ DOMAIN watch = Keys
    BY DEF KubeTypeOK
  <1>1. CASE d # k
    <2>1. new = old
      BY <1>0, <1>1
    <2> QED BY <2>1 DEF Told
  <1>2. CASE d = k
    <2>1. new = Append(old, e)
      BY <1>0, <1>2
    <2>2. /\ DOMAIN old = 1..Len(old) /\ Len(old) \in Nat
          /\ DOMAIN new = 1..(Len(old) + 1)
          /\ \A i \in 1..Len(old) : new[i] = old[i]
          /\ new[Len(old) + 1] = e
      BY <1>0, <1>2, <2>1, AppendProperties, LenProperties
    <2>3. ASSUME NEW i \in DOMAIN new
          PROVE  new[i].obj \in Told(d) \cup {e.obj}
      <3>1. CASE i = Len(old) + 1
        BY <2>2, <3>1
      <3>2. CASE i # Len(old) + 1
        <4>1. i \in DOMAIN old /\ new[i] = old[i]
          BY <2>2, <3>2
        <4> QED BY <4>1 DEF Told
      <3> QED BY <3>1, <3>2
    <2> QED BY <1>2, <2>3 DEF Told
  <1> QED BY <1>1, <1>2

\* A write adds the state written to those of its object, and nothing else.
LEMMA WriteStates ==
    ASSUME KubeTypeOK, NEW k \in Keys, NEW o \in Values[k], Write(k, o), NEW d \in Keys
    PROVE  States(d)' \subseteq States(d) \cup (IF d = k THEN {o} ELSE {})
  <1> DEFINE e == Event(o, FALSE)
  <1>1. e \in EventsOf(k) /\ e.obj = o
    BY EventTyped
  <1>2. Told(d)' \subseteq Told(d) \cup (IF d = k THEN {o} ELSE {})
    BY <1>1, ToldAppend DEF Write
  <1>3. store'[d] = (IF d = k THEN o ELSE store[d]) /\ cache'[d] = cache[d]
    BY DEF Write, KubeTypeOK
  <1> QED BY <1>2, <1>3 DEF States

\* A deletion adds no state: its event tells of the last one.
LEMMA RemoveStates ==
    ASSUME KubeTypeOK, NEW k \in Keys, Remove(k), NEW d \in Keys
    PROVE  States(d)' \subseteq States(d)
  <1> DEFINE e == Event(store[k], TRUE)
  <1>0. store[k] \in Values[k]
    BY DEF KubeTypeOK, Remove
  <1>1. e \in EventsOf(k) /\ e.obj = store[k]
    BY <1>0, EventTyped
  <1>2. Told(d)' \subseteq Told(d) \cup (IF d = k THEN {store[k]} ELSE {})
    BY <1>1, ToldAppend DEF Remove
  <1>3. store'[d] = (IF d = k THEN None ELSE store[d]) /\ cache'[d] = cache[d]
    BY DEF Remove, KubeTypeOK
  <1> QED BY <1>2, <1>3 DEF States

\* Nor does the reading of an event.
LEMMA ReceiveStates ==
    ASSUME KubeTypeOK, NEW k \in Keys, Receive(k), NEW d \in Keys
    PROVE  States(d)' \subseteq States(d)
  <1> DEFINE s == watch[k]
  <1>0. /\ s \in Seq(EventsOf(k)) /\ s # << >>
        /\ DOMAIN cache = Keys /\ DOMAIN watch = Keys
        /\ cache' = [cache EXCEPT ![k] = Outcome(Head(s))]
        /\ watch' = [watch EXCEPT ![k] = Tail(s)] /\ store' = store
    BY DEF KubeTypeOK, Receive
  <1>1. CASE d # k
    <2>1. watch'[d] = watch[d] /\ cache'[d] = cache[d]
      BY <1>0, <1>1
    <2> QED BY <1>0, <2>1 DEF States, Told
  <1>2. CASE d = k
    <2>1. /\ Tail(s) \in Seq(EventsOf(k)) /\ Len(Tail(s)) = Len(s) - 1
          /\ \A i \in 1..Len(Tail(s)) : Tail(s)[i] = s[i + 1]
      BY <1>0, HeadTailProperties
    <2>2. /\ DOMAIN s = 1..Len(s) /\ Len(s) \in Nat \ {0} /\ Head(s) = s[1]
          /\ DOMAIN Tail(s) = 1..(Len(s) - 1)
      BY <1>0, <2>1, LenProperties, EmptySeq
    <2>3. \A i \in DOMAIN Tail(s) : i + 1 \in DOMAIN s /\ Tail(s)[i] = s[i + 1]
      BY <2>1, <2>2
    <2>4. Told(d)' \subseteq Told(d)
      <3>1. watch'[d] = Tail(s)
        BY <1>0, <1>2
      <3>2. ASSUME NEW i \in DOMAIN Tail(s) PROVE Tail(s)[i].obj \in Told(d)
        BY <1>2, <2>3 DEF Told
      <3> QED BY <3>1, <3>2 DEF Told
    <2>5. Head(s).obj \in Told(d)
      <3>1. 1 \in DOMAIN watch[d] /\ watch[d][1] = Head(s)
        BY <1>2, <2>2
      <3> QED BY <3>1 DEF Told
    <2>6. cache'[d] \in {None} \cup Told(d)
      BY <1>0, <1>2, <2>5 DEF Outcome
    <2> QED BY <1>0, <2>4, <2>6 DEF States
  <1> QED BY <1>1, <1>2

\* Nor does a listing: what it finds is in the API server.
LEMMA RelistStates ==
    ASSUME Relist, NEW d \in Keys
    PROVE  States(d)' \subseteq States(d)
  <1>1. \/ watch'[d] = << >> /\ cache'[d] = store[d] /\ store'[d] = store[d]
        \/ watch'[d] = watch[d] /\ cache'[d] = cache[d] /\ store'[d] = store[d]
    BY DEF Relist
  <1>2. Told(d)' \subseteq Told(d)
    <2>1. DOMAIN << >> = {}
      OBVIOUS
    <2> QED BY <1>1, <2>1 DEF Told
  <1> QED BY <1>1, <1>2 DEF States

\* Nor does a new watch: it tells of what is cached or was to be told.
LEMMA RewatchStates ==
    ASSUME KubeTypeOK, NEW kind, Rewatch(kind), NEW d \in Keys
    PROVE  States(d)' \subseteq States(d)
  <1>0. store' = store /\ cache' = cache
    BY DEF Rewatch
  <1>1. CASE watch'[d] = watch[d]
    BY <1>0, <1>1 DEF States, Told
  <1>2. ASSUME NEW n \in 0..Len(watch[d]), watch'[d] = Rewatched(d, n)
        PROVE  States(d)' \subseteq States(d)
    <2> DEFINE new == Rewatched(d, n)
    <2>1. \A i \in DOMAIN new : new[i].obj \in {cache[d]} \cup Told(d)
      BY RewatchedFacts DEF Told
    <2> HIDE DEF new
    <2>2. Told(d)' \subseteq {cache[d]} \cup Told(d)
      BY <1>2, <2>1 DEF Told, new
    <2> QED BY <1>0, <2>2 DEF States
  <1> QED BY <1>1, <1>2, RewatchCases

\* Nor does any step that leaves store, cache and watches alone.
LEMMA UnchangedStates ==
    ASSUME UNCHANGED kubeVars, NEW d \in Keys
    PROVE  States(d)' = States(d)
  BY DEF States, Told, kubeVars

------------------------------------------------------------------------------
(* Steps of the operator.                                                  *)

\* A step by which the API server learns of no new state of an object.
Quiet ==
    /\ \/ \E k \in Keys : Remove(k)
       \/ \E k \in Keys : Receive(k)
       \/ Relist
       \/ \E kind \in Kinds : Rewatch(kind)
       \/ UNCHANGED kubeVars
    /\ UNCHANGED <<given, nextUid>>

Creates(c) == (CreateObject(c) \/ ReplyLost(c)) /\ work[c] # None /\ Built(c) # None

\* A step is a write by a user, a creation by a worker, or quiet.
LEMMA StepCases ==
    ASSUME [Next]_vars
    PROVE  \/ \E cr \in CRs : \E spec \in Specs[cr.kind] :
                  CreateCR(cr, spec) \/ EditCR(cr, spec)
           \/ \E c \in Controllers : Creates(c)
           \/ Quiet
  <1>1. ASSUME NEW cr \in CRs, DeleteCR(cr) PROVE Quiet
    BY <1>1, KeyFacts DEF DeleteCR, Quiet, boundVars, historyVars
  <1>2. ASSUME ClusterStep PROVE Quiet
    BY <1>2, KeyFacts DEF ClusterStep, GarbageCollect, OutsideDelete, Quiet, boundVars
  <1>3. ASSUME InformerStep PROVE Quiet
    BY <1>3 DEF InformerStep, Deliver, Resync, BrokenWatch, Notify, Quiet, boundVars, historyVars
  <1>4. ASSUME NEW cr \in CRs, BeginPass(cr) \/ ReadFails(cr) PROVE Quiet
    BY <1>4 DEF BeginPass, ReadFails, Quiet, boundVars, historyVars
  <1>5. ASSUME NEW c \in Controllers, PassStep(c) PROVE Creates(c) \/ Quiet
    BY <1>5 DEF PassStep, FindObject, MissObject, LookupFails, FailToBuild, Conflict, Rejected,
                CreateObject, ReplyLost, Creating, Creates, Quiet, boundVars,
                historyVars
  <1>6. ASSUME Restart PROVE Quiet
    BY <1>6 DEF Restart, Quiet, historyVars
  <1>7. ASSUME UNCHANGED vars PROVE Quiet
    BY <1>7 DEF vars, Quiet, boundVars, historyVars
  <1> QED BY <1>1, <1>2, <1>3, <1>4, <1>5, <1>6, <1>7 DEF Next, UserStep, WorkerStep

\* By a quiet step nobody is told anything new.
LEMMA QuietStates ==
    ASSUME TypeOK, Quiet, NEW d \in Keys
    PROVE  States(d)' \subseteq States(d)
  <1>1. KubeTypeOK
    BY DEF TypeOK
  <1> QED BY <1>1, RemoveStates, ReceiveStates, RelistStates, RewatchStates,
             UnchangedStates DEF Quiet

\* A creation by a worker adds what the worker built to the states of its target.
LEMMA CreateStates ==
    ASSUME TypeOK, NEW c \in Controllers, Creates(c), NEW d \in Keys
    PROVE  /\ Target(c) \in Dependents /\ Owned(c) \in Values[Target(c)]
           /\ Write(Target(c), Owned(c)) /\ UNCHANGED <<given, nextUid>>
           /\ States(d)' \subseteq States(d) \cup (IF d = Target(c) THEN {Owned(c)} ELSE {})
           /\ store' = [store EXCEPT ![Target(c)] = Owned(c)]
           /\ lost' = lost \ {Target(c)}
  <1>0. KubeTypeOK
    BY DEF TypeOK
  <1>1. Target(c) \in Dependents /\ Owned(c) \in Values[Target(c)]
    BY WorkTyped DEF Creates
  <1>2. /\ Write(Target(c), Owned(c)) /\ UNCHANGED <<given, nextUid>>
        /\ lost' = lost \ {Target(c)}
    BY DEF Creates, CreateObject, ReplyLost, boundVars
  <1> QED BY <1>0, <1>1, <1>2, WriteStates, KeyFacts DEF Write

\* A write of a CR changes no dependent.
LEMMA UserWrite ==
    ASSUME TypeOK, NEW cr \in CRs, NEW spec \in Specs[cr.kind],
           CreateCR(cr, spec) \/ EditCR(cr, spec)
    PROVE  \E u \in Uids :
               /\ Write(cr, [uid |-> u, spec |-> spec])
               /\ [uid |-> u, spec |-> spec] \in Values[cr]
               /\ <<cr, spec>> \in given'[u]
               /\ \A d \in Keys : States(d)' \subseteq
                      States(d) \cup (IF d = cr THEN {[uid |-> u, spec |-> spec]} ELSE {})
  <1> DEFINE Goal(u) == /\ Write(cr, [uid |-> u, spec |-> spec])
                        /\ [uid |-> u, spec |-> spec] \in Values[cr]
                        /\ <<cr, spec>> \in given'[u]
  <1>1. CASE CreateCR(cr, spec)
    <2>1. nextUid \in Uids
      BY <1>1 DEF CreateCR, TypeOK, Uids
    <2>2. Goal(nextUid)
      BY <1>1, <2>1, CRValue DEF CreateCR, TypeOK
    <2> QED BY <2>1, <2>2, WriteStates, KeyFacts DEF TypeOK
  <1>2. CASE EditCR(cr, spec)
    <2>1. store[cr] \in Values[cr]
      BY <1>2, KeyFacts DEF EditCR, TypeOK, KubeTypeOK
    <2>2. store[cr].uid \in Uids
      BY <2>1, CRValue
    <2>3. Goal(store[cr].uid)
      BY <1>2, <2>2, CRValue DEF EditCR, TypeOK
    <2> QED BY <2>2, <2>3, WriteStates, KeyFacts DEF TypeOK
  <1> QED BY <1>1, <1>2

\* What a worker is at after a step: where it was, one step further, or at the
\* start of a pass.
Stays(c) == work'[c] = work[c]
Ends(c) == work'[c] = None
Misses(c) == work[c] # None /\ work'[c] = [work[c] EXCEPT !.missing = TRUE]
Advances(c) ==
    /\ work[c] # None
    /\ work'[c] = [work[c] EXCEPT !.step = work[c].step + 1, !.missing = FALSE]
Begins(c) ==
    \E cr \in CRs :
        /\ cache[cr] # None
        /\ work'[c] = [cr |-> cr, uid |-> cache[cr].uid, spec |-> cache[cr].spec,
                       step |-> 1, missing |-> FALSE]

\* How a step changes the pass a worker is in.
LEMMA WorkSteps ==
    ASSUME TypeOK, [Next]_vars, NEW c \in Controllers
    PROVE  \/ Stays(c) \/ Ends(c) \/ Misses(c) \/ Begins(c)
           \/ Advances(c) /\ (cache[Target(c)] # None \/ Creates(c))
  <1> DEFINE Goal == \/ Stays(c) \/ Ends(c) \/ Misses(c) \/ Begins(c)
                     \/ Advances(c) /\ (cache[Target(c)] # None \/ Creates(c))
  <1> SUFFICES Goal
    OBVIOUS
  <1>0. DOMAIN work = Controllers
    BY DEF TypeOK
  <1>1. CASE UserStep
    BY <1>1 DEF UserStep, CreateCR, EditCR, DeleteCR, workVars, Stays
  <1>2. CASE ClusterStep
    BY <1>2 DEF ClusterStep, GarbageCollect, OutsideDelete, workVars, Stays
  <1>3. CASE InformerStep
    BY <1>3 DEF InformerStep, Deliver, Resync, BrokenWatch, Notify, workVars, Stays
  <1>4. ASSUME NEW cr \in CRs, BeginPass(cr) \/ ReadFails(cr) PROVE Goal
    BY <1>0, <1>4 DEF BeginPass, ReadFails, workVars, Stays, Ends, Begins
  <1>5. ASSUME NEW d \in Controllers, PassStep(d) PROVE Goal
    <2>1. CASE d # c
      BY <1>0, <1>5, <2>1 DEF PassStep, FindObject, MissObject, LookupFails, CreateObject,
              FailToBuild, Conflict, Rejected, ReplyLost, Advance, Fail, Stays
    <2>2. CASE d = c
      <3>1. CASE FindObject(c)
        BY <1>0, <3>1 DEF FindObject, Advance, Ends, Advances
      <3>2. CASE MissObject(c)
        BY <1>0, <3>2 DEF MissObject, Misses
      <3>3. CASE CreateObject(c)
        BY <1>0, <3>3 DEF CreateObject, Creating, Advance, Ends, Advances, Creates
      <3>4. CASE \/ LookupFails(c) \/ FailToBuild(c) \/ Conflict(c) \/ Rejected(c)
                 \/ ReplyLost(c)
        BY <1>0, <3>4 DEF LookupFails, FailToBuild, Conflict, Rejected, ReplyLost, Fail, Ends
      <3> QED BY <1>5, <2>2, <3>1, <3>2, <3>3, <3>4 DEF PassStep
    <2> QED BY <2>1, <2>2
  <1>6. CASE Restart
    BY <1>6 DEF Restart, Ends
  <1>7. CASE UNCHANGED vars
    BY <1>7 DEF vars, workVars, Stays
  <1> QED BY <1>1, <1>2, <1>3, <1>4, <1>5, <1>6, <1>7 DEF Next, WorkerStep

------------------------------------------------------------------------------
(* The order in which objects are created.                                 *)

\* What existed once has existed ever after.
LEMMA ExistedStays ==
    ASSUME TypeOK, [Next]_vars, NEW k \in Dependents, Existed(k)
    PROVE  Existed(k)'
  <1>0. /\ k \in Keys /\ k \notin CRs /\ DOMAIN store = Keys
        /\ \A j \in Keys : None \notin Values[j]
    BY KeyFacts, NoneAssumption DEF TypeOK, KubeTypeOK
  <1>1. CASE UserStep
    BY <1>0, <1>1 DEF UserStep, CreateCR, EditCR, DeleteCR, Write, Remove, historyVars, Existed
  <1>2. CASE ClusterStep
    BY <1>0, <1>2 DEF ClusterStep, GarbageCollect, OutsideDelete, Remove, Existed
  <1>3. CASE InformerStep
    BY <1>3 DEF InformerStep, Deliver, Resync, BrokenWatch, Rewatch, Notify, Receive,
                kubeVars, historyVars, Existed
  <1>4. ASSUME NEW cr \in CRs, BeginPass(cr) \/ ReadFails(cr) PROVE Existed(k)'
    BY <1>4 DEF BeginPass, ReadFails, kubeVars, historyVars, Existed
  <1>5. ASSUME NEW c \in Controllers, PassStep(c) PROVE Existed(k)'
    <2>1. CASE CreateObject(c) \/ ReplyLost(c)
      <3>1. work[c] # None /\ Built(c) # None
        BY <2>1 DEF CreateObject, ReplyLost, Creating
      <3>2. Creates(c)
        BY <2>1, <3>1 DEF Creates
      <3>3. /\ Target(c) \in Keys /\ Owned(c) \in Values[Target(c)]
            /\ store' = [store EXCEPT ![Target(c)] = Owned(c)]
            /\ lost' = lost \ {Target(c)}
        BY <1>0, <3>2, CreateStates, KeyFacts
      <3>4. Owned(c) # None
        BY <1>0, <3>3
      <3> QED BY <1>0, <3>3, <3>4 DEF Existed
    <2>2. CASE \/ FindObject(c) \/ MissObject(c) \/ LookupFails(c) \/ FailToBuild(c)
               \/ Conflict(c) \/ Rejected(c)
      BY <2>2 DEF FindObject, MissObject, LookupFails, FailToBuild, Conflict, Rejected, kubeVars,
                  historyVars, Existed
    <2> QED BY <1>5, <2>1, <2>2 DEF PassStep
  <1>6. CASE Restart
    BY <1>6 DEF Restart, Relist, historyVars, Existed
  <1>7. CASE UNCHANGED vars
    BY <1>7 DEF vars, kubeVars, historyVars, Existed
  <1> QED BY <1>1, <1>2, <1>3, <1>4, <1>5, <1>6, <1>7 DEF Next, WorkerStep

\* Whatever anybody can be told of a dependent, it existed; a worker has passed
\* the steps of objects that existed; and the order is as it should be.
ToldExisted == \A k \in Dependents : States(k) # {} => Existed(k)

PassedExisted ==
    \A c \in Controllers : work[c] # None =>
        \A k \in Dependents, j \in 1..(work[c].step - 1) :
            StepKey(work[c].cr, j) = k => Existed(k)

OrderInv == ToldExisted /\ PassedExisted /\ CreatedInOrder

\* At the start nothing exists and nobody is told of anything.
LEMMA InitOrder == Init => OrderInv
  <1> SUFFICES ASSUME Init PROVE OrderInv
    OBVIOUS
  <1>1. ASSUME NEW k \in Dependents PROVE store[k] = None /\ States(k) = {}
    <2>1. watch[k] = << >> /\ cache[k] = None /\ store[k] = None
      BY KeyFacts DEF Init, KubeInit
    <2>2. DOMAIN << >> = {}
      OBVIOUS
    <2> QED BY <2>1, <2>2 DEF States, Told
  <1> QED BY <1>1 DEF Init, OrderInv, ToldExisted, PassedExisted, CreatedInOrder

\* Nobody comes to be told of a dependent that never existed.
LEMMA NextToldExisted ==
    ASSUME TypeOK, [Next]_vars, ToldExisted
    PROVE  ToldExisted'
  <1> SUFFICES ASSUME NEW k \in Dependents, States(k)' # {} PROVE Existed(k)'
    BY DEF ToldExisted
  <1>0. /\ k \in Keys /\ k \notin CRs /\ DOMAIN store = Keys
        /\ \A j \in Keys : None \notin Values[j]
    BY KeyFacts, NoneAssumption DEF TypeOK, KubeTypeOK
  <1>1. CASE States(k)' \subseteq States(k)
    BY <1>1, ExistedStays DEF ToldExisted
  <1>2. ASSUME NEW cr \in CRs, NEW spec \in Specs[cr.kind],
               CreateCR(cr, spec) \/ EditCR(cr, spec)
        PROVE  Existed(k)'
    BY <1>0, <1>1, <1>2, UserWrite
  <1>3. ASSUME NEW c \in Controllers, Creates(c) PROVE Existed(k)'
    <2>1. CASE k = Target(c)
      <3>1. Owned(c) \in Values[k] /\ store'[k] = Owned(c)
        BY <1>0, <1>3, <2>1, CreateStates
      <3> QED BY <1>0, <3>1 DEF Existed
    <2>2. CASE k # Target(c)
      <3>1. States(k)' \subseteq States(k)
        BY <1>0, <1>3, <2>2, CreateStates
      <3> QED BY <1>1, <3>1
    <2> QED BY <2>1, <2>2
  <1>4. CASE Quiet
    BY <1>0, <1>1, <1>4, QuietStates
  <1> QED BY <1>2, <1>3, <1>4, StepCases

\* What a worker finds or creates at its step did exist from then on.
LEMMA NextPassedExisted ==
    ASSUME TypeOK, [Next]_vars, OrderInv
    PROVE  PassedExisted'
  <1> SUFFICES ASSUME NEW c \in Controllers, work'[c] # None, NEW k \in Dependents,
                      NEW j \in 1..(work'[c].step - 1), StepKey(work'[c].cr, j) = k
               PROVE  Existed(k)'
    BY DEF PassedExisted
  <1>1. Existed(k) => Existed(k)'
    BY ExistedStays
  <1>2. ASSUME work[c] # None, work'[c].cr = work[c].cr, j \in 1..(work[c].step - 1)
        PROVE  Existed(k)
    BY <1>2 DEF OrderInv, PassedExisted
  <1>3. CASE Stays(c)
    BY <1>1, <1>2, <1>3 DEF Stays
  <1>4. CASE Misses(c)
    <2>1. work[c] # None /\ work[c] \in PassesOf(c)
      BY <1>4, WorkTyped DEF Misses
    <2>2. work'[c].cr = work[c].cr /\ work'[c].step = work[c].step
      BY <1>4, <2>1 DEF Misses, PassesOf
    <2> QED BY <1>1, <1>2, <2>1, <2>2
  <1>5. CASE Begins(c)
    <2>1. work'[c].step = 1
      BY <1>5 DEF Begins
    <2> QED BY <2>1
  <1>6. CASE Advances(c) /\ (cache[Target(c)] # None \/ Creates(c))
    <2>1. /\ work[c] # None /\ work[c] \in PassesOf(c) /\ work[c].step \in Nat
          /\ Target(c) \in Dependents
      BY <1>6, WorkTyped, StepFacts DEF Advances
    <2>2. work'[c].cr = work[c].cr /\ work'[c].step = work[c].step + 1
      BY <1>6, <2>1 DEF Advances, PassesOf
    <2>3. CASE j \in 1..(work[c].step - 1)
      BY <1>1, <1>2, <2>1, <2>2, <2>3
    <2>4. CASE j = work[c].step
      <3>1. k = Target(c)
        BY <2>2, <2>4 DEF Target
      <3>2. ASSUME cache[k] # None PROVE Existed(k)
        BY <3>2 DEF OrderInv, ToldExisted, States
      <3>3. ASSUME Creates(c) PROVE Existed(k)'
        <4>1. k \in Keys /\ Owned(c) \in Values[k] /\ store'[k] = Owned(c)
          BY <3>1, <3>3, CreateStates, KeyFacts DEF TypeOK, KubeTypeOK
        <4> QED BY <4>1, NoneAssumption DEF Existed
      <3> QED BY <1>1, <1>6, <3>1, <3>2, <3>3
    <2> QED BY <2>1, <2>2, <2>3, <2>4
  <1> QED BY <1>3, <1>4, <1>5, <1>6, WorkSteps DEF Ends

\* What a step stores was stored before or is what a worker creates at its step.
LEMMA NewDependents ==
    ASSUME TypeOK, [Next]_vars, NEW k \in Dependents, store'[k] # None
    PROVE  \/ store[k] # None /\ store'[k] = store[k]
           \/ \E c \in Controllers :
                 /\ work[c] # None /\ Creates(c)
                 /\ k = Target(c) /\ store'[k] = Owned(c)
  <1>0. k \in Keys /\ k \notin CRs /\ DOMAIN store = Keys
    BY KeyFacts DEF TypeOK, KubeTypeOK
  <1>1. ASSUME NEW cr \in CRs, NEW spec \in Specs[cr.kind],
               CreateCR(cr, spec) \/ EditCR(cr, spec)
        PROVE  store'[k] = store[k]
    BY <1>0, <1>1 DEF CreateCR, EditCR, Write
  <1>2. ASSUME NEW c \in Controllers, Creates(c), k # Target(c)
        PROVE  store'[k] = store[k]
    BY <1>0, <1>2, CreateStates
  <1>3. ASSUME NEW c \in Controllers, Creates(c), k = Target(c)
        PROVE  work[c] # None /\ store'[k] = Owned(c)
    BY <1>0, <1>3, CreateStates DEF Creates
  <1>4. ASSUME Quiet PROVE store'[k] = store[k]
    BY <1>0, <1>4 DEF Quiet, Remove, Receive, Relist, Rewatch, kubeVars
  <1> QED BY <1>1, <1>2, <1>3, <1>4, StepCases

\* So what is created at a step comes after the objects of the steps before it.
LEMMA NextCreatedInOrder ==
    ASSUME TypeOK, [Next]_vars, OrderInv
    PROVE  CreatedInOrder'
  <1> SUFFICES ASSUME NEW k \in Dependents, store'[k] # None
               PROVE  \E i \in StepNumbers(store'[k].owner.cr.kind) :
                          /\ StepKey(store'[k].owner.cr, i) = k
                          /\ \A j \in 1..i : Existed(StepKey(store[k].owner.cr, j))'
    BY DEF CreatedInOrder
  <1>1. ASSUME NEW cr \in CRs, NEW i \in StepNumbers(cr.kind), NEW j \in 1..i,
               Existed(StepKey(cr, j))
        PROVE  Existed(StepKey(cr, j))'
    <2>1. StepKey(cr, j) \in Dependents
      BY KeyFacts, StepFacts DEF StepNumbers
    <2> QED BY <1>1, <2>1, ExistedStays
  <1>2. CASE store[k] # None /\ store'[k] = store[k]
    <2> DEFINE cr == store[k].owner.cr
    <2>1. cr \in CRs
      BY <1>2, DependentValue, CreatorsAreCRs, KeyFacts DEF TypeOK, KubeTypeOK
    <2>2. PICK i \in StepNumbers(cr.kind) :
              StepKey(cr, i) = k /\ \A j \in 1..i : Existed(StepKey(cr, j))
      BY <1>2 DEF OrderInv, CreatedInOrder
    <2>3. PICK cr0 \in CRs : cr0 = cr
      BY <2>1
    <2>4. \A j \in 1..i : Existed(StepKey(cr0, j))'
      BY <1>1, <2>2, <2>3
    <2> QED BY <1>2, <2>2, <2>3, <2>4 DEF Existed
  <1>3. ASSUME NEW c \in Controllers, work[c] # None, Creates(c), k = Target(c),
               store'[k] = Owned(c)
        PROVE  \E i \in StepNumbers(store'[k].owner.cr.kind) :
                   /\ StepKey(store'[k].owner.cr, i) = k
                   /\ \A j \in 1..i : Existed(StepKey(store[k].owner.cr, j))'
    <2>1. PICK cr0 \in CRs, i \in StepNumbers(c) :
              cr0 = work[c].cr /\ i = work[c].step /\ cr0.kind = c
      BY <1>3, WorkTyped
    <2>2. StepKey(cr0, i) = k /\ store'[k].owner.cr = cr0
      BY <1>3, <2>1 DEF Target, Owned
    <2>3. Existed(k)'
      <3>1. k \in Keys /\ Owned(c) \in Values[k]
        BY <1>3, CreateStates, KeyFacts
      <3> QED BY <1>3, <3>1 DEF Existed
    <2>4. ASSUME NEW j \in 1..i PROVE Existed(StepKey(cr0, j))'
      <3>1. StepKey(cr0, j) \in Dependents /\ i \in Nat
        BY <2>1, KeyFacts, StepFacts DEF StepNumbers
      <3>2. CASE j = i
        BY <2>2, <2>3, <3>2
      <3>3. CASE j \in 1..(i - 1)
        <4>1. Existed(StepKey(cr0, j))
          BY <1>3, <2>1, <3>1, <3>3 DEF OrderInv, PassedExisted
        <4> QED BY <1>1, <2>1, <4>1
      <3> QED BY <3>1, <3>2, <3>3
    <2> QED BY <2>1, <2>2, <2>4 DEF Existed
  <1> QED BY <1>2, <1>3, NewDependents

\* The three together are inductive.
LEMMA OrderHolds == Spec => []OrderInv
  <1>1. TypeOK /\ OrderInv /\ [Next]_vars => OrderInv'
    BY NextToldExisted, NextPassedExisted, NextCreatedInOrder DEF OrderInv
  <1> QED BY InitOrder, TypesHold, <1>1, PTL DEF Spec

\* An object is created only after the objects of all the earlier steps were, in
\* whatever order events, conflicts, errors, restarts and deletions come.
THEOREM ObjectsAreCreatedInOrder == Spec => []CreatedInOrder
  <1>1. OrderInv => CreatedInOrder
    BY DEF OrderInv
  <1> QED BY OrderHolds, <1>1, PTL

------------------------------------------------------------------------------
(* What objects are built from.                                            *)

\* Uids are used in order; whatever anybody can be told of a CR, and whatever a
\* worker remembers of it, are specs that very CR had.
UidsFresh == \A u \in Uids : u >= nextUid => given[u] = {}

ToldGiven == \A cr \in CRs : \A o \in States(cr) : <<cr, o.spec>> \in given[o.uid]

WorkedGiven ==
    \A c \in Controllers : work[c] # None =>
        <<work[c].cr, work[c].spec>> \in given[work[c].uid]

ProvenanceInv == UidsFresh /\ ToldGiven /\ WorkedGiven /\ BuiltFromOwnersSpec

\* At the start no uid is used and no object was built.
LEMMA InitProvenance == Init => ProvenanceInv
  <1> SUFFICES ASSUME Init PROVE ProvenanceInv
    OBVIOUS
  <1>1. ASSUME NEW k \in Keys PROVE store[k] = None /\ States(k) = {}
    <2>1. watch[k] = << >> /\ cache[k] = None /\ store[k] = None
      BY <1>1 DEF Init, KubeInit
    <2>2. DOMAIN << >> = {}
      OBVIOUS
    <2> QED BY <2>1, <2>2 DEF States, Told
  <1> QED BY <1>1, KeyFacts
          DEF Init, ProvenanceInv, UidsFresh, ToldGiven, WorkedGiven, BuiltFromOwnersSpec

\* Specs are added to the history of a CR, never taken away, and uids are not reused.
LEMMA GivenGrows ==
    ASSUME TypeOK, [Next]_vars, ProvenanceInv
    PROVE  UidsFresh' /\ \A u \in Uids : given[u] \subseteq given'[u]
  <1> DEFINE Goal == UidsFresh' /\ \A u \in Uids : given[u] \subseteq given'[u]
  <1>0. Uids \subseteq Nat /\ nextUid \in Nat /\ DOMAIN given = Uids
    BY BoundsAssumption DEF TypeOK, Uids
  <1>1. ASSUME NEW cr \in CRs, NEW spec \in Specs[cr.kind], CreateCR(cr, spec)
        PROVE  Goal
    <2>1. nextUid' = nextUid + 1 /\ given' = [given EXCEPT ![nextUid] = {<<cr, spec>>}]
      BY <1>1 DEF CreateCR
    <2>2. nextUid \in Uids => given[nextUid] = {}
      BY <1>0 DEF ProvenanceInv, UidsFresh
    <2> QED BY <1>0, <2>1, <2>2 DEF ProvenanceInv, UidsFresh
  <1>2. ASSUME NEW cr \in CRs, NEW spec \in Specs[cr.kind], EditCR(cr, spec)
        PROVE  Goal
    <2>1. /\ nextUid' = nextUid
          /\ given' = [given EXCEPT ![store[cr].uid] = @ \cup {<<cr, spec>>}]
      BY <1>2 DEF EditCR
    <2>2. store[cr] \in Values[cr] /\ store[cr] \in States(cr)
      BY <1>2, KeyFacts DEF EditCR, TypeOK, KubeTypeOK, States
    <2>3. store[cr].uid \in Uids /\ given[store[cr].uid] # {}
      BY <2>2, CRValue DEF ProvenanceInv, ToldGiven
    <2>4. ~ (store[cr].uid >= nextUid)
      BY <2>3 DEF ProvenanceInv, UidsFresh
    <2> QED BY <1>0, <2>1, <2>3, <2>4 DEF ProvenanceInv, UidsFresh
  <1>3. ASSUME NEW c \in Controllers, Creates(c) PROVE Goal
    <2>1. UNCHANGED <<given, nextUid>>
      BY <1>3 DEF Creates, CreateObject, ReplyLost, boundVars
    <2> QED BY <2>1 DEF ProvenanceInv, UidsFresh
  <1>4. ASSUME Quiet PROVE Goal
    BY <1>4 DEF Quiet, ProvenanceInv, UidsFresh
  <1> QED BY <1>1, <1>2, <1>3, <1>4, StepCases

\* Whatever anybody can be told an object is in is a proper state of it.
LEMMA StatesTyped ==
    ASSUME TypeOK, NEW k \in Keys
    PROVE  States(k) \subseteq Values[k]
  <1>1. store[k] \in Values[k] \cup {None} /\ cache[k] \in Values[k] \cup {None}
    BY DEF TypeOK, KubeTypeOK
  <1>2. watch[k] \in Seq(EventsOf(k))
    BY DEF TypeOK, KubeTypeOK
  <1>3. ASSUME NEW i \in DOMAIN watch[k]
        PROVE  watch[k][i].obj \in Values[k]
    <2>1. watch[k][i] \in EventsOf(k)
      BY <1>2, ElementOfSeq, LenProperties
    <2> QED BY <2>1 DEF EventsOf
  <1> QED BY <1>1, <1>3 DEF States, Told

\* Nobody comes to be told of a spec that its CR never had.
LEMMA NextToldGiven ==
    ASSUME TypeOK, [Next]_vars, ProvenanceInv
    PROVE  ToldGiven'
  <1> SUFFICES ASSUME NEW cr \in CRs, NEW o \in States(cr)' 
               PROVE  <<cr, o.spec>> \in given'[o.uid]
    BY DEF ToldGiven
  <1>0. cr \in Keys /\ \A k \in Dependents : k # cr
    BY KeyFacts
  <1>1. CASE o \in States(cr)
    <2>1. o.uid \in Uids
      BY <1>0, <1>1, StatesTyped, CRValue
    <2> QED BY <1>1, <2>1, GivenGrows DEF ProvenanceInv, ToldGiven
  <1>2. ASSUME NEW d \in CRs, NEW spec \in Specs[d.kind],
               CreateCR(d, spec) \/ EditCR(d, spec), o \notin States(cr)
        PROVE  <<cr, o.spec>> \in given'[o.uid]
    <2>1. PICK u \in Uids :
              <<d, spec>> \in given'[u] /\ o = [uid |-> u, spec |-> spec] /\ cr = d
      BY <1>0, <1>2, UserWrite
    <2> QED BY <2>1
  <1>3. ASSUME NEW c \in Controllers, Creates(c) PROVE o \in States(cr)
    BY <1>0, <1>3, CreateStates
  <1>4. ASSUME Quiet PROVE o \in States(cr)
    BY <1>0, <1>4, QuietStates
  <1> QED BY <1>1, <1>2, <1>3, <1>4, StepCases

\* So a worker starts and stays with a spec that its CR had.
LEMMA NextWorkedGiven ==
    ASSUME TypeOK, [Next]_vars, ProvenanceInv
    PROVE  WorkedGiven'
  <1> SUFFICES ASSUME NEW c \in Controllers, work'[c] # None
               PROVE  <<work'[c].cr, work'[c].spec>> \in given'[work'[c].uid]
    BY DEF WorkedGiven
  <1>1. CASE Stays(c) \/ Misses(c) \/ Advances(c)
    <2>1. work[c] # None /\ work[c] \in PassesOf(c)
      BY <1>1, WorkTyped DEF Stays, Misses, Advances
    <2>2. /\ work'[c].uid = work[c].uid /\ work'[c].spec = work[c].spec
          /\ work'[c].cr = work[c].cr /\ work[c].uid \in Uids
      BY <1>1, <2>1 DEF Stays, Misses, Advances, PassesOf
    <2> QED BY <2>1, <2>2, GivenGrows DEF ProvenanceInv, WorkedGiven
  <1>2. CASE Begins(c)
    <2>1. PICK cr \in CRs : /\ cache[cr] # None
                            /\ work'[c].uid = cache[cr].uid /\ work'[c].cr = cr
                            /\ work'[c].spec = cache[cr].spec
      BY <1>2 DEF Begins
    <2>2. cache[cr] \in States(cr) /\ cache[cr].uid \in Uids
      BY <2>1, KeyFacts, StatesTyped, CRValue DEF States
    <2> QED BY <2>1, <2>2, GivenGrows DEF ProvenanceInv, ToldGiven
  <1> QED BY <1>1, <1>2, WorkSteps DEF Ends

\* So what is created was built from a spec of its owner, and stays so.
LEMMA NextBuilt ==
    ASSUME TypeOK, [Next]_vars, ProvenanceInv
    PROVE  BuiltFromOwnersSpec'
  <1> DEFINE Right(k, o, u) ==
          \E i \in StepNumbers(o.owner.cr.kind), spec \in Specs[o.owner.cr.kind] :
              /\ <<o.owner.cr, spec>> \in u
              /\ StepKey(o.owner.cr, i) = k
              /\ o.data = Build(o.owner.cr, Steps[o.owner.cr.kind][i], spec)
  <1> SUFFICES ASSUME NEW k \in Dependents, store'[k] # None
               PROVE  Right(k, store'[k], given'[store'[k].owner.uid])
    BY DEF BuiltFromOwnersSpec
  <1>1. CASE store[k] # None /\ store'[k] = store[k]
    <2>1. store[k].owner.uid \in Uids
      BY <1>1, DependentValue, KeyFacts DEF TypeOK, KubeTypeOK
    <2>2. Right(k, store[k], given[store[k].owner.uid])
      BY <1>1 DEF ProvenanceInv, BuiltFromOwnersSpec
    <2>3. given[store[k].owner.uid] \subseteq given'[store[k].owner.uid]
      BY <2>1, GivenGrows
    <2> QED BY <1>1, <2>2, <2>3
  <1>2. ASSUME NEW c \in Controllers, work[c] # None, Creates(c), k = Target(c),
               store'[k] = Owned(c)
        PROVE  Right(k, store'[k], given'[store'[k].owner.uid])
    <2>1. /\ work[c].cr.kind = c /\ work[c].step \in StepNumbers(c) /\ work[c].uid \in Uids
          /\ work[c].spec \in Specs[c]
      BY <1>2, WorkTyped
    <2>2. <<work[c].cr, work[c].spec>> \in given'[work[c].uid]
      BY <1>2, <2>1, GivenGrows DEF ProvenanceInv, WorkedGiven
    <2>3. /\ store'[k].owner.cr = work[c].cr /\ store'[k].owner.uid = work[c].uid
          /\ store'[k].data = Built(c)
      BY <1>2 DEF Owned
    <2> QED BY <1>2, <2>1, <2>2, <2>3 DEF Built, Target
  <1> QED BY <1>1, <1>2, NewDependents

\* These, too, are inductive.
LEMMA ProvenanceHolds == Spec => []ProvenanceInv
  <1>1. TypeOK /\ ProvenanceInv /\ [Next]_vars => ProvenanceInv'
    BY GivenGrows, NextToldGiven, NextWorkedGiven, NextBuilt DEF ProvenanceInv
  <1> QED BY InitProvenance, TypesHold, <1>1, PTL DEF Spec

\* A dependent is built from a spec its own owner had, never from that of another
\* CR of the same name, however stale the worker's copy of the CR was.
THEOREM ObjectsAreBuiltFromTheirOwners == Spec => []BuiltFromOwnersSpec
  <1>1. ProvenanceInv => BuiltFromOwnersSpec
    BY DEF ProvenanceInv
  <1> QED BY ProvenanceHolds, <1>1, PTL

==============================================================================

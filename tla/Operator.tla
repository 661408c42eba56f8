------------------------------ MODULE Operator -------------------------------
(***************************************************************************)
(* The controllers of the Atomix operator.                                 *)
(*                                                                         *)
(* A controller owns the custom resources (CRs) of one kind.  Its single   *)
(* worker takes a CR's name from the work queue, reads the CR from the     *)
(* cache and walks through a list of steps; each step looks one dependent  *)
(* object up in the cache and creates it in the API server if it is not    *)
(* there.  The first error ends the pass and the name is queued again.     *)
(* Nothing is ever updated or deleted: when a CR goes, the garbage         *)
(* collector of Kubernetes removes what it owned.                          *)
(*                                                                         *)
(* The three reconcilers differ in their steps, in the objects these       *)
(* create (module Deployments) and in the kind of dependent they watch.    *)
(***************************************************************************)
EXTENDS Kube, Deployments

CONSTANTS
    WatchedKind,        \* WatchedKind[c]: the dependents c is told about
    MaxNotices,         \* bound: how many notices of a CR wait to be handled
    MaxEdits,           \* bound: how often the spec of a CR is changed
    MaxFaults           \* bound: how many faults happen

\* A reconcile pass under way: the CR as it was read at its start, the step it
\* is at, and whether that step has found its object missing.
PassesOf(c) ==
    [cr : {cr \in CRs : cr.kind = c}, uid : Uids, spec : Specs[c],
     step : StepNumbers(c), missing : BOOLEAN]

ASSUME BoundsAssumption ==
    /\ MaxUid \in Nat
    /\ MaxLag \in Nat
    /\ MaxNotices \in Nat
    /\ MaxEdits \in Nat
    /\ MaxFaults \in Nat

ASSUME KeysAssumption ==
    /\ IsFiniteSet(Keys)
    /\ Keys = ObjectKeys
    /\ Values = ObjectValues

ASSUME NoneAssumption ==
    /\ None \notin Data
    /\ \A k \in Keys : None \notin Values[k]
    /\ \A c \in Controllers : None \notin PassesOf(c)

VARIABLES
    queue,              \* the CRs in the work queue of their controller
    notices,            \* notices[cr]: events the informers have read and whose
                        \*   handlers have yet to put cr on the queue
    work,               \* work[c]: the pass the worker of c is in, or None
    nextUid,            \* the uid of the next CR
    edits,              \* how many edits were made
    faults,             \* how many faults happened
    given,              \* history: given[u] is every spec a CR had under the
                        \*   uid u, each with the key of the CR
    lost                \* history: the dependents that existed and were removed

workVars == <<queue, notices, work>>
boundVars == <<nextUid, edits, faults>>
historyVars == <<given, lost>>
vars == <<kubeVars, workVars, boundVars, historyVars>>

TypeOK ==
    /\ KubeTypeOK
    /\ queue \subseteq CRs
    /\ notices \in [CRs -> Nat]
    /\ DOMAIN work = Controllers
    /\ \A c \in Controllers : work[c] \in PassesOf(c) \cup {None}
    /\ nextUid \in 1..(MaxUid + 1)
    /\ edits \in 0..MaxEdits
    /\ faults \in 0..MaxFaults
    /\ given \in [Uids -> SUBSET (CRs \X AllSpecs)]
    /\ lost \subseteq Dependents

Init ==
    /\ KubeInit
    /\ queue = {}
    /\ notices = [cr \in CRs |-> 0]
    /\ work = [c \in Controllers |-> None]
    /\ nextUid = 1
    /\ edits = 0
    /\ faults = 0
    /\ given = [u \in Uids |-> {}]
    /\ lost = {}

\* The CR with this key and uid is in the API server.
Alive(owner) == store[owner.cr] # None /\ store[owner.cr].uid = owner.uid

Fault(kind) ==
    /\ kind \in Faults
    /\ faults < MaxFaults
    /\ faults' = faults + 1

------------------------------------------------------------------------------
(* Users create, edit and delete CRs.                                      *)

CreateCR(cr, spec) ==
    /\ store[cr] = None
    /\ nextUid <= MaxUid
    /\ Write(cr, [uid |-> nextUid, spec |-> spec])
    /\ given' = [given EXCEPT ![nextUid] = {<<cr, spec>>}]
    /\ nextUid' = nextUid + 1
    /\ UNCHANGED <<workVars, edits, faults, lost>>

EditCR(cr, spec) ==
    /\ store[cr] # None
    /\ store[cr].spec # spec
    /\ edits < MaxEdits
    /\ Write(cr, [uid |-> store[cr].uid, spec |-> spec])
    /\ given' = [given EXCEPT ![store[cr].uid] = @ \cup {<<cr, spec>>}]
    /\ edits' = edits + 1
    /\ UNCHANGED <<workVars, nextUid, faults, lost>>

DeleteCR(cr) ==
    /\ Remove(cr)
    /\ UNCHANGED <<workVars, boundVars, historyVars>>

------------------------------------------------------------------------------
(* Dependents go with the CR that owns them, or when someone deletes them. *)

GarbageCollect(k) ==
    /\ store[k] # None
    /\ ~ Alive(store[k].owner)
    /\ Remove(k)
    /\ lost' = lost \cup {k}
    /\ UNCHANGED <<workVars, boundVars, given>>

OutsideDelete(k) ==
    /\ Fault("outside delete")
    /\ Remove(k)
    /\ lost' = lost \cup {k}
    /\ UNCHANGED <<workVars, nextUid, edits, given>>

------------------------------------------------------------------------------
(***************************************************************************)
(* Watches.  A controller is told of every event of its own CRs and, by    *)
(* way of their controller reference, of the dependents of one kind.       *)
(***************************************************************************)
Concerned(k, o) ==
    IF o = None THEN {}
    ELSE IF k \in CRs THEN {k}
    ELSE {cr \in {o.owner.cr} : WatchedKind[cr.kind] = k.kind}

\* A mistake to detect: a handler without a DeleteFunc for dependents.
WokenExceptByDeletes(k, e) ==
    IF e.gone /\ k \notin CRs THEN {}
    ELSE Concerned(k, e.obj) \cup Concerned(k, cache[k])

\* An update concerns the owners of both the old object and the new one.
Woken(k, e) == Concerned(k, e.obj) \cup Concerned(k, cache[k])

Deliver(k) ==
    /\ Receive(k)
    /\ LET woken == Woken(k, Head(watch[k]))
       IN  /\ \A cr \in woken : notices[cr] < MaxNotices
           /\ notices' = [cr \in CRs |-> IF cr \in woken THEN notices[cr] + 1
                                                         ELSE notices[cr]]
    /\ UNCHANGED <<queue, work, boundVars, historyVars>>

\* The event handler runs in a goroutine of its own, after the indexer.
Notify(cr) ==
    /\ notices[cr] > 0
    /\ notices' = [notices EXCEPT ![cr] = @ - 1]
    /\ queue' = queue \cup {cr}
    /\ UNCHANGED <<kubeVars, work, boundVars, historyVars>>

\* Every ten hours an informer hands its whole indexer to the handlers again.
\* It does so behind the events it has read; by then, those of ten hours ago
\* have been handled.
Resync(kind) ==
    /\ \A k \in Keys : k.kind = kind => watch[k] = << >>
    /\ \A cr \in CRs : notices[cr] = 0
    /\ LET woken == UNION {Concerned(k, cache[k]) : k \in {j \in Keys : j.kind = kind}}
       IN  /\ woken # {}
           /\ notices' = [cr \in CRs |-> IF cr \in woken THEN 1 ELSE 0]
    /\ UNCHANGED <<kubeVars, queue, work, boundVars, historyVars>>

------------------------------------------------------------------------------
(* The worker.                                                             *)

\* A mistake to detect: only one of the controllers is added to the manager.
BeginPassOfClusters(cr) ==
    /\ cr.kind = "AtomixCluster"
    /\ work[cr.kind] = None
    /\ cr \in queue
    /\ queue' = queue \ {cr}
    /\ work' = [work EXCEPT ![cr.kind] =
                    IF cache[cr] = None THEN None
                    ELSE [cr |-> cr, uid |-> cache[cr].uid, spec |-> cache[cr].spec,
                          step |-> 1, missing |-> FALSE]]
    /\ UNCHANGED <<kubeVars, notices, boundVars, historyVars>>

\* Reconcile begins: the CR is read from the cache.  If it is not there the
\* pass is over, without an error.
BeginPass(cr) ==
    /\ work[cr.kind] = None
    /\ cr \in queue
    /\ queue' = queue \ {cr}
    /\ work' = [work EXCEPT ![cr.kind] =
                    IF cache[cr] = None THEN None
                    ELSE [cr |-> cr, uid |-> cache[cr].uid, spec |-> cache[cr].spec,
                          step |-> 1, missing |-> FALSE]]
    /\ UNCHANGED <<kubeVars, notices, boundVars, historyVars>>

\* The CR cannot be read, for another reason than that it is not there: the name
\* goes back to where it was.
ReadFails(cr) ==
    /\ work[cr.kind] = None
    /\ cr \in queue
    /\ Fault("failed read")
    /\ UNCHANGED <<kubeVars, workVars, nextUid, edits, historyVars>>

\* A mistake to detect: an off-by-one at the last step.
AdvancePastTheEnd(c) ==
    /\ work' = [work EXCEPT ![c] =
                    IF work[c].step > Len(Steps[c]) THEN None
                    ELSE [work[c] EXCEPT !.step = work[c].step + 1, !.missing = FALSE]]
    /\ UNCHANGED queue

\* The step is done: on to the next one, or out of Reconcile with no error.
Advance(c) ==
    /\ work' = [work EXCEPT ![c] =
                    IF work[c].step = Len(Steps[c]) THEN None
                    ELSE [work[c] EXCEPT !.step = work[c].step + 1, !.missing = FALSE]]
    /\ UNCHANGED queue

\* A mistake to detect: the error is dropped and the CR not queued again.
FailForGood(c) ==
    /\ work' = [work EXCEPT ![c] = None]
    /\ UNCHANGED queue

\* The step returned an error: the pass is over, to be tried again.
Fail(c) ==
    /\ work' = [work EXCEPT ![c] = None]
    /\ queue' = queue \cup {work[c].cr}

\* A mistake to detect: each step reads the CR anew, by its name only.
BuiltFromStore(c) ==
    LET cr == work[c].cr
    IN  Build(cr, Steps[c][work[c].step],
              IF store[cr] = None THEN work[c].spec ELSE store[cr].spec)

\* The object of the step a worker is at, what the worker would create, and the
\* owner it would have.
Target(c) == StepKey(work[c].cr, work[c].step)
Built(c) == Build(work[c].cr, Steps[c][work[c].step], work[c].spec)
Owned(c) == [owner |-> [cr |-> work[c].cr, uid |-> work[c].uid], data |-> Built(c)]

\* A mistake to detect: to return from Reconcile at the first object found.
FindObjectAndReturn(c) ==
    /\ work[c] # None
    /\ ~ work[c].missing
    /\ cache[Target(c)] # None
    /\ work' = [work EXCEPT ![c] = None]
    /\ UNCHANGED <<kubeVars, queue, notices, boundVars, historyVars>>

FindObject(c) ==
    /\ work[c] # None
    /\ ~ work[c].missing
    /\ cache[Target(c)] # None
    /\ Advance(c)
    /\ UNCHANGED <<kubeVars, notices, boundVars, historyVars>>

\* The controller of benchmarks looks again before it creates, and is done with the
\* step if the object is there by then.  That is as if it had looked later, so that
\* one lookup stands for both; the second one's errors end the pass as Rejected does.
MissObject(c) ==
    /\ work[c] # None
    /\ ~ work[c].missing
    /\ cache[Target(c)] = None
    /\ work' = [work EXCEPT ![c].missing = TRUE]
    /\ UNCHANGED <<kubeVars, queue, notices, boundVars, historyVars>>

\* The lookup fails in another way than by NotFound: the step returns that error.
LookupFails(c) ==
    /\ work[c] # None
    /\ ~ work[c].missing
    /\ Fault("failed read")
    /\ Fail(c)
    /\ UNCHANGED <<kubeVars, notices, nextUid, edits, historyVars>>

Creating(c) == work[c] # None /\ work[c].missing

CreateObject(c) ==
    /\ Creating(c)
    /\ Built(c) # None
    /\ store[Target(c)] = None
    /\ Write(Target(c), Owned(c))
    /\ lost' = lost \ {Target(c)}
    /\ Advance(c)
    /\ UNCHANGED <<notices, boundVars, given>>

FailToBuild(c) ==
    /\ Creating(c)
    /\ Built(c) = None
    /\ Fail(c)
    /\ UNCHANGED <<kubeVars, notices, boundVars, historyVars>>

\* A mistake to detect: to replace an object the cache had yet to hear of.
ReplaceObject(c) ==
    /\ Creating(c)
    /\ Built(c) # None
    /\ store[Target(c)] # None
    /\ Write(Target(c), Owned(c))
    /\ Advance(c)
    /\ UNCHANGED <<notices, boundVars, historyVars>>

\* AlreadyExists: the cache had yet to hear of the object.
Conflict(c) ==
    /\ Creating(c)
    /\ Built(c) # None
    /\ store[Target(c)] # None
    /\ Fail(c)
    /\ UNCHANGED <<kubeVars, notices, boundVars, historyVars>>

\* A mistake to detect: to go on after an error.
RejectedButGoesOn(c) ==
    /\ Creating(c)
    /\ Built(c) # None
    /\ Fault("rejection")
    /\ Advance(c)
    /\ UNCHANGED <<kubeVars, notices, nextUid, edits, historyVars>>

\* The API server refuses the request or is out of reach.
Rejected(c) ==
    /\ Creating(c)
    /\ Built(c) # None
    /\ Fault("rejection")
    /\ Fail(c)
    /\ UNCHANGED <<kubeVars, notices, nextUid, edits, historyVars>>

\* The object is created, but the operator sees an error.
ReplyLost(c) ==
    /\ Creating(c)
    /\ Built(c) # None
    /\ store[Target(c)] = None
    /\ Fault("lost reply")
    /\ Write(Target(c), Owned(c))
    /\ lost' = lost \ {Target(c)}
    /\ Fail(c)
    /\ UNCHANGED <<notices, nextUid, edits, given>>

------------------------------------------------------------------------------
\* The operator's process dies and another one starts: what was in memory is
\* gone, the informers list every kind and announce all they find.
Restart ==
    /\ Fault("restart")
    /\ Relist
    /\ queue' = {}
    /\ work' = [c \in Controllers |-> None]
    /\ notices' = [cr \in CRs |->
           Cardinality({k \in Keys : cr \in Concerned(k, cache'[k])})]
    /\ UNCHANGED <<nextUid, edits, historyVars>>

\* An informer loses its watch.  Queue, handlers and workers know nothing of it.
BrokenWatch(kind) ==
    /\ Fault("broken watch")
    /\ Rewatch(kind)
    /\ UNCHANGED <<workVars, nextUid, edits, historyVars>>

------------------------------------------------------------------------------
UserStep ==
    \E cr \in CRs :
        \/ \E spec \in Specs[cr.kind] : CreateCR(cr, spec) \/ EditCR(cr, spec)
        \/ DeleteCR(cr)

ClusterStep == \E k \in Dependents : GarbageCollect(k) \/ OutsideDelete(k)

InformerStep ==
    \/ \E k \in Keys : Deliver(k)
    \/ \E kind \in Kinds : Resync(kind) \/ BrokenWatch(kind)
    \/ \E cr \in CRs : Notify(cr)

\* What a worker does next in its pass.
PassStep(c) ==
    \/ FindObject(c) \/ MissObject(c) \/ LookupFails(c)
    \/ CreateObject(c) \/ FailToBuild(c) \/ Conflict(c)
    \/ Rejected(c) \/ ReplyLost(c)

WorkerStep ==
    \/ \E cr \in CRs : BeginPass(cr) \/ ReadFails(cr)
    \/ \E c \in Controllers : PassStep(c)

Next == UserStep \/ ClusterStep \/ InformerStep \/ WorkerStep \/ Restart

Spec == Init /\ [][Next]_vars

\* Informers, handlers, workers and the garbage collector keep running.  The
\* bounds MaxLag and MaxNotices, which the program does not have, may hold them
\* up now and then but not for good; and the work queue is first-in first-out,
\* so a queued name is not passed over forever: hence strong fairness.
Fairness ==
    /\ \A k \in Keys : SF_vars(Deliver(k))
    /\ \A cr \in CRs : WF_vars(Notify(cr)) /\ SF_vars(BeginPass(cr))
    /\ \A c \in Controllers : WF_vars(PassStep(c))
    /\ \A k \in Dependents : SF_vars(GarbageCollect(k))

\* Nor does the clock stop that makes informers resync.
ResyncFairness == \A c \in Controllers : SF_vars(Resync(c))

EventSpec == Spec /\ Fairness
FairSpec == EventSpec /\ ResyncFairness

------------------------------------------------------------------------------
(***************************************************************************)
(* Wake-ups.  Nobody polls: a pass happens because an event woke the CR.   *)
(* So whenever an object of a live CR is missing, a pass that will look    *)
(* for it must be under way, queued, or about to be queued because of an   *)
(* event the informers have yet to deliver.  The one exception are objects *)
(* that existed before and are of a kind the controller does not watch:    *)
(* when these are removed, nobody is told.                                 *)
(***************************************************************************)
EventPending(k) == watch[k] # << >>

Waking(cr, i) ==
    \/ cr \in queue
    \/ notices[cr] > 0
    \/ work[cr.kind] # None /\ work[cr.kind].cr = cr /\ work[cr.kind].step <= i
    \/ EventPending(cr)
    \/ StepKey(cr, i).kind = WatchedKind[cr.kind] /\ EventPending(StepKey(cr, i))

Repairable(cr, i) ==
    StepKey(cr, i) \in lost => StepKey(cr, i).kind = WatchedKind[cr.kind]

MissingIsNoticed ==
    \A cr \in CRs : \A i \in StepNumbers(cr.kind) :
        store[cr] # None /\ store[StepKey(cr, i)] = None /\ Repairable(cr, i) =>
            Waking(cr, i)

\* What it takes, first of the names: an object of the kind a controller is told about
\* belongs to one CR.  (It is told by way of the owner, which might otherwise be another
\* CR than the one that misses the object.)
WatchedUnshared ==
    \A cr \in CRs, dr \in CRs :
        \A i \in StepNumbers(cr.kind), j \in StepNumbers(dr.kind) :
            /\ StepKey(cr, i) = StepKey(dr, j)
            /\ StepKey(cr, i).kind = WatchedKind[cr.kind]
            => cr = dr

\* Then of the faults: that not both happen, an object deleted by hand before any
\* informer has heard of it, and a broken watch that then never tells of either.
LossesAreTold ==
    \/ "outside delete" \notin Faults
    \/ "broken watch" \notin Faults
    \/ MaxFaults <= 1
    \/ MaxLag <= 1

(***************************************************************************)
(* Order.  An object is created only after the objects of all the earlier  *)
(* steps of its owner were: if one of these is not there, it was removed   *)
(* since.  So no StatefulSet starts pods whose ConfigMaps were never made, *)
(* whatever errors, conflicts and restarts came before.                    *)
(***************************************************************************)
Existed(k) == store[k] # None \/ k \in lost

CreatedInOrder ==
    \A k \in Dependents : store[k] # None =>
        LET cr == store[k].owner.cr IN
        \E i \in StepNumbers(cr.kind) :
            /\ StepKey(cr, i) = k
            /\ \A j \in 1..i : Existed(StepKey(cr, j))

(***************************************************************************)
(* Provenance.  A dependent is built from a spec its own owner had, never  *)
(* from that of another CR, be it an earlier or later one of the same      *)
(* name: a pass works on one consistent copy of its CR, however stale.     *)
(***************************************************************************)
BuiltFromOwnersSpec ==
    \A k \in Dependents : store[k] # None =>
        LET owner == store[k].owner IN
        \E i \in StepNumbers(owner.cr.kind), spec \in Specs[owner.cr.kind] :
            /\ <<owner.cr, spec>> \in given[owner.uid]
            /\ StepKey(owner.cr, i) = k
            /\ store[k].data = Build(owner.cr, Steps[owner.cr.kind][i], spec)

(***************************************************************************)
(* Convergence.  Once users and faults leave the system alone, it settles: *)
(* a CR has exactly the objects its steps create, up to the first that     *)
(* cannot be built, all owned by its present incarnation, and of CRs that  *)
(* are gone nothing is left.                                               *)
(***************************************************************************)
Buildable(cr, i) == Build(cr, Steps[cr.kind][i], store[cr].spec) # None

Desired(cr, i) == store[cr] # None /\ \A j \in 1..i : Buildable(cr, j)

Settled ==
    \A cr \in CRs : \A i \in StepNumbers(cr.kind) :
        LET o == store[StepKey(cr, i)] IN
        /\ Desired(cr, i) => o # None
        /\ o # None => Alive(o.owner)

Converges == <>[]Settled

\* Without resyncs only the watched kind is sure to be restored.
WatchedSettled ==
    \A cr \in CRs : \A i \in StepNumbers(cr.kind) :
        LET k == StepKey(cr, i) IN
        k.kind = WatchedKind[cr.kind] =>
            /\ Desired(cr, i) => store[k] # None
            /\ store[k] # None => Alive(store[k].owner)

WatchedConverges == <>[]WatchedSettled

------------------------------------------------------------------------------
(***************************************************************************)
(* Refinement.  To who looks at the API server only, the controllers do    *)
(* what module Provisioning allows: whatever a worker knew, missed, was    *)
(* told late or forgot, each object it creates is one that may be created. *)
(***************************************************************************)
Promised == INSTANCE Provisioning

Provisions == Promised!Spec

==============================================================================

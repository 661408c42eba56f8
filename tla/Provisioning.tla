---------------------------- MODULE Provisioning -----------------------------
(***************************************************************************)
(* What the controllers promise about the objects in the API server.       *)
(*                                                                         *)
(* There are no caches here, no queues and no passes, only the objects and *)
(* what was done to them.  The operator may create an object if there is   *)
(* none of its name, for a CR that exists or existed, from a spec that     *)
(* very CR has or had, and after the objects of all the earlier steps.  It *)
(* does nothing else: nothing is updated, and what goes is removed by the  *)
(* garbage collector, or by hand.                                          *)
(***************************************************************************)
EXTENDS Deployments

VARIABLES
    store,              \* store[k]: the object k in the API server, or None
    nextUid,            \* the uid of the next CR
    given,              \* history: given[u] is every spec a CR had under the
                        \*   uid u, each with the key of the CR
    lost                \* history: the dependents that existed and were removed

vars == <<store, nextUid, given, lost>>

Init ==
    /\ store = [k \in ObjectKeys |-> None]
    /\ nextUid = 1
    /\ given = [u \in Uids |-> {}]
    /\ lost = {}

Alive(owner) == store[owner.cr] # None /\ store[owner.cr].uid = owner.uid

Existed(k) == store[k] # None \/ k \in lost

CreateCR(cr, spec) ==
    /\ store[cr] = None
    /\ nextUid <= MaxUid
    /\ store' = [store EXCEPT ![cr] = [uid |-> nextUid, spec |-> spec]]
    /\ given' = [given EXCEPT ![nextUid] = {<<cr, spec>>}]
    /\ nextUid' = nextUid + 1
    /\ UNCHANGED lost

EditCR(cr, spec) ==
    /\ store[cr] # None
    /\ store[cr].spec # spec
    /\ store' = [store EXCEPT ![cr] = [uid |-> store[cr].uid, spec |-> spec]]
    /\ given' = [given EXCEPT ![store[cr].uid] = @ \cup {<<cr, spec>>}]
    /\ UNCHANGED <<nextUid, lost>>

DeleteCR(cr) ==
    /\ store[cr] # None
    /\ store' = [store EXCEPT ![cr] = None]
    /\ UNCHANGED <<nextUid, given, lost>>

\* The garbage collector takes what has no owner any more; someone may take more.
Withdraw(k) ==
    /\ store[k] # None
    /\ Alive(store[k].owner) => "outside delete" \in Faults
    /\ store' = [store EXCEPT ![k] = None]
    /\ lost' = lost \cup {k}
    /\ UNCHANGED <<nextUid, given>>

\* The i-th step for the CR of this key and uid, with a spec it has or had.
Provide(cr, i, uid, spec) ==
    /\ <<cr, spec>> \in given[uid]
    /\ \A j \in 1..(i - 1) : Existed(StepKey(cr, j))
    /\ store[StepKey(cr, i)] = None
    /\ LET data == Build(cr, Steps[cr.kind][i], spec) IN
       /\ data # None
       /\ store' = [store EXCEPT ![StepKey(cr, i)] =
                        [owner |-> [cr |-> cr, uid |-> uid], data |-> data]]
    /\ lost' = lost \ {StepKey(cr, i)}
    /\ UNCHANGED <<nextUid, given>>

UserStep ==
    \E cr \in CRs :
        \/ \E spec \in Specs[cr.kind] : CreateCR(cr, spec) \/ EditCR(cr, spec)
        \/ DeleteCR(cr)

OperatorStep ==
    \E cr \in CRs, uid \in Uids : \E i \in StepNumbers(cr.kind), spec \in Specs[cr.kind] :
        Provide(cr, i, uid, spec)

Next == UserStep \/ OperatorStep \/ \E k \in Dependents : Withdraw(k)

Spec == Init /\ [][Next]_vars

==============================================================================

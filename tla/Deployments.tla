----------------------------- MODULE Deployments -----------------------------
(***************************************************************************)
(* What there is to deploy: the custom resources (CRs) users may create,   *)
(* the steps the operator takes for a CR of each kind, and the object each *)
(* step is about.                                                          *)
(*                                                                         *)
(* The three reconcilers differ in nothing but this: the constants below.  *)
(***************************************************************************)
EXTENDS Objects, Naturals, FiniteSets

CONSTANTS
    CRs,                \* the keys of the CRs users may create
    Specs,              \* Specs[c]: the specs users give to CRs of kind c
    Steps,              \* Steps[c]: the steps of a reconcile pass, in order
    KeyOf(_, _),        \* KeyOf(cr, step): the object this step is about
    Build(_, _, _),     \* Build(cr, step, spec): the object to create, or None
                        \*   if it cannot be built or will not be accepted
    Data,               \* what Build may return
    Faults,             \* the kinds of fault that may happen
    MaxUid              \* bound: how many CRs are ever created

FaultKinds ==
    {"restart", "failed read", "rejection", "lost reply", "outside delete", "broken watch"}

Controllers == {cr.kind : cr \in CRs}
StepNumbers(c) == 1..Len(Steps[c])
StepKey(cr, i) == KeyOf(cr, Steps[cr.kind][i])
Dependents == UNION {{StepKey(cr, i) : i \in StepNumbers(cr.kind)} : cr \in CRs}

Uids == 1..MaxUid
AllSpecs == UNION {Specs[c] : c \in Controllers}

\* The objects there may be are the CRs and what their passes create.  The owner
\* of a dependent is a CR, by its key and its uid.
ObjectKeys == CRs \cup Dependents
CreatorsOf(k) == {cr \in CRs : \E i \in StepNumbers(cr.kind) : StepKey(cr, i) = k}
ObjectValues ==
    [k \in ObjectKeys |->
        IF k \in CRs THEN [uid : Uids, spec : Specs[k.kind]]
        ELSE [owner : [cr : CreatorsOf(k), uid : Uids], data : Data]]

ASSUME StepsAssumption ==
    /\ \A k \in Dependents : k.kind \notin Controllers
    /\ \A c \in Controllers :
           /\ Steps[c] \in Seq(STRING) /\ Steps[c] # << >>
           /\ \A cr \in CRs, i \in StepNumbers(c), s \in Specs[c] :
                  cr.kind = c => Build(cr, Steps[c][i], s) \in Data \cup {None}

ASSUME FaultsAssumption == MaxUid \in Nat /\ Faults \subseteq FaultKinds

==============================================================================

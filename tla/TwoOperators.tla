---------------------------- MODULE TwoOperators -----------------------------
(***************************************************************************)
(* Two operators at work on the same objects.                              *)
(*                                                                         *)
(* Leader election is to prevent it, but main goes on without the lock     *)
(* after an error (LeaderElection), and a pod that is deleted by force may *)
(* run on while another one takes its lock.  Each operator has informers,  *)
(* queue and workers of its own; they share the API server, and each is    *)
(* told of what the other one writes.  One of them has the variables of    *)
(* Operator, the other one has its own in place of the first five below.   *)
(***************************************************************************)
EXTENDS Operator

VARIABLES otherCache, otherWatch, otherQueue, otherNotices, otherWork

Other == INSTANCE Operator
    WITH cache <- otherCache, watch <- otherWatch,
         queue <- otherQueue, notices <- otherNotices, work <- otherWork

otherVars == <<otherCache, otherWatch, otherQueue, otherNotices, otherWork>>
bothVars == <<vars, otherVars>>

BothInit == Init /\ Other!Init

\* What someone else did to the objects becomes an event of a watch.
Heard(events) ==
    [k \in Keys |->
        CASE store'[k] = store[k] -> events[k]
          [] store'[k] # store[k] /\ store'[k] # None ->
                 Append(events[k], Event(store'[k], FALSE))
          [] store'[k] # store[k] /\ store'[k] = None ->
                 Append(events[k], Event(store[k], TRUE))]

\* A mistake to detect: a watch that shows an operator its own writes only.
HearNothing(events) == UNCHANGED events

Hear(events) == events' = Heard(events)

OneHears ==
    /\ Hear(watch)
    /\ \A k \in Keys : Len(watch'[k]) <= MaxLag
    /\ UNCHANGED <<cache, workVars>>

OtherHears ==
    /\ Hear(otherWatch)
    /\ \A k \in Keys : Len(otherWatch'[k]) <= MaxLag
    /\ UNCHANGED <<otherCache, otherQueue, otherNotices, otherWork>>

\* What a process does; users and the garbage collector are the same for both.
OneStep == InformerStep \/ WorkerStep \/ Restart
OtherStep == Other!InformerStep \/ Other!WorkerStep \/ Other!Restart
ObjectStep == UserStep \/ ClusterStep

BothNext ==
    \/ ObjectStep /\ OtherHears
    \/ OneStep /\ OtherHears
    \/ OtherStep /\ OneHears

BothSpec == BothInit /\ [][BothNext]_bothVars

------------------------------------------------------------------------------
(***************************************************************************)
(* Together they do to the objects only what one operator may do: an       *)
(* object that is there is never replaced, nor made for a CR or from a     *)
(* spec that is not its own, however old what either of them knows.        *)
(***************************************************************************)
BothProvision == Provisions

(***************************************************************************)
(* Neither of them misses a wake-up because the other one was faster: each *)
(* will look for an object that is missing, so either may die.             *)
(***************************************************************************)
BothNotice == MissingIsNoticed /\ Other!MissingIsNoticed

==============================================================================

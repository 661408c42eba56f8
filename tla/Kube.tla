-------------------------------- MODULE Kube ---------------------------------
(***************************************************************************)
(* What the operator sees of Kubernetes: an API server, the watches on its *)
(* objects, and the informer cache every read of the operator goes to.     *)
(*                                                                         *)
(* A write takes effect in the store at once and reaches the cache later,  *)
(* as an event.  The events of one object arrive in the order of the       *)
(* writes.  Those of different objects need not: each kind has a watch of  *)
(* its own, and the queue between a watch and the indexer hands over all   *)
(* it has of one object at a time.                                         *)
(***************************************************************************)
EXTENDS Objects, Naturals

CONSTANTS
    Keys,               \* the objects that may exist: records [kind, name]
    Values,             \* Values[k]: the states the object k may be in
    MaxLag              \* bound: how many writes of an object an informer lags behind

VARIABLES
    store,              \* store[k]: the object k in the API server, or None
    cache,              \* cache[k]: the object k in the informer's indexer
    watch               \* watch[k]: the events of k the informer has yet to read

kubeVars == <<store, cache, watch>>

Kinds == {k.kind : k \in Keys}

\* An event holds the object written or, if it tells of a deletion, the last
\* state the object had.
Event(o, gone) == [obj |-> o, gone |-> gone]
EventsOf(k) == [obj : Values[k], gone : BOOLEAN]

\* What the informer will know of the event's object once it has read it.
Outcome(e) == IF e.gone THEN None ELSE e.obj

KubeTypeOK ==
    /\ DOMAIN store = Keys /\ DOMAIN cache = Keys /\ DOMAIN watch = Keys
    /\ \A k \in Keys : store[k] \in Values[k] \cup {None}
    /\ \A k \in Keys : cache[k] \in Values[k] \cup {None}
    /\ \A k \in Keys : watch[k] \in Seq(EventsOf(k))

KubeInit ==
    /\ store = [k \in Keys |-> None]
    /\ cache = [k \in Keys |-> None]
    /\ watch = [k \in Keys |-> << >>]

------------------------------------------------------------------------------
(* Writes, by whoever makes them.                                          *)

Write(k, o) ==
    /\ Len(watch[k]) < MaxLag
    /\ store' = [store EXCEPT ![k] = o]
    /\ watch' = [watch EXCEPT ![k] = Append(@, Event(o, FALSE))]
    /\ UNCHANGED cache

Remove(k) ==
    /\ store[k] # None
    /\ Len(watch[k]) < MaxLag
    /\ store' = [store EXCEPT ![k] = None]
    /\ watch' = [watch EXCEPT ![k] = Append(@, Event(store[k], TRUE))]
    /\ UNCHANGED cache

------------------------------------------------------------------------------
(* The informer of an object's kind reads its next event into the indexer. *)

Receive(k) ==
    /\ watch[k] # << >>
    /\ cache' = [cache EXCEPT ![k] = Outcome(Head(watch[k]))]
    /\ watch' = [watch EXCEPT ![k] = Tail(@)]
    /\ UNCHANGED store

\* A mistake to detect: to watch without having listed what is there.
WatchOnly ==
    /\ watch' = [k \in Keys |-> << >>]
    /\ UNCHANGED <<store, cache>>

\* A new process lists every kind before it starts to watch it.  The list comes
\* from a cache of the API server and may be late, as the old watch was; the new
\* watch goes on from there.
Relist ==
    \E late \in SUBSET {k \in Keys : watch[k] # << >>} :
        /\ cache' = [k \in Keys |-> IF k \in late THEN cache[k] ELSE store[k]]
        /\ watch' = [k \in Keys |-> IF k \in late THEN watch[k] ELSE << >>]
        /\ UNCHANGED store

\* A mistake to detect: deletions are told by watches only, never found out.
ResentIfListed(k, n) ==
    LET o == IF n = 0 THEN cache[k] ELSE Outcome(watch[k][n])
    IN  IF o = None THEN << >> ELSE <<Event(o, FALSE)>>

\* What the informer makes of a list as late as the first n pending events of k:
\* what is listed comes as if written again, what is cached and not listed as
\* deleted in the state the cache knows.
Resent(k, n) ==
    LET o == IF n = 0 THEN cache[k] ELSE Outcome(watch[k][n])
    IN  CASE o # None -> <<Event(o, FALSE)>>
          [] o = None /\ cache[k] # None -> <<Event(cache[k], TRUE)>>
          [] o = None /\ cache[k] = None -> << >>

\* What the informer reads of k from then on.
Rewatched(k, n) == Resent(k, n) \o SubSeq(watch[k], n + 1, Len(watch[k]))

\* The watch of a kind breaks.  The informer, its queue empty, lists the kind again
\* and watches from there.
Rewatch(kind) ==
    LET broken == {k \in Keys : k.kind = kind} IN
    \E listed \in [broken -> 0..MaxLag] :
        /\ \A k \in broken : /\ listed[k] <= Len(watch[k])
                             /\ Len(Rewatched(k, listed[k])) <= MaxLag
        /\ watch' = [k \in Keys |->
               IF k \in broken THEN Rewatched(k, listed[k]) ELSE watch[k]]
        /\ UNCHANGED <<store, cache>>

------------------------------------------------------------------------------
(***************************************************************************)
(* The cache tracks the store: what the last pending event of an object    *)
(* says of it, or the cache if no event is pending, is what the API server *)
(* holds.  No reader of the cache is ever told a state nobody wrote, and   *)
(* an informer that has read everything is up to date.                     *)
(***************************************************************************)
Tracks(k) ==
    store[k] = IF watch[k] = << >> THEN cache[k]
               ELSE Outcome(watch[k][Len(watch[k])])

CacheTracksStore == \A k \in Keys : Tracks(k)

==============================================================================

----------------------------- MODULE KubeProofs ------------------------------
(* What the writes and the informers of Kube preserve, for any operator.   *)
EXTENDS Kube, TLAPS, SequenceTheorems

\* An event about an object is an event of its watch, and tells of its states.
LEMMA EventTyped ==
    ASSUME NEW k \in Keys, NEW o \in Values[k], NEW gone \in BOOLEAN
    PROVE  /\ Event(o, gone) \in EventsOf(k)
           /\ Outcome(Event(o, gone)) = IF gone THEN None ELSE o
           /\ Event(o, gone).obj = o
  BY DEF Event, EventsOf, Outcome

\* Putting an event at the end of a watch keeps its type.
LEMMA AppendTyped ==
    ASSUME KubeTypeOK, NEW k \in Keys, NEW e \in EventsOf(k),
           watch' = [watch EXCEPT ![k] = Append(@, e)]
    PROVE  DOMAIN watch' = Keys /\ \A j \in Keys : watch'[j] \in Seq(EventsOf(j))
  <1>1. Append(watch[k], e) \in Seq(EventsOf(k))
    BY AppendProperties DEF KubeTypeOK
  <1> QED BY <1>1 DEF KubeTypeOK

\* A write of a proper value keeps the types.
LEMMA WriteTyped ==
    ASSUME KubeTypeOK, NEW k \in Keys, NEW o \in Values[k], Write(k, o)
    PROVE  KubeTypeOK'
  <1>1. DOMAIN watch' = Keys /\ \A j \in Keys : watch'[j] \in Seq(EventsOf(j))
    BY EventTyped, AppendTyped DEF Write
  <1> QED BY <1>1 DEF KubeTypeOK, Write

\* So does the deletion of an object.
LEMMA RemoveTyped ==
    ASSUME KubeTypeOK, NEW k \in Keys, Remove(k)
    PROVE  KubeTypeOK'
  <1>1. store[k] \in Values[k]
    BY DEF KubeTypeOK, Remove
  <1>2. DOMAIN watch' = Keys /\ \A j \in Keys : watch'[j] \in Seq(EventsOf(j))
    BY <1>1, EventTyped, AppendTyped DEF Remove
  <1> QED BY <1>2 DEF KubeTypeOK, Remove

\* So does an informer that reads its next event.
LEMMA ReceiveTyped ==
    ASSUME KubeTypeOK, NEW k \in Keys, Receive(k)
    PROVE  KubeTypeOK'
  <1>1. Head(watch[k]) \in EventsOf(k) /\ Tail(watch[k]) \in Seq(EventsOf(k))
    BY HeadTailProperties DEF KubeTypeOK, Receive
  <1>2. Outcome(Head(watch[k])) \in Values[k] \cup {None}
    BY <1>1 DEF Outcome, EventsOf
  <1> QED BY <1>1, <1>2 DEF KubeTypeOK, Receive

\* So does the listing of everything by a new process.
LEMMA RelistTyped ==
    ASSUME KubeTypeOK, Relist
    PROVE  KubeTypeOK'
  <1>1. \A k \in Keys : /\ watch'[k] \in Seq(EventsOf(k))
                       /\ cache'[k] \in Values[k] \cup {None}
    BY DEF KubeTypeOK, Relist
  <1> QED BY <1>1 DEF KubeTypeOK, Relist

\* What a new watch tells of first is what the list says, in one event or none.
LEMMA ResentFacts ==
    ASSUME KubeTypeOK, NEW k \in Keys, NEW n \in 0..Len(watch[k])
    PROVE  LET o == IF n = 0 THEN cache[k] ELSE Outcome(watch[k][n])
               known == {cache[k]} \cup {watch[k][i].obj : i \in DOMAIN watch[k]}
           IN  \/ Resent(k, n) = << >> /\ o = None /\ cache[k] = None
               \/ \E e \in EventsOf(k) :
                     Resent(k, n) = <<e>> /\ Outcome(e) = o /\ e.obj \in known
  <1> DEFINE o == IF n = 0 THEN cache[k] ELSE Outcome(watch[k][n])
             known == {cache[k]} \cup {watch[k][i].obj : i \in DOMAIN watch[k]}
  <1>0. cache[k] \in Values[k] \cup {None} /\ watch[k] \in Seq(EventsOf(k))
    BY DEF KubeTypeOK
  <1>1. n # 0 => n \in DOMAIN watch[k] /\ watch[k][n] \in EventsOf(k)
    BY <1>0, LenProperties, ElementOfSeq
  <1>2. o \in Values[k] \cup {None} /\ (o # None => o \in known)
    BY <1>0, <1>1 DEF Outcome, EventsOf
  <1>3. CASE o # None
    <2>1. /\ Resent(k, n) = <<Event(o, FALSE)>>
          /\ Event(o, FALSE) \in EventsOf(k)
          /\ Outcome(Event(o, FALSE)) = o /\ Event(o, FALSE).obj = o
      BY <1>2, <1>3, EventTyped DEF Resent
    <2> QED BY <1>2, <1>3, <2>1
  <1>4. CASE o = None /\ cache[k] # None
    <2>1. /\ Resent(k, n) = <<Event(cache[k], TRUE)>>
          /\ Event(cache[k], TRUE) \in EventsOf(k)
          /\ Outcome(Event(cache[k], TRUE)) = o /\ Event(cache[k], TRUE).obj = cache[k]
      BY <1>0, <1>4, EventTyped DEF Resent
    <2> QED BY <2>1
  <1>5. CASE o = None /\ cache[k] = None
    BY <1>5 DEF Resent
  <1> QED BY <1>3, <1>4, <1>5

\* What is left of a sequence after its first n elements ends as it does.
LEMMA DropFacts ==
    ASSUME NEW S, NEW s \in Seq(S), NEW n \in 0..Len(s)
    PROVE  LET r == SubSeq(s, n + 1, Len(s))
           IN  /\ r \in Seq(S)
               /\ Len(r) = Len(s) - n
               /\ n # Len(s) => r[Len(r)] = s[Len(s)]
               /\ \A i \in DOMAIN r : \E j \in DOMAIN s : r[i] = s[j]
  <1> DEFINE len == Len(s)
             r == SubSeq(s, n + 1, len)
  <1>1. len \in Nat /\ DOMAIN s = 1..len /\ n \in Nat /\ n <= len
    BY LenProperties
  <1>2. /\ r \in Seq(S) /\ Len(r) = len - n
        /\ \A i \in 1..(len - n) : r[i] = s[n + i]
    <2>1. \A i \in (n + 1)..len : s[i] \in S
      BY <1>1, ElementOfSeq
    <2>2. /\ r \in Seq(S)
          /\ Len(r) = IF n + 1 <= len THEN len - (n + 1) + 1 ELSE 0
          /\ \A i \in 1..(len - (n + 1) + 1) : r[i] = s[n + 1 + i - 1]
      BY <1>1, <2>1, SubSeqProperties
    <2>3. len - (n + 1) + 1 = len - n /\ \A i \in 1..(len - n) : n + 1 + i - 1 = n + i
      BY <1>1
    <2> HIDE DEF len
    <2> QED BY <1>1, <2>2, <2>3
  <1>3. DOMAIN r = 1..(len - n)
    BY <1>2, LenProperties
  <1> HIDE DEF len, r
  <1>4. ASSUME n # len PROVE r[Len(r)] = s[len]
    <2>1. len - n \in 1..(len - n) /\ n + (len - n) = len
      BY <1>1, <1>4
    <2> QED BY <1>2, <2>1
  <1>5. ASSUME NEW i \in DOMAIN r PROVE \E j \in DOMAIN s : r[i] = s[j]
    <2>1. n + i \in DOMAIN s /\ r[i] = s[n + i]
      BY <1>1, <1>2, <1>3
    <2> QED BY <2>1
  <1> QED BY <1>2, <1>4, <1>5 DEF len, r

\* A sequence with one more element before it ends as it did, or with that element.
LEMMA PutFirstFacts ==
    ASSUME NEW S, NEW e \in S, NEW r \in Seq(S), NEW t, t = <<e>> \o r
    PROVE  /\ t \in Seq(S) /\ t # << >>
           /\ t[Len(t)] = IF r = << >> THEN e ELSE r[Len(r)]
           /\ \A i \in DOMAIN t : t[i] = e \/ \E j \in DOMAIN r : t[i] = r[j]
  <1> DEFINE len == Len(r)
  <1>1. <<e>> \in Seq(S) /\ Len(<<e>>) = 1 /\ <<e>>[1] = e
    OBVIOUS
  <1>2. len \in Nat /\ DOMAIN r = 1..len /\ (r = << >> <=> len = 0)
    BY LenProperties, EmptySeq
  <1>3. /\ t \in Seq(S) /\ Len(t) = 1 + len
        /\ \A i \in 1..(1 + len) : t[i] = IF i <= 1 THEN e ELSE r[i - 1]
    BY <1>1, ConcatProperties
  <1>4. DOMAIN t = 1..(1 + len) /\ t # << >>
    BY <1>2, <1>3, LenProperties, EmptySeq
  <1> HIDE DEF len
  <1>5. t[Len(t)] = IF r = << >> THEN e ELSE r[len]
    <2>1. 1 + len \in 1..(1 + len) /\ 1 + len - 1 = len
      BY <1>2
    <2> QED BY <1>2, <1>3, <2>1
  <1>6. ASSUME NEW i \in DOMAIN t PROVE t[i] = e \/ \E j \in DOMAIN r : t[i] = r[j]
    <2>1. i <= 1 \/ i - 1 \in DOMAIN r
      BY <1>2, <1>4
    <2> QED BY <1>2, <1>3, <1>4, <2>1
  <1> QED BY <1>3, <1>4, <1>5, <1>6 DEF len

\* A new watch ends as the old one would have, and tells of states of its object
\* that were to be told or are in the cache.
LEMMA RewatchedFacts ==
    ASSUME KubeTypeOK, NEW k \in Keys, NEW n \in 0..Len(watch[k]),
           NEW new, new = Rewatched(k, n)
    PROVE  /\ new \in Seq(EventsOf(k))
           /\ Tracks(k) => store[k] = IF new = << >> THEN cache[k]
                                      ELSE Outcome(new[Len(new)])
           /\ \A i \in DOMAIN new : new[i].obj \in
                   {cache[k]} \cup {watch[k][j].obj : j \in DOMAIN watch[k]}
  <1> DEFINE old == watch[k]
             o == IF n = 0 THEN cache[k] ELSE Outcome(old[n])
             known == {cache[k]} \cup {old[i].obj : i \in DOMAIN old}
             first == Resent(k, n)
             rest == SubSeq(old, n + 1, Len(old))
  <1>1. old \in Seq(EventsOf(k)) /\ n \in Nat /\ (old = << >> <=> Len(old) = 0)
    BY LenProperties, EmptySeq DEF KubeTypeOK
  <1>2. /\ rest \in Seq(EventsOf(k))
        /\ rest = << >> <=> n = Len(old)
        /\ rest # << >> => old # << >> /\ rest[Len(rest)] = old[Len(old)]
        /\ \A i \in DOMAIN rest : \E j \in DOMAIN old : rest[i] = old[j]
    <2>1. n \in 0..Len(old)
      OBVIOUS
    <2>2. /\ rest \in Seq(EventsOf(k)) /\ Len(rest) = Len(old) - n
          /\ n # Len(old) => rest[Len(rest)] = old[Len(old)]
          /\ \A i \in DOMAIN rest : \E j \in DOMAIN old : rest[i] = old[j]
      <3> DEFINE Events == EventsOf(k)
      <3>1. old \in Seq(Events)
        BY <1>1
      <3> HIDE DEF old, Events
      <3>2. LET r == SubSeq(old, n + 1, Len(old))
            IN  /\ r \in Seq(Events) /\ Len(r) = Len(old) - n
                /\ n # Len(old) => r[Len(r)] = old[Len(old)]
                /\ \A i \in DOMAIN r : \E j \in DOMAIN old : r[i] = old[j]
        BY <2>1, <3>1, DropFacts
      <3> QED BY <3>2 DEF Events
    <2> HIDE DEF rest, old
    <2>3. (rest = << >> <=> Len(rest) = 0) /\ Len(old) \in Nat
      BY <1>1, <2>2, EmptySeq, LenProperties
    <2>4. rest = << >> <=> n = Len(old)
      BY <1>1, <2>2, <2>3
    <2>5. rest # << >> => old # << >>
      BY <1>1, <2>1, <2>3, <2>4
    <2> QED BY <2>2, <2>4, <2>5
  <1>3. \/ first = << >> /\ o = None /\ cache[k] = None
        \/ \E e \in EventsOf(k) : first = <<e>> /\ Outcome(e) = o /\ e.obj \in known
    BY ResentFacts
  <1>4. new = first \o rest
    BY DEF Rewatched
  <1>5. Tracks(k) => store[k] = IF old = << >> THEN cache[k] ELSE Outcome(old[Len(old)])
    BY DEF Tracks
  <1> HIDE DEF first, rest
  <1>6. CASE first = << >> /\ o = None /\ cache[k] = None
    <2>1. new = rest
      BY <1>2, <1>4, <1>6, ConcatEmptySeq
    <2> QED BY <1>1, <1>2, <1>5, <1>6, <2>1
  <1>7. ASSUME NEW e \in EventsOf(k), first = <<e>>, Outcome(e) = o, e.obj \in known
        PROVE  /\ new \in Seq(EventsOf(k))
               /\ Tracks(k) => store[k] = IF new = << >> THEN cache[k]
                                          ELSE Outcome(new[Len(new)])
               /\ \A i \in DOMAIN new : new[i].obj \in known
    <2>1. /\ new \in Seq(EventsOf(k)) /\ new # << >>
          /\ new[Len(new)] = IF rest = << >> THEN e ELSE rest[Len(rest)]
          /\ \A i \in DOMAIN new : new[i] = e \/ \E j \in DOMAIN rest : new[i] = rest[j]
      BY <1>2, <1>4, <1>7, PutFirstFacts
    <2>2. ASSUME Tracks(k) PROVE store[k] = Outcome(new[Len(new)])
      BY <1>1, <1>2, <1>5, <1>7, <2>1, <2>2
    <2>3. ASSUME NEW i \in DOMAIN new PROVE new[i].obj \in known
      <3>1. CASE new[i] = e
        BY <1>7, <3>1
      <3>2. ASSUME NEW j \in DOMAIN old, new[i] = old[j] PROVE new[i].obj \in known
        BY <3>2
      <3> QED BY <1>2, <2>1, <3>1, <3>2
    <2> QED BY <2>1, <2>2, <2>3
  <1> QED BY <1>3, <1>6, <1>7

\* When a watch is replaced, each object keeps its watch or gets a new one.
LEMMA RewatchCases ==
    ASSUME KubeTypeOK, NEW kind, Rewatch(kind), NEW k \in Keys
    PROVE  /\ \/ watch'[k] = watch[k]
              \/ \E n \in 0..Len(watch[k]) : watch'[k] = Rewatched(k, n)
           /\ store' = store /\ cache' = cache /\ DOMAIN watch' = Keys
  <1>1. Len(watch[k]) \in Nat
    BY LenProperties DEF KubeTypeOK
  <1> QED BY <1>1 DEF Rewatch

\* So does an informer that starts to watch a kind anew.
LEMMA RewatchTyped ==
    ASSUME KubeTypeOK, NEW kind, Rewatch(kind)
    PROVE  KubeTypeOK'
  <1>1. ASSUME NEW k \in Keys
        PROVE  watch'[k] \in Seq(EventsOf(k)) /\ store' = store /\ cache' = cache
    BY RewatchCases, RewatchedFacts DEF KubeTypeOK
  <1>2. DOMAIN watch' = Keys /\ store' = store /\ cache' = cache
    BY DEF Rewatch
  <1> QED BY <1>1, <1>2 DEF KubeTypeOK

------------------------------------------------------------------------------
(* The cache tracks the store across every write and every read.           *)

\* Putting one event at the end of a watch that says what a write made of its
\* object keeps every object tracked.
LEMMA AppendTracks ==
    ASSUME KubeTypeOK, CacheTracksStore,
           NEW k \in Keys, NEW e \in EventsOf(k),
           store' = [store EXCEPT ![k] = Outcome(e)],
           watch' = [watch EXCEPT ![k] = Append(@, e)],
           cache' = cache
    PROVE  CacheTracksStore'
  <1> SUFFICES ASSUME NEW j \in Keys PROVE Tracks(j)'
    BY DEF CacheTracksStore
  <1>1. CASE j = k
    <2>1. store'[j] = Outcome(e) /\ watch'[j] = Append(watch[j], e)
      BY <1>1 DEF KubeTypeOK
    <2>2. watch'[j] # << >> /\ watch'[j][Len(watch'[j])] = e
      BY <1>1, <2>1, AppendProperties DEF KubeTypeOK
    <2> QED BY <2>1, <2>2 DEF Tracks
  <1>2. CASE j # k
    <2>1. store'[j] = store[j] /\ watch'[j] = watch[j] /\ cache'[j] = cache[j]
      BY <1>2 DEF KubeTypeOK
    <2> QED BY <2>1 DEF Tracks, CacheTracksStore, Outcome
  <1> QED BY <1>1, <1>2

\* A write keeps every object tracked.
LEMMA WriteTracks ==
    ASSUME KubeTypeOK, CacheTracksStore, NEW k \in Keys, NEW o \in Values[k], Write(k, o)
    PROVE  CacheTracksStore'
  <1>1. /\ Event(o, FALSE) \in EventsOf(k)
        /\ store' = [store EXCEPT ![k] = Outcome(Event(o, FALSE))]
        /\ watch' = [watch EXCEPT ![k] = Append(@, Event(o, FALSE))]
        /\ cache' = cache
    BY EventTyped DEF Write
  <1> QED BY <1>1, AppendTracks

\* So does a deletion.
LEMMA RemoveTracks ==
    ASSUME KubeTypeOK, CacheTracksStore, NEW k \in Keys, Remove(k)
    PROVE  CacheTracksStore'
  <1>1. store[k] \in Values[k]
    BY DEF KubeTypeOK, Remove
  <1>2. /\ Event(store[k], TRUE) \in EventsOf(k)
        /\ store' = [store EXCEPT ![k] = Outcome(Event(store[k], TRUE))]
        /\ watch' = [watch EXCEPT ![k] = Append(@, Event(store[k], TRUE))]
        /\ cache' = cache
    BY <1>1, EventTyped DEF Remove
  <1> QED BY <1>2, AppendTracks

\* The last element of a sequence is that of its tail, if the tail has any.
LEMMA LastOfTail ==
    ASSUME NEW S, NEW s \in Seq(S), s # << >>
    PROVE  /\ Tail(s) = << >> => Head(s) = s[Len(s)]
           /\ Tail(s) # << >> => Tail(s)[Len(Tail(s))] = s[Len(s)]
  <1> DEFINE n == Len(s)
             t == Tail(s)
             m == Len(t)
  <1>1. n \in Nat /\ m \in Nat /\ m = n - 1 /\ \A i \in 1..m : t[i] = s[i + 1]
    BY HeadTailProperties, LenProperties
  <1>2. (t = << >> => m = 0) /\ (t # << >> => m # 0)
    BY HeadTailProperties, EmptySeq
  <1>3. Head(s) = s[1]
    OBVIOUS
  <1> HIDE DEF n, t, m
  <1>4. CASE t = << >>
    <2>1. n = 1
      BY <1>1, <1>2, <1>4
    <2> QED BY <1>3, <1>4, <2>1 DEF n, t
  <1>5. CASE t # << >>
    <2>1. m \in 1..m /\ m + 1 = n
      BY <1>1, <1>2, <1>5
    <2>2. t[m] = s[n]
      BY <1>1, <2>1
    <2> QED BY <1>5, <2>2 DEF n, t, m
  <1> QED BY <1>4, <1>5

\* So does the reading of an event: the cache takes over what the event told.
LEMMA ReceiveTracks ==
    ASSUME KubeTypeOK, CacheTracksStore, NEW k \in Keys, Receive(k)
    PROVE  CacheTracksStore'
  <1> SUFFICES ASSUME NEW j \in Keys PROVE Tracks(j)'
    BY DEF CacheTracksStore
  <1>0. store' = store /\ Tracks(j) /\ DOMAIN cache = Keys /\ DOMAIN watch = Keys
    BY DEF Receive, CacheTracksStore, KubeTypeOK
  <1>1. CASE j = k
    <2> DEFINE old == watch[k]
    <2>1. /\ cache'[j] = Outcome(Head(old)) /\ watch'[j] = Tail(old)
          /\ old \in Seq(EventsOf(k)) /\ old # << >>
      BY <1>0, <1>1 DEF Receive, KubeTypeOK
    <2>2. store[j] = Outcome(old[Len(old)])
      BY <1>0, <1>1, <2>1 DEF Tracks
    <2>3. CASE Tail(old) = << >>
      BY <1>0, <2>1, <2>2, <2>3, LastOfTail DEF Tracks
    <2>4. CASE Tail(old) # << >>
      <3>1. Tail(old)[Len(Tail(old))] = old[Len(old)]
        BY <2>1, <2>4, LastOfTail
      <3> QED BY <1>0, <2>1, <2>2, <2>4, <3>1 DEF Tracks
    <2> QED BY <2>3, <2>4
  <1>2. CASE j # k
    <2>1. watch'[j] = watch[j] /\ cache'[j] = cache[j]
      BY <1>0, <1>2 DEF Receive
    <2> QED BY <1>0, <2>1 DEF Tracks, Outcome
  <1> QED BY <1>1, <1>2

\* After a listing an object is tracked as it was, or is up to date.
LEMMA RelistTracks ==
    ASSUME CacheTracksStore, Relist
    PROVE  CacheTracksStore'
  <1> SUFFICES ASSUME NEW k \in Keys PROVE Tracks(k)'
    BY DEF CacheTracksStore
  <1>1. \/ watch'[k] = << >> /\ cache'[k] = store'[k]
        \/ watch'[k] = watch[k] /\ cache'[k] = cache[k] /\ store'[k] = store[k]
    BY DEF Relist
  <1> QED BY <1>1 DEF CacheTracksStore, Tracks, Outcome

\* Nor is anything lost between an old watch and the new one.
LEMMA RewatchTracks ==
    ASSUME KubeTypeOK, CacheTracksStore, NEW kind, Rewatch(kind)
    PROVE  CacheTracksStore'
  <1> SUFFICES ASSUME NEW k \in Keys PROVE Tracks(k)'
    BY DEF CacheTracksStore
  <1>0. Tracks(k) /\ store' = store /\ cache' = cache
    BY RewatchCases DEF CacheTracksStore
  <1>1. CASE watch'[k] = watch[k]
    BY <1>0, <1>1 DEF Tracks, Outcome
  <1>2. ASSUME NEW n \in 0..Len(watch[k]), watch'[k] = Rewatched(k, n) PROVE Tracks(k)'
    BY <1>0, <1>2, RewatchedFacts DEF Tracks, Outcome
  <1> QED BY <1>1, <1>2, RewatchCases

==============================================================================

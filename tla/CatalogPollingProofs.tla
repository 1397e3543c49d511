------------------------- MODULE CatalogPollingProofs -------------------------
(***************************************************************************)
(* The properties of CatalogPolling for any intervals, jitter, durations   *)
(* and edits.                                                              *)
(*                                                                         *)
(* CacheInv ties the versions of the catalog that the cache, the watch and *)
(* a reconcile hold to that of the API server.  PollInv follows the time   *)
(* of the next poll: a catalog whose metadata is current is queued, or has *)
(* a timer that is not later than the interval and the jitter allow.       *)
(* StatusInv says what of the status may differ from the metadata: what    *)
(* others have changed, and what the watch or the queue still hold.        *)
(* ExtractInv bounds the time of a directory by the time that was reported *)
(* for it.                                                                 *)
(***************************************************************************)
EXTENDS CatalogPolling, TLAPS

\* The metadata is that of the current generation, which is to be polled.
Polls == interval # None /\ stored # None /\ stored.gen = generation

\* A version of the catalog is not ahead of the API server, and an interval belongs
\* to its generation.
Known(c) == /\ c.generation <= generation
            /\ c.generation = generation => c.interval = interval

CacheInv ==
    /\ Known(cache) /\ Known(catalog) /\ \A i \in 1 .. Len(events) : Known(events[i])
    /\ stored # None => stored.gen <= generation
    /\ events = <<>> => cache = Object
    /\ events # <<>> => events[Len(events)] = Object
    /\ pc # "idle" /\ latest => catalog = Object

\* lastSuccessfulPollAttempt is the second in which the last Unpack returned.
LastPollInv ==
    /\ pc # "store" /\ stored # None => stored.unpackResult.lastPoll = Truncate(polled)
    /\ pc = "store" => result.lastPoll = Truncate(polled)

PollInv ==
    /\ polled <= now /\ since <= now
    /\ pc = "unpack" => now - since <= MaxUnpack
    /\ pc = "store" => since = polled /\ now - since <= MaxStore
    /\ timer # None => now <= timer + 1
    /\ pc = "idle" /\ Polls => now - polled <= interval + MaxJitter + 1
    /\ pc = "idle" /\ Polls /\ ~queued =>
          timer # None /\ timer <= polled + interval + MaxJitter
    /\ pc = "unpack" /\ Polls => since - polled <= interval + MaxJitter + 1

\* The fields of a status that updateStatusServing sets.
Serves(s, r, gen) ==
    s.resolved = r.digest /\ s.lastUnpacked = r.unpackTime /\ s.gen = gen

StatusInv ==
    /\ pc = "store" => result \in Result
    /\ pc # "idle" /\ ~latest => queued \/ events # <<>>
    /\ pc = "idle" /\ stored # None =>
          \/ queued \/ events # <<>>
          \/ status.unknown = TRUE
          \/ Serves(status, stored.unpackResult, stored.gen)
    /\ pc = "idle" /\ ~disturbed =>
          /\ stored # None /\ stored.gen = generation
          /\ Serves(status, stored.unpackResult, stored.gen)

ExtractInv ==
    /\ reported /\ dir # None => Truncate(dir.modTime) <= status.lastUnpacked
    /\ pc = "store" => Truncate(dir.modTime) <= result.unpackTime
    /\ pc = "store" /\ reported => result.unpackTime <= status.lastUnpacked

-------------------------------------------------------------------------------
(* Times.                                                                    *)

\* A multiple of a second is a whole number of seconds.
LEMMA Multiple ==
    ASSUME NEW s \in Nat \ {0}, NEW q \in Nat
    PROVE  (s * q) % s = 0
  OBVIOUS

\* What Truncate takes away is less than a second.
LEMMA Truncated ==
    ASSUME NEW t \in Times
    PROVE  Truncate(t) \in Seconds /\ Truncate(t) <= t /\ t < Truncate(t) + Second
<1> USE CatalogPollingAssumption
<1>1. t \in Nat /\ Second \in Nat \ {0} /\ MaxTime \in Nat
  BY DEF Times
<1>2. t = Second * (t \div Second) + (t % Second) /\ t % Second \in 0 .. Second - 1
  BY <1>1
<1>3. t \div Second \in Nat
  BY <1>1
<1>4. Second * (t \div Second) \in Nat /\ (Second * (t \div Second)) % Second = 0
  BY <1>1, <1>3, Multiple
<1>5. t - (t % Second) = Second * (t \div Second)
  BY <1>1, <1>2, <1>4
<1> QED
  BY <1>1, <1>2, <1>4, <1>5 DEF Truncate, Seconds, Times

\* Truncate keeps the order of times.
LEMMA TruncateMonotone ==
    ASSUME NEW t \in Times, NEW u \in Times, t <= u
    PROVE  Truncate(t) <= Truncate(u)
<1> USE CatalogPollingAssumption
<1>1. t \in Nat /\ u \in Nat /\ Second \in Nat \ {0}
  BY DEF Times
<1> DEFINE p == t \div Second
           q == u \div Second
<1>2. p \in Nat /\ q \in Nat
  BY <1>1
<1>3. /\ t = Second * p + (t % Second) /\ t % Second \in 0 .. Second - 1
      /\ u = Second * q + (u % Second) /\ u % Second \in 0 .. Second - 1
  BY <1>1
<1>4. Truncate(t) = Second * p /\ Truncate(u) = Second * q
  BY <1>1, <1>2, <1>3 DEF Truncate
<1> HIDE DEF p, q
<1>5. ASSUME q < p
      PROVE  FALSE
  <2>1. Second * p \in Nat /\ Second * q \in Nat /\ Second * (q + 1) = Second * q + Second
    BY <1>1, <1>2
  <2>2. Second * (q + 1) <= Second * p
    BY <1>1, <1>2, <1>5
  <2> QED
    BY <1>1, <1>3, <2>1, <2>2
<1>6. p <= q
  BY <1>2, <1>5
<1>7. Second * p <= Second * q
  BY <1>1, <1>2, <1>6
<1> QED
  BY <1>4, <1>7

\* A time in whole seconds is not changed by Truncate.
LEMMA TruncatedSeconds ==
    ASSUME NEW t \in Seconds
    PROVE  Truncate(t) = t
  BY CatalogPollingAssumption DEF Truncate, Seconds, Times

\* Intervals are positive.
LEMMA IntervalsPositive == Intervals \subseteq Nat \ {0}
<1>1. ASSUME NEW k \in 1 .. MaxTime
      PROVE  k * Second \in Nat \ {0}
  BY <1>1, CatalogPollingAssumption
<1> QED
  BY <1>1, CatalogPollingAssumption

\* successResult gives whole seconds.
LEMMA ResultOfSuccess ==
    ASSUME now \in Times, NEW d \in Digests, NEW t \in Times
    PROVE  /\ successResult(d, t) \in Result
           /\ successResult(d, t).lastPoll = Truncate(now)
  BY Truncated DEF successResult, Result

\* updateStatusServing sets three fields, and the API server keeps what it is given.
LEMMA ServingStatus ==
    ASSUME NEW s \in Status, NEW r \in Result, NEW g \in Nat
    PROVE  LET u == updateStatusServing(s, r, g)
           IN  u \in Status /\ Serves(u, r, g) /\ u.unknown = s.unknown
  BY Zenon DEF updateStatusServing, Status, Result, Serves

\* What is written is what is read, because times are in whole seconds already.
LEMMA SerializedStatus ==
    ASSUME NEW s \in Status
    PROVE  Serialized(s) = s
<1>1. Truncate(s.lastUnpacked) = s.lastUnpacked
  BY TruncatedSeconds DEF Status
<1> QED
  BY <1>1 DEF Serialized, Status

\* The expected status is the status, when it has the fields of the metadata and
\* no unknown condition.
LEMMA ExpectedStatus ==
    ASSUME NEW s \in Status, stored \in [gen : Nat, unpackResult : Result],
           s.unknown = FALSE, Serves(s, stored.unpackResult, stored.gen)
    PROVE  getCurrentState(s) = s
<1>1. clearUnknownConditions(s) = s
  BY DEF clearUnknownConditions, Status
<1> QED
  BY Zenon, <1>1 DEF getCurrentState, updateStatusServing, Status, Serves

\* The times a poll can be asked for.
LEMMA NextPoll ==
    ASSUME now \in Times, NEW l \in Times, NEW i \in Intervals \cup {None},
           NEW due \in nextPollResult(l, i)
    PROVE  /\ due \in Nat \cup {None}
           /\ due # None => i # None /\ now < due /\ due <= l + i + MaxJitter
           /\ i # None /\ now <= l + i => due # None
<1>1. now \in Nat /\ l \in Nat /\ MaxJitter \in Nat \ {0} /\ None \notin Int
  BY CatalogPollingAssumption DEF Times
<1>2. CASE i = None
  BY <1>2 DEF nextPollResult
<1>3. CASE i # None
  <2>1. i \in Nat
    BY <1>3, IntervalsPositive
  <2>2. PICK j \in 1 .. MaxJitter :
            due = IF l + i + j > now THEN l + i + j ELSE None
    BY <1>3 DEF nextPollResult
  <2> QED
    BY <1>1, <1>3, <2>1, <2>2
<1> QED
  BY <1>2, <1>3

\* AddAfter keeps the earlier of two times.
LEMMA EarlierTimer ==
    ASSUME timer \in Nat \cup {None}, NEW due \in Nat \cup {None}, AddAfter(due)
    PROVE  /\ timer' \in Nat \cup {None} /\ timer' \in {timer, due}
           /\ due # None => timer' # None /\ timer' <= due
<1>1. None \notin Int
  BY CatalogPollingAssumption
<1> QED
  BY <1>1 DEF AddAfter

-------------------------------------------------------------------------------
(* The type invariant.                                                       *)

\* Unpack returns a result with the time at which it returns.
LEMMA ResultOfUnpack ==
    ASSUME TypeOK, Unpack
    PROVE  result' \in Result /\ result'.lastPoll = Truncate(now)
<1>1. CASE Unpacked(tag) /\ result' = successResult(tag, dir.modTime)
  <2>1. dir.modTime \in Times
    BY <1>1 DEF Unpacked, TypeOK
  <2> QED
    BY <1>1, <2>1, ResultOfSuccess DEF TypeOK
<1>2. CASE result' = successResult(tag, now)
  BY <1>2, ResultOfSuccess DEF TypeOK
<1> QED
  BY <1>1, <1>2 DEF Unpack

\* Every step preserves the type invariant and, with it, the result at hand.
LEMMA TypeNext == TypeOK /\ StatusInv /\ [Next]_vars => TypeOK'
<1> SUFFICES ASSUME TypeOK, StatusInv, [Next]_vars
             PROVE  TypeOK'
  OBVIOUS
<1> USE CatalogPollingAssumption
<1>0. Seconds \subseteq Times
  BY DEF Seconds
<1>1. CASE Reconcile
  <2>0. UNCHANGED <<now, serverVars, events, cache, tag, dir, result, stored, history, edits>>
    BY <1>1 DEF Reconcile
  <2>1. CASE needsUnpack
    <3>1. /\ pc' = "unpack" /\ queued' \in BOOLEAN /\ since' = now /\ catalog' = cache
          /\ latest' \in BOOLEAN /\ UNCHANGED timer
      BY Zenon, <1>1, <2>1 DEF Reconcile
    <3> QED
      BY Zenon, <2>0, <3>1 DEF TypeOK, serverVars, history
  <2>2. CASE ~needsUnpack
    <3>1. stored \in [gen : Nat, unpackResult : Result]
      BY Zenon, <2>2 DEF needsUnpack, TypeOK
    <3>2. stored.unpackResult.lastPoll \in Times /\ cache.interval \in Intervals \cup {None}
      BY <1>0, <3>1 DEF Result, TypeOK, Catalog
    <3>3. PICK due \in nextPollResult(stored.unpackResult.lastPoll, cache.interval) :
              AddAfter(due)
      BY Zenon, <1>1, <2>2 DEF Reconcile
    <3>0. due \in Nat \cup {None}
      BY Zenon, <3>2, <3>3, NextPoll DEF TypeOK
    <3>4. timer' \in Nat \cup {None}
      BY Zenon, <3>0, <3>3, EarlierTimer DEF TypeOK
    <3>5. queued' \in BOOLEAN /\ UNCHANGED <<pc, since, catalog, latest>>
      BY Zenon, <1>1, <2>2 DEF Reconcile
    <3> QED
      BY Zenon, <2>0, <3>4, <3>5 DEF TypeOK, serverVars, history
  <2> QED
    BY <2>1, <2>2
<1>2. CASE Unpack
  <2>1. result' \in Result /\ reported' \in BOOLEAN
    BY Zenon, <1>2, ResultOfUnpack DEF Unpack, TypeOK
  <2>2. dir' = None \/ dir' \in [digest : Digests, modTime : Times]
    BY <1>2 DEF Unpack, TypeOK, Times
  <2>3. /\ pc' = "store" /\ since' = now /\ polled' = now
        /\ UNCHANGED <<now, serverVars, watchVars, tag, timer, catalog, latest, stored,
                       disturbed, edits>>
    BY <1>2 DEF Unpack
  <2> QED
    BY Zenon, <2>1, <2>2, <2>3 DEF TypeOK, serverVars, watchVars
<1>3. CASE Store
  <2> DEFINE s == updateStatusServing(catalog.status, result, catalog.generation)
  <2>1. /\ result \in Result /\ result.lastPoll \in Times
        /\ catalog.status \in Status /\ catalog.generation \in Nat
        /\ catalog.interval \in Intervals \cup {None}
    BY <1>0, <1>3 DEF Store, StatusInv, TypeOK, Result, Catalog
  <2>2. s \in Status /\ Serialized(s) = s
    BY Zenon, <2>1, ServingStatus, SerializedStatus
  <2>3. stored' \in [gen : Nat, unpackResult : Result]
    BY <1>3, <2>1 DEF Store
  <2>4. timer' \in Nat \cup {None}
    <3>1. CASE UNCHANGED timer
      BY <3>1 DEF TypeOK
    <3>2. CASE \E due \in nextPollResult(result.lastPoll, catalog.interval) : AddAfter(due)
      BY Zenon, <2>1, <3>2, NextPoll, EarlierTimer DEF TypeOK
    <3> QED
      BY Zenon, <1>3, <3>1, <3>2 DEF Store
  <2>5. /\ status' \in {status, Serialized(s)} /\ events' \in {events, Append(events, Object')}
        /\ queued' \in BOOLEAN /\ reported' \in BOOLEAN /\ disturbed' \in BOOLEAN
    BY Zenon, <1>3 DEF Store, TypeOK
  <2>6. status' \in Status
    BY <2>2, <2>5 DEF TypeOK
  <2> HIDE DEF s
  <2>7. /\ pc' = "idle" /\ result' = None /\ UNCHANGED <<interval, generation>>
        /\ UNCHANGED <<now, cache, tag, dir, since, catalog, latest, polled, edits>>
    BY <1>3 DEF Store
  <2>8. Object' \in Catalog
    BY <2>6, <2>7 DEF Object, Catalog, TypeOK
  <2>9. events' \in Seq(Catalog)
    BY <2>5, <2>8 DEF TypeOK
  <2> QED
    BY ZenonT(60), <2>3, <2>4, <2>5, <2>6, <2>7, <2>9 DEF TypeOK
<1>4. CASE PollTimer
  <2>1. /\ timer' = None /\ queued' \in BOOLEAN
        /\ UNCHANGED <<now, serverVars, events, cache, tag, dir, workVars, stored, history, edits>>
    BY Zenon, <1>4 DEF PollTimer
  <2> QED
    BY Zenon, <2>1 DEF TypeOK, serverVars, workVars, history
<1>5. CASE EditInterval \/ AddCondition
  <2>1. /\ interval' \in Intervals \cup {None} /\ generation' \in Nat /\ Changed
        /\ status' \in Status
    <3>1. CASE EditInterval
      BY <3>1 DEF EditInterval, TypeOK
    <3>2. CASE AddCondition
      BY Zenon, <3>2 DEF AddCondition, TypeOK, Status
    <3> QED
      BY <1>5, <3>1, <3>2
  <2>2. Object' \in Catalog
    BY <2>1 DEF Object, Catalog
  <2>3. events' \in Seq(Catalog) /\ edits' \in 0 .. MaxEdits
    BY <2>1, <2>2 DEF Changed, Edit, TypeOK
  <2>4. /\ latest' \in BOOLEAN /\ disturbed' \in BOOLEAN
        /\ UNCHANGED <<now, cache, queued, tag, dir, timer, pc, since, catalog, result, stored,
                       polled, reported>>
    BY Zenon, <2>1 DEF Changed
  <2> QED
    BY Zenon, <2>1, <2>3, <2>4 DEF TypeOK
<1>6. CASE Deliver
  <2>1. cache' \in Catalog /\ events' \in Seq(Catalog)
    BY <1>6 DEF Deliver, TypeOK
  <2>2. /\ queued' \in BOOLEAN
        /\ UNCHANGED <<now, serverVars, tag, dir, timer, workVars, stored, history, edits>>
    BY Zenon, <1>6 DEF Deliver
  <2> QED
    BY Zenon, <2>1, <2>2 DEF TypeOK, serverVars, workVars, history
<1>7. CASE Push \/ Resync \/ Restart
  <2>1. edits' \in 0 .. MaxEdits
    BY <1>7 DEF Push, Resync, Restart, Edit, TypeOK
  <2>2. Object \in Catalog /\ <<>> \in Seq(Catalog)
    BY DEF Object, Catalog, TypeOK
  <2>3. CASE Push
    BY Zenon, <2>1, <2>3 DEF Push, TypeOK, serverVars, watchVars, workVars, history
  <2>4. CASE Resync
    BY Zenon, <2>1, <2>4 DEF Resync, TypeOK, serverVars, workVars, history
  <2>5. CASE Restart
    BY Zenon, <2>1, <2>2, <2>5 DEF Restart, TypeOK, serverVars, workVars
  <2> QED
    BY <1>7, <2>3, <2>4, <2>5
<1>8. CASE Tick
  <2>1. now' \in Times
    BY <1>8 DEF Tick, TypeOK, Times
  <2> QED
    BY Zenon, <1>8, <2>1 DEF Tick, TypeOK, serverVars, watchVars, workVars, history
<1>9. CASE UNCHANGED vars
  BY Zenon, <1>9 DEF vars, TypeOK, serverVars, watchVars, workVars, history
<1> QED
  BY <1>1, <1>2, <1>3, <1>4, <1>5, <1>6, <1>7, <1>8, <1>9 DEF Next

-------------------------------------------------------------------------------
(* The cache.                                                                *)

\* The versions that wait, after a change and after a report.
LEMMA Appended ==
    ASSUME NEW q \in Seq(Catalog), NEW c
    PROVE  /\ Len(Append(q, c)) = Len(q) + 1 /\ Append(q, c) # <<>>
           /\ Append(q, c)[Len(q) + 1] = c
           /\ \A i \in 1 .. Len(q) : Append(q, c)[i] = q[i]
           /\ \A i \in 1 .. Len(q) + 1 : i \in 1 .. Len(q) \/ i = Len(q) + 1
  OBVIOUS

LEMMA Delivered ==
    ASSUME NEW q \in Seq(Catalog), q # <<>>
    PROVE  /\ Head(q) = q[1] /\ Len(q) \in Nat \ {0} /\ Len(Tail(q)) = Len(q) - 1
           /\ \A i \in 1 .. Len(q) - 1 : Tail(q)[i] = q[i + 1] /\ i + 1 \in 1 .. Len(q)
           /\ 1 \in 1 .. Len(q)
           /\ Tail(q) = <<>> => Len(q) = 1
           /\ Tail(q) # <<>> => Len(q) - 1 \in 1 .. Len(q) - 1
<1>1. Len(q) \in Nat \ {0} /\ Head(q) = q[1]
  OBVIOUS
<1>2. Len(Tail(q)) = Len(q) - 1 /\ Tail(q) \in Seq(Catalog)
  OBVIOUS
<1>3. \A i \in 1 .. Len(q) - 1 : Tail(q)[i] = q[i + 1]
  BY <1>1
<1>4. Tail(q) # <<>> => Len(Tail(q)) # 0
  BY <1>2
<1>5. Tail(q) = <<>> => Len(Tail(q)) = 0
  <2>1. Len(<<>>) = 0
    OBVIOUS
  <2> QED
    BY Zenon, <2>1
<1> QED
  BY <1>1, <1>2, <1>3, <1>4, <1>5

\* A change of the object keeps the older versions known, and appends the new one.
LEMMA NewVersion ==
    ASSUME TypeOK, CacheInv, events' = Append(events, Object'), generation' \in Nat,
           generation' = generation => interval' = interval, generation <= generation',
           UNCHANGED <<cache, catalog>>
    PROVE  /\ Known(cache)' /\ Known(catalog)'
           /\ \A i \in 1 .. Len(events') : Known(events[i])'
           /\ events' # <<>> /\ events'[Len(events')] = Object'
<1>1. ASSUME NEW c \in Catalog, Known(c)
      PROVE  /\ c.generation <= generation'
             /\ c.generation = generation' => c.interval = interval'
  BY <1>1 DEF Known, TypeOK, Catalog
<1>2. \A i \in 1 .. Len(events) : events[i] \in Catalog
  BY DEF TypeOK
<1>3. /\ Len(events') = Len(events) + 1 /\ events' # <<>>
      /\ events'[Len(events) + 1] = Object'
      /\ \A i \in 1 .. Len(events) : events'[i] = events[i]
      /\ \A i \in 1 .. Len(events') : i \in 1 .. Len(events) \/ i = Len(events) + 1
  <2>1. events \in Seq(Catalog)
    BY Zenon DEF TypeOK
  <2>2. ASSUME NEW c, events' = Append(events, c)
        PROVE  /\ Len(events') = Len(events) + 1 /\ events' # <<>>
               /\ events'[Len(events) + 1] = c
               /\ \A i \in 1 .. Len(events) : events'[i] = events[i]
               /\ \A i \in 1 .. Len(events') : i \in 1 .. Len(events) \/ i = Len(events) + 1
    <3>1. /\ Len(events') = Len(events) + 1 /\ events' # <<>>
          /\ events'[Len(events) + 1] = c
          /\ \A i \in 1 .. Len(events) : events'[i] = events[i]
          /\ \A i \in 1 .. Len(events) + 1 : i \in 1 .. Len(events) \/ i = Len(events) + 1
      BY <2>1, <2>2
    <3> QED
      BY Zenon, <3>1
  <2> QED
    BY Zenon, <2>2
<1>4. /\ Object'.generation <= generation'
      /\ Object'.generation = generation' => Object'.interval = interval'
  BY DEF Object
<1>5. Known(cache)' /\ Known(catalog)'
  BY <1>1 DEF Known, CacheInv, TypeOK
<1>6. ASSUME NEW i \in 1 .. Len(events')
      PROVE  Known(events[i])'
  <2>1. CASE i \in 1 .. Len(events)
    BY Zenon, <1>1, <1>2, <1>3, <2>1 DEF Known, CacheInv
  <2>2. CASE i = Len(events) + 1
    BY Zenon, <1>3, <1>4, <2>2 DEF Known
  <2> QED
    BY Zenon, <1>3, <1>6, <2>1, <2>2
<1> QED
  BY Zenon, <1>3, <1>5, <1>6

\* Every step preserves CacheInv.
LEMMA CacheNext == TypeOK /\ CacheInv /\ StatusInv /\ [Next]_vars => CacheInv'
<1> SUFFICES ASSUME TypeOK, CacheInv, StatusInv, [Next]_vars
             PROVE  CacheInv'
  OBVIOUS
<1>1. CASE Reconcile
  <2>1. UNCHANGED <<interval, generation, status, events, cache, stored>>
    BY Zenon, <1>1 DEF Reconcile, serverVars
  <2>2. CASE catalog' = cache /\ latest' = (events = <<>>)
    BY <2>1, <2>2 DEF CacheInv, Known, Object
  <2>3. CASE UNCHANGED <<pc, catalog, latest>>
    BY <2>1, <2>3 DEF CacheInv, Known, Object
  <2> QED
    BY Zenon, <1>1, <2>2, <2>3 DEF Reconcile
<1>2. CASE Unpack
  <2>1. /\ UNCHANGED <<interval, generation, status, events, cache, stored, catalog, latest>>
        /\ pc = "unpack"
    BY Zenon, <1>2 DEF Unpack, serverVars, watchVars
  <2> QED
    BY <2>1 DEF CacheInv, Known, Object
<1>3. CASE Store
  <2>1. /\ pc' = "idle" /\ stored'.gen = catalog.generation
        /\ UNCHANGED <<interval, generation, cache, catalog>>
    BY <1>3 DEF Store
  <2>2. CASE UNCHANGED <<status, events>>
    BY <2>1, <2>2 DEF CacheInv, Known, Object
  <2>3. CASE events' = Append(events, Object')
    <3>1. /\ Known(cache)' /\ Known(catalog)'
          /\ \A i \in 1 .. Len(events') : Known(events[i])'
          /\ events' # <<>> /\ events'[Len(events')] = Object'
      BY <2>1, <2>3, NewVersion DEF TypeOK
    <3> QED
      BY <2>1, <3>1 DEF CacheInv, Known
  <2> QED
    BY Zenon, <1>3, <2>2, <2>3 DEF Store
<1>4. CASE EditInterval \/ AddCondition
  <2>1. /\ events' = Append(events, Object') /\ latest' = FALSE
        /\ UNCHANGED <<cache, catalog, stored>>
    BY Zenon, <1>4 DEF EditInterval, AddCondition, Changed
  <2>2. /\ generation' \in Nat /\ generation <= generation'
        /\ generation' = generation => interval' = interval
    BY <1>4 DEF EditInterval, AddCondition, TypeOK
  <2>3. /\ Known(cache)' /\ Known(catalog)'
        /\ \A i \in 1 .. Len(events') : Known(events[i])'
        /\ events' # <<>> /\ events'[Len(events')] = Object'
    BY <2>1, <2>2, NewVersion
  <2>4. stored # None => stored.gen \in Nat
    BY DEF TypeOK
  <2>5. stored' # None => stored'.gen <= generation'
    BY <2>1, <2>2, <2>4 DEF CacheInv, TypeOK
  <2> QED
    BY Zenon, <2>1, <2>3, <2>5 DEF CacheInv
<1>5. CASE Deliver
  <2>0. /\ events # <<>> /\ cache' = Head(events) /\ events' = Tail(events)
        /\ events \in Seq(Catalog)
    BY Zenon, <1>5 DEF Deliver, TypeOK
  <2>1. /\ cache' = events[1] /\ Len(events) \in Nat \ {0} /\ Len(events') = Len(events) - 1
        /\ \A i \in 1 .. Len(events') : events'[i] = events[i + 1] /\ i + 1 \in 1 .. Len(events)
        /\ 1 \in 1 .. Len(events)
        /\ events' = <<>> => Len(events) = 1
        /\ events' # <<>> => Len(events') \in 1 .. Len(events')
    BY Zenon, <2>0, Delivered
  <2>2. UNCHANGED <<interval, generation, status, stored, pc, catalog, latest>>
    BY Zenon, <1>5 DEF Deliver, serverVars, workVars
  <2>3. Known(cache)' /\ Known(catalog)' /\ \A i \in 1 .. Len(events') : Known(events[i])'
    BY <2>1, <2>2 DEF CacheInv, Known
  <2>4. UNCHANGED Object
    BY <2>2 DEF Object
  <2>5. events[Len(events)] = Object
    BY Zenon, <2>0 DEF CacheInv
  <2>6. /\ events' = <<>> => cache' = Object'
        /\ events' # <<>> => events'[Len(events')] = Object'
    BY <2>1, <2>4, <2>5
  <2> QED
    BY Zenon, <2>2, <2>3, <2>4, <2>6 DEF CacheInv
<1>6. CASE Restart
  <2>1. /\ pc' = "idle" /\ stored' = None /\ events' = <<>> /\ cache' = Object
        /\ UNCHANGED <<interval, generation, status, catalog>>
    BY Zenon, <1>6 DEF Restart, serverVars, workVars
  <2>2. UNCHANGED Object /\ Known(Object)' /\ Known(catalog)'
    BY <2>1 DEF Object, Known, CacheInv, TypeOK
  <2> QED
    BY <2>1, <2>2 DEF CacheInv, Known
<1>7. CASE PollTimer \/ Push \/ Resync \/ Tick \/ UNCHANGED vars
  <2>1. UNCHANGED <<interval, generation, status, events, cache, stored, pc, catalog, latest>>
    BY Zenon, <1>7
       DEF PollTimer, Push, Resync, Tick, vars, serverVars, watchVars, workVars
  <2> QED
    BY <2>1 DEF CacheInv, Known, Object
<1> QED
  BY Zenon, <1>1, <1>2, <1>3, <1>4, <1>5, <1>6, <1>7 DEF Next

-------------------------------------------------------------------------------
(* The status.                                                               *)

\* What Store leaves: the metadata of the generation that was read, and, when that
\* was the catalog as it is, the status to go with it.
LEMMA StatusStored ==
    ASSUME TypeOK, CacheInv, StatusInv, Store
    PROVE  /\ stored'.gen = catalog.generation /\ stored'.unpackResult = result
           /\ stored' # None
           /\ latest =>
                /\ stored'.gen = generation'
                /\ Serves(status', stored'.unpackResult, stored'.gen)
           /\ ~latest => queued' \/ events' # <<>>
<1> DEFINE s == updateStatusServing(catalog.status, result, catalog.generation)
<1>1. /\ result \in Result /\ catalog.status \in Status /\ catalog.generation \in Nat
      /\ pc = "store" /\ UNCHANGED generation
  BY DEF Store, StatusInv, TypeOK, Catalog
<1>2. s \in Status /\ Serialized(s) = s /\ Serves(s, result, catalog.generation)
  BY Zenon, <1>1, ServingStatus, SerializedStatus
<1>3. stored'.gen = catalog.generation /\ stored'.unpackResult = result
  BY Zenon DEF Store
<1>4. stored' # None
  <2>1. stored' \in [gen : Nat, unpackResult : Result]
    BY <1>1 DEF Store
  <2> QED
    BY Zenon, <2>1, NoMetadata
<1>5. ASSUME latest
      PROVE  catalog.status = status /\ catalog.generation = generation
  BY <1>1, <1>5 DEF CacheInv, Object
<1>6. CASE s = catalog.status /\ UNCHANGED <<status, events, queued>>
  BY Zenon, <1>1, <1>2, <1>3, <1>4, <1>5, <1>6 DEF StatusInv
<1>7. CASE status' = Serialized(s) /\ latest
  BY Zenon, <1>1, <1>2, <1>3, <1>4, <1>5, <1>7
<1>8. CASE ~latest /\ queued' = TRUE
  BY Zenon, <1>3, <1>4, <1>8
<1> QED
  BY Zenon, <1>6, <1>7, <1>8 DEF Store

\* A status that is as expected has the fields of the metadata.
LEMMA ExpectedServes ==
    ASSUME NEW s \in Status, stored \in [gen : Nat, unpackResult : Result],
           s = getCurrentState(s)
    PROVE  Serves(s, stored.unpackResult, stored.gen)
<1>1. clearUnknownConditions(s) \in Status
  BY Zenon DEF clearUnknownConditions, Status
<1> QED
  BY Zenon, <1>1, ServingStatus DEF getCurrentState

\* Every step preserves StatusInv.
LEMMA StatusNext == TypeOK /\ CacheInv /\ StatusInv /\ [Next]_vars => StatusInv'
<1> SUFFICES ASSUME TypeOK, CacheInv, StatusInv, [Next]_vars
             PROVE  StatusInv'
  OBVIOUS
<1>1. CASE Reconcile
  <2>0. pc = "idle" /\ UNCHANGED <<generation, status, events, stored, result, disturbed>>
    BY Zenon, <1>1 DEF Reconcile, serverVars, history
  <2>1. CASE pc' = "unpack" /\ latest' = (events = <<>>)
    BY <2>0, <2>1 DEF StatusInv
  <2>2. CASE ~needsUnpack /\ UNCHANGED pc
    <3>1. CASE events # <<>>
      BY <2>0, <2>2, <3>1 DEF StatusInv, Serves
    <3>2. CASE events = <<>>
      <4>1. cache.status = status
        BY <3>2 DEF CacheInv, Object
      <4>2. stored \in [gen : Nat, unpackResult : Result] /\ status \in Status
        BY Zenon, <2>2 DEF needsUnpack, TypeOK
      <4>3. Serves(status, stored.unpackResult, stored.gen)
        BY Zenon, <2>2, <4>1, <4>2, ExpectedServes DEF needsUnpack
      <4> QED
        BY <2>0, <2>2, <4>3 DEF StatusInv, Serves
    <3> QED
      BY <3>1, <3>2
  <2> QED
    BY Zenon, <1>1, <2>1, <2>2 DEF Reconcile
<1>2. CASE Unpack
  <2>1. result' \in Result
    BY <1>2, ResultOfUnpack
  <2>2. pc = "unpack" /\ pc' = "store" /\ UNCHANGED <<latest, queued, events>>
    BY Zenon, <1>2 DEF Unpack, watchVars
  <2> QED
    BY Zenon, <2>1, <2>2 DEF StatusInv
<1>3. CASE Store
  <2>1. pc' = "idle" /\ disturbed' = ~latest
    BY Zenon, <1>3 DEF Store
  <2>2. /\ stored' # None
        /\ latest => stored'.gen = generation' /\ Serves(status', stored'.unpackResult, stored'.gen)
        /\ ~latest => queued' \/ events' # <<>>
    BY Zenon, <1>3, StatusStored
  <2> QED
    BY <2>1, <2>2 DEF StatusInv, TypeOK
<1>4. CASE EditInterval \/ AddCondition
  <2>1. /\ events' = Append(events, Object') /\ disturbed' = TRUE
        /\ UNCHANGED <<pc, result>>
    BY Zenon, <1>4 DEF EditInterval, AddCondition, Changed
  <2>2. events' # <<>>
    BY Zenon, <2>1, Appended DEF TypeOK
  <2> QED
    BY <2>1, <2>2 DEF StatusInv
<1>5. CASE Deliver \/ PollTimer \/ Resync
  <2>1. /\ queued' = TRUE
        /\ UNCHANGED <<generation, status, pc, latest, result, stored, disturbed>>
    BY Zenon, <1>5 DEF Deliver, PollTimer, Resync, serverVars, workVars, history
  <2> QED
    BY <2>1 DEF StatusInv, Serves
<1>6. CASE Restart
  <2>1. queued' = TRUE /\ pc' = "idle" /\ disturbed' = TRUE
    BY Zenon, <1>6 DEF Restart, workVars
  <2> QED
    BY <2>1 DEF StatusInv
<1>7. CASE Push \/ Tick \/ UNCHANGED vars
  <2>1. UNCHANGED <<generation, status, events, queued, pc, latest, result, stored, disturbed>>
    BY Zenon, <1>7 DEF Push, Tick, vars, serverVars, watchVars, workVars, history
  <2> QED
    BY <2>1 DEF StatusInv, Serves
<1> QED
  BY Zenon, <1>1, <1>2, <1>3, <1>4, <1>5, <1>6, <1>7 DEF Next

\* Every step preserves LastPollInv.
LEMMA LastPollNext == TypeOK /\ LastPollInv /\ [Next]_vars => LastPollInv'
<1> SUFFICES ASSUME TypeOK, LastPollInv, [Next]_vars
             PROVE  LastPollInv'
  OBVIOUS
<1>1. CASE Unpack
  <2>1. result'.lastPoll = Truncate(now)
    BY ZenonT(60), <1>1, ResultOfUnpack
  <2> QED
    BY <1>1, <2>1 DEF Unpack, LastPollInv, Truncate
<1>2. CASE Store
  BY <1>2 DEF Store, LastPollInv, Truncate
<1>3. CASE Reconcile \/ Restart
  <2>1. pc = "idle" /\ pc' # "store" /\ stored' \in {stored, None} /\ UNCHANGED polled
    BY Zenon, <1>3 DEF Reconcile, Restart, history, workVars
  <2> QED
    BY <2>1 DEF LastPollInv, Truncate
<1>4. CASE \/ PollTimer \/ Deliver \/ EditInterval \/ AddCondition \/ Push \/ Resync \/ Tick
           \/ UNCHANGED vars
  <2>1. UNCHANGED <<pc, stored, result, polled>>
    BY Zenon, <1>4 DEF PollTimer, Deliver, EditInterval, AddCondition, Changed, Push, Resync,
                       Tick, vars, workVars, history
  <2> QED
    BY <2>1 DEF LastPollInv, Truncate
<1> QED
  BY Zenon, <1>1, <1>2, <1>3, <1>4 DEF Next

-------------------------------------------------------------------------------
(* The next poll.                                                            *)

\* Store takes less than any interval, by the second that Truncate can take away.
StoreIsShort == \A i \in Intervals : MaxStore + Second <= i

\* The numbers are numbers.
LEMMA Numbers ==
    ASSUME TypeOK
    PROVE  /\ now \in Nat /\ since \in Nat /\ polled \in Nat /\ generation \in Nat
           /\ timer # None => timer \in Nat
           /\ interval # None => interval \in Nat
           /\ {Second, MaxJitter, MaxUnpack, MaxStore} \subseteq Nat
           /\ Truncate(polled) \in Times /\ Truncate(polled) <= polled
           /\ polled < Truncate(polled) + Second
<1>1. interval # None => interval \in Nat
  BY IntervalsPositive DEF TypeOK
<1>2. now \in Times /\ since \in Times /\ polled \in Times /\ Times \subseteq Nat
  BY CatalogPollingAssumption DEF TypeOK, Times
<1>3. /\ Truncate(polled) \in Times /\ Truncate(polled) <= polled
      /\ polled < Truncate(polled) + Second
  BY <1>2, Truncated DEF Seconds
<1> QED
  BY ZenonT(60), <1>1, <1>2, <1>3, CatalogPollingAssumption DEF TypeOK

\* Every step preserves PollInv.
LEMMA PollNext ==
    ASSUME StoreIsShort, TypeOK, CacheInv, StatusInv, LastPollInv, PollInv, [Next]_vars
    PROVE  PollInv'
<1> USE CatalogPollingAssumption
<1>0. /\ now \in Nat /\ since \in Nat /\ polled \in Nat /\ generation \in Nat
      /\ timer # None => timer \in Nat
      /\ interval # None => interval \in Nat
      /\ {Second, MaxJitter, MaxUnpack, MaxStore} \subseteq Nat
      /\ Truncate(polled) \in Times /\ Truncate(polled) <= polled
      /\ polled < Truncate(polled) + Second
  BY Numbers
<1>1. CASE Reconcile
  <2>0. UNCHANGED <<now, interval, generation, stored, polled>>
    BY Zenon, <1>1 DEF Reconcile, serverVars, history
  <2>1. CASE needsUnpack
    <3>1. pc = "idle" /\ pc' = "unpack" /\ since' = now /\ UNCHANGED timer
      BY Zenon, <1>1, <2>1 DEF Reconcile
    <3> QED
      BY <1>0, <2>0, <3>1 DEF PollInv, Polls
  <2>2. CASE ~needsUnpack
    <3>1. /\ stored # None /\ cache.generation = stored.gen
          /\ ~needsPoll(stored.unpackResult.lastPoll, cache.interval)
      BY ZenonT(60), <2>2 DEF needsUnpack
    <3>0. Polls => cache.interval = interval
      BY Zenon, <3>1 DEF CacheInv, Known, Polls
    <3>i. cache.interval \in Intervals \cup {None} /\ (cache.interval # None => cache.interval \in Nat)
      BY IntervalsPositive DEF TypeOK, Catalog
    <3>2. stored.unpackResult.lastPoll = Truncate(polled) /\ pc = "idle"
      BY <1>1, <3>1 DEF Reconcile, LastPollInv
    <3>3. PICK due \in nextPollResult(Truncate(polled), cache.interval) : AddAfter(due)
      BY Zenon, <1>1, <2>2, <3>2 DEF Reconcile
    <3>4. cache.interval # None => now <= Truncate(polled) + cache.interval
      BY <1>0, <3>1, <3>2, <3>i DEF needsPoll, Times
    <3>5. /\ due \in Nat \cup {None}
          /\ due # None => now < due /\ due <= Truncate(polled) + cache.interval + MaxJitter
          /\ cache.interval # None => due # None
      BY Zenon, <1>0, <3>3, <3>4, <3>i, NextPoll DEF TypeOK
    <3>6. /\ timer' \in {timer, due}
          /\ cache.interval # None => timer' # None /\ timer' <= due
      BY Zenon, <3>3, <3>5, EarlierTimer DEF TypeOK
    <3>7. timer' # None => now <= timer' + 1
      BY <1>0, <3>5, <3>6 DEF PollInv
    <3>8. cache.interval # None => timer' # None /\ timer' <= polled + cache.interval + MaxJitter
      BY <1>0, <3>5, <3>6, <3>i DEF Times
    <3>9. pc' = "idle" /\ UNCHANGED since
      BY Zenon, <1>1, <2>2, <3>2 DEF Reconcile
    <3>10. Polls => timer' # None /\ timer' <= polled + interval + MaxJitter
      BY Zenon, <3>0, <3>8 DEF Polls
    <3> QED
      BY <1>0, <2>0, <3>2, <3>7, <3>9, <3>10 DEF PollInv, Polls
  <2> QED
    BY <2>1, <2>2
<1>2. CASE Unpack
  <2>1. /\ pc' = "store" /\ since' = now /\ polled' = now /\ pc = "unpack"
        /\ UNCHANGED <<now, interval, generation, stored, timer>>
    BY Zenon, <1>2 DEF Unpack, serverVars
  <2> QED
    BY SMTT(30), <1>0, <2>1 DEF PollInv, Polls
<1>3. CASE Store
  <2>1. /\ pc = "store" /\ pc' = "idle"
        /\ stored'.gen = catalog.generation /\ stored'.unpackResult = result
        /\ UNCHANGED <<now, interval, generation, polled, since>>
    BY <1>3 DEF Store
  <2>2. result.lastPoll = Truncate(polled) /\ since = polled /\ now - polled <= MaxStore
    BY <2>1 DEF PollInv, LastPollInv
  <2>3. \/ \E due \in nextPollResult(Truncate(polled), catalog.interval) : AddAfter(due)
        \/ queued' = TRUE /\ UNCHANGED timer
    BY Zenon, <1>3, <2>2 DEF Store
  <2>4. catalog.interval \in Intervals \cup {None}
    BY DEF TypeOK, Catalog
  <2>5. CASE \E due \in nextPollResult(Truncate(polled), catalog.interval) : AddAfter(due)
    <3>1. PICK due \in nextPollResult(Truncate(polled), catalog.interval) : AddAfter(due)
      BY Zenon, <2>5
    <3>2. /\ due \in Nat \cup {None}
          /\ due # None =>
                now < due /\ due <= Truncate(polled) + catalog.interval + MaxJitter
          /\ catalog.interval # None /\ now <= Truncate(polled) + catalog.interval
                => due # None
      BY Zenon, <1>0, <2>4, <3>1, NextPoll DEF TypeOK
    <3>3. catalog.interval # None =>
             catalog.interval \in Nat /\ MaxStore + Second <= catalog.interval
      BY Zenon, <2>4, IntervalsPositive DEF StoreIsShort
    <3>4. catalog.interval # None => now <= Truncate(polled) + catalog.interval
      BY <1>0, <2>2, <3>3 DEF Times
    <3>5. /\ timer' \in {timer, due}
          /\ catalog.interval # None => timer' # None /\ timer' <= due
      BY <3>1, <3>2, <3>4, EarlierTimer DEF TypeOK
    <3>6. timer' # None => now <= timer' + 1
      BY <1>0, <3>2, <3>5 DEF PollInv
    <3>7. catalog.interval # None =>
             /\ timer' # None /\ timer' <= polled + catalog.interval + MaxJitter
             /\ now - polled <= catalog.interval + MaxJitter + 1
      BY <1>0, <2>2, <3>2, <3>3, <3>4, <3>5 DEF Times
    <3>8. catalog.generation = generation => catalog.interval = interval
      BY Zenon DEF CacheInv, Known
    <3> QED
      BY Zenon, <1>0, <2>1, <2>2, <3>6, <3>7, <3>8 DEF PollInv, Polls
  <2>6. CASE queued' = TRUE /\ UNCHANGED timer
    <3>1. interval # None => now - polled <= interval + MaxJitter + 1
      BY <1>0, <2>2, IntervalsPositive DEF StoreIsShort, TypeOK
    <3> QED
      BY <1>0, <2>1, <2>2, <2>6, <3>1 DEF PollInv, Polls
  <2> QED
    BY Zenon, <2>3, <2>5, <2>6
<1>4. CASE PollTimer
  <2>1. /\ timer' = None /\ queued' = TRUE
        /\ UNCHANGED <<now, interval, generation, pc, since, stored, polled>>
    BY Zenon, <1>4 DEF PollTimer, serverVars, workVars, history
  <2> QED
    BY Zenon, <1>0, <2>1 DEF PollInv, Polls
<1>5. CASE EditInterval
  <2>1. /\ generation' = generation + 1
        /\ UNCHANGED <<now, queued, timer, pc, since, stored, polled>>
    BY Zenon, <1>5 DEF EditInterval, Changed
  <2>2. stored # None => stored.gen # generation'
    BY <1>0, <2>1 DEF CacheInv
  <2> QED
    BY ZenonT(60), <1>0, <2>1, <2>2 DEF PollInv, Polls
<1>6. CASE AddCondition \/ Push \/ Resync \/ Deliver \/ UNCHANGED vars
  <2>1. /\ queued' \in {queued, TRUE}
        /\ UNCHANGED <<now, interval, generation, timer, pc, since, stored, polled>>
    BY Zenon, <1>6 DEF AddCondition, Changed, Push, Resync, Deliver, vars, serverVars,
                       watchVars, workVars, history
  <2> QED
    BY <1>0, <2>1 DEF PollInv, Polls
<1>7. CASE Restart
  <2>1. /\ stored' = None /\ timer' = None
        /\ UNCHANGED <<now, interval, generation, pc, since, polled>>
    BY Zenon, <1>7 DEF Restart, serverVars, workVars
  <2> QED
    BY Zenon, <1>0, <2>1 DEF PollInv, Polls
<1>8. CASE Tick
  <2>1. /\ now' = now + 1 /\ (pc = "idle" => ~queued)
        /\ timer # None => now <= timer
        /\ pc = "unpack" => now - since < MaxUnpack
        /\ pc = "store" => now - since < MaxStore
        /\ UNCHANGED <<interval, generation, queued, timer, pc, since, stored, polled>>
    BY Zenon, <1>8 DEF Tick, serverVars, watchVars, workVars, history
  <2> QED
    BY SMTT(30), <1>0, <2>1 DEF PollInv, Polls
<1> QED
  BY Zenon, <1>1, <1>2, <1>3, <1>4, <1>5, <1>6, <1>7, <1>8 DEF Next

-------------------------------------------------------------------------------
(* The theorems.                                                             *)

\* The initial states satisfy the invariants.
LEMMA InvInit ==
    ASSUME Init
    PROVE  TypeOK /\ CacheInv /\ StatusInv /\ LastPollInv /\ PollInv
<1> USE CatalogPollingAssumption
<1>1. 0 \in Times /\ 0 \in Seconds
  BY SMTT(30) DEF Times, Seconds
<1>2. status \in Status
  BY Zenon, <1>1 DEF Init, Status
<1>3. Object \in Catalog /\ <<>> \in Seq(Catalog)
  BY <1>2 DEF Init, Object, Catalog
<1>4. TypeOK
  <2>1. 0 \in 0 .. MaxEdits /\ 1 \in Nat
    OBVIOUS
  <2> QED
    BY Zenon, <1>1, <1>2, <1>3, <2>1 DEF Init, TypeOK
<1>5. StatusInv /\ CacheInv
  <2>1. Known(Object) /\ Len(<<>>) = 0
    BY DEF Init, Known, Object
  <2> QED
    BY <2>1 DEF Init, StatusInv, CacheInv
<1>6. LastPollInv /\ PollInv
  BY DEF Init, LastPollInv, PollInv, Polls
<1> QED
  BY <1>4, <1>5, <1>6

\* Times stay whole seconds wherever the API or the metadata hold them.
THEOREM PollingTypeCorrect == Spec => []TypeOK
  BY InvInit, TypeNext, CacheNext, StatusNext, PTL DEF Spec

\* A catalog at rest has the status that the next reconcile expects: truncated
\* times survive the way through the API server, and what was worked out from a
\* stale read is worked out again.
THEOREM AlwaysAtRestAsExpected == Spec => []AtRestAsExpected
<1>1. TypeOK /\ StatusInv => AtRestAsExpected
  <2> SUFFICES ASSUME TypeOK, StatusInv, pc = "idle", ~queued, events = <<>>,
                      stored # None, status.unknown = FALSE
               PROVE  status = getCurrentState(status)
    BY Zenon DEF AtRestAsExpected, TypeOK, Status
  <2>1. stored \in [gen : Nat, unpackResult : Result] /\ status \in Status
    BY DEF TypeOK
  <2>2. Serves(status, stored.unpackResult, stored.gen)
    BY DEF StatusInv
  <2> QED
    BY Zenon, <2>1, <2>2, ExpectedStatus
<1> QED
  BY <1>1, InvInit, TypeNext, CacheNext, StatusNext, PTL DEF Spec

\* A catalog is polled in its interval, the jitter and the time of a reconcile,
\* however often it is edited, resynced or restarted, when Store takes less than
\* the interval by a second.
THEOREM AlwaysPolledInIntervals ==
    ASSUME StoreIsShort
    PROVE  Spec => []PolledInIntervals
<1>1. ASSUME TypeOK, PollInv
      PROVE  PolledInIntervals
  <2> SUFFICES ASSUME Polls
               PROVE  now - polled <= interval + MaxJitter + 1 + MaxUnpack + MaxStore
    BY DEF PolledInIntervals, Polls
  <2>1. /\ {now, since, polled, interval} \subseteq Nat
        /\ {MaxJitter, MaxUnpack, MaxStore} \subseteq Nat
    BY <1>1, Numbers DEF Polls
  <2>2. pc \in {"idle", "unpack", "store"}
    BY <1>1 DEF TypeOK
  <2> QED
    BY <1>1, <2>1, <2>2 DEF PollInv
<1>2. ASSUME TypeOK, CacheInv, StatusInv, LastPollInv, PollInv, [Next]_vars
      PROVE  TypeOK' /\ CacheInv' /\ StatusInv' /\ LastPollInv' /\ PollInv'
  BY <1>2, TypeNext, CacheNext, StatusNext, LastPollNext, PollNext
<1> QED
  BY <1>1, <1>2, InvInit, PTL DEF Spec

\* Neither the events of the controller's own writes nor resyncs poll a catalog
\* before its time, once the cache has caught up with the API server and a
\* reconcile that had read the catalog as it was has ended.
THEOREM NeverPolledEarly == Spec => NotPolledEarly
<1>1. ASSUME TypeOK, CacheInv, StatusInv, LastPollInv, [Next]_vars,
             pc = "idle", pc' = "unpack", events = <<>>, ~status.unknown, ~disturbed
      PROVE  interval # None /\ now - polled >= interval - Second
  <2>1. needsUnpack
    BY Zenon, <1>1 DEF Next, Reconcile, Unpack, Store, PollTimer, Deliver, EditInterval,
                       AddCondition, Changed, Push, Resync, Restart, Tick, vars, workVars
  <2>2. /\ stored # None /\ stored.gen = generation
        /\ Serves(status, stored.unpackResult, stored.gen)
    BY Zenon, <1>1 DEF StatusInv
  <2>3. stored \in [gen : Nat, unpackResult : Result] /\ status \in Status
    BY Zenon, <1>1, <2>2 DEF TypeOK
  <2>4. status.unknown = FALSE
    BY Zenon, <1>1, <2>3 DEF Status
  <2>5. status = getCurrentState(status)
    BY Zenon, <2>2, <2>3, <2>4, ExpectedStatus
  <2>6. cache.status = status /\ cache.generation = generation /\ cache.interval = interval
    BY <1>1 DEF CacheInv, Object
  <2>7. stored.unpackResult.lastPoll = Truncate(polled)
    BY Zenon, <1>1, <2>2 DEF LastPollInv
  <2>8. needsPoll(Truncate(polled), interval)
    BY Zenon, <2>1, <2>2, <2>5, <2>6, <2>7 DEF needsUnpack
  <2> QED
    BY <1>1, <2>8, Numbers DEF needsPoll, Times
<1>2. ASSUME TypeOK, CacheInv, StatusInv, LastPollInv, [Next]_vars
      PROVE  TypeOK' /\ CacheInv' /\ StatusInv' /\ LastPollInv'
  BY <1>2, TypeNext, CacheNext, StatusNext, LastPollNext
<1>3. TypeOK /\ CacheInv /\ StatusInv /\ LastPollInv /\ [Next]_vars =>
        (/\ pc = "idle" /\ pc' = "unpack"
         /\ events = <<>> /\ ~status.unknown /\ ~disturbed
         => interval # None /\ now - polled >= interval - Second)
  BY <1>1
<1> QED
  BY <1>2, <1>3, InvInit, PTL DEF Spec, NotPolledEarly

-------------------------------------------------------------------------------
(* The time of the last extraction.                                          *)

\* Times of the API are numbers.
LEMMA SecondsInt == Seconds \subseteq Int
  BY CatalogPollingAssumption DEF Seconds, Times

\* What a write of the status makes of its time.
LEMMA WrittenTime ==
    ASSUME TypeOK, StatusInv, Store
    PROVE  \/ UNCHANGED <<status, reported>>
           \/ status'.lastUnpacked = result.unpackTime /\ reported' = TRUE
<1> DEFINE s == updateStatusServing(catalog.status, result, catalog.generation)
<1>1. result \in Result /\ catalog.status \in Status /\ catalog.generation \in Nat
  BY DEF Store, StatusInv, TypeOK, Catalog
<1>2. s \in Status /\ s.lastUnpacked = result.unpackTime
  BY <1>1, ServingStatus DEF Serves
<1>3. Serialized(s) = s
  BY Zenon, <1>2, SerializedStatus
<1>4. \/ UNCHANGED <<status, reported>>
      \/ status' = Serialized(s) /\ reported' = TRUE
  BY ZenonT(60) DEF Store
<1> QED
  BY Zenon, <1>2, <1>3, <1>4

\* Every step preserves ExtractInv.
LEMMA ExtractNext == TypeOK /\ StatusInv /\ ExtractInv /\ [Next]_vars => ExtractInv'
<1> SUFFICES ASSUME TypeOK, StatusInv, ExtractInv, [Next]_vars
             PROVE  ExtractInv'
  OBVIOUS
<1>1. CASE Unpack
  <2>1. CASE Unpacked(tag) /\ result' = successResult(tag, dir.modTime) /\ UNCHANGED <<dir, reported>>
    <3>1. result'.unpackTime = Truncate(dir.modTime) /\ dir # None /\ UNCHANGED status
      BY Zenon, <1>1, <2>1 DEF Unpack, Unpacked, successResult, serverVars
    <3>2. Truncate(dir.modTime) \in Int
      BY <3>1, Truncated, Numbers DEF TypeOK, Seconds, Times
    <3> QED
      BY <2>1, <3>1, <3>2 DEF ExtractInv, Truncate
  <2>2. CASE /\ \E t \in since .. now : dir' = [digest |-> tag, modTime |-> t]
             /\ result' = successResult(tag, now) /\ reported' = FALSE
    <3>1. PICK t \in since .. now : dir' = [digest |-> tag, modTime |-> t]
      BY ZenonT(60), <2>2
    <3>2. t \in Times /\ now \in Times /\ t <= now
      BY <3>1, Numbers, CatalogPollingAssumption DEF TypeOK, Times
    <3>3. result'.unpackTime = Truncate(now) /\ dir'.modTime = t
      BY <2>2, <3>1 DEF successResult
    <3>4. Truncate(t) <= Truncate(now)
      BY <3>2, TruncateMonotone
    <3> QED
      BY <2>2, <3>3, <3>4 DEF ExtractInv, Truncate
  <2> QED
    BY Zenon, <1>1, <2>1, <2>2 DEF Unpack
<1>2. CASE Store
  <2>1. pc = "store" /\ pc' = "idle" /\ UNCHANGED dir
    BY <1>2 DEF Store
  <2>2. \/ UNCHANGED <<status, reported>>
        \/ status'.lastUnpacked = result.unpackTime /\ reported' = TRUE
    BY Zenon, <1>2, WrittenTime
  <2> QED
    BY <2>1, <2>2 DEF ExtractInv, Truncate
<1>3. CASE AddCondition
  <2>1. /\ status'.lastUnpacked = status.lastUnpacked
        /\ UNCHANGED <<dir, pc, result, reported>>
    BY ZenonT(60), <1>3 DEF AddCondition, Changed, TypeOK, Status
  <2> QED
    BY <2>1 DEF ExtractInv, Truncate
<1>4. CASE ~Unpack /\ ~Store /\ ~AddCondition
  <2>1. UNCHANGED <<status, dir, result, reported>> /\ (pc' = "store" => pc = "store")
    BY Zenon, <1>4 DEF Next, Reconcile, PollTimer, Deliver, EditInterval, Changed, Push,
                       Resync, Restart, Tick, vars, serverVars, workVars, history
  <2> QED
    BY <2>1 DEF ExtractInv, Truncate
<1> QED
  BY Zenon, <1>1, <1>2, <1>3, <1>4

\* Unpack dates an image it finds by its directory, not by the clock: lastUnpacked
\* moves forward only when an image was extracted that is not reported yet.
THEOREM LastUnpackedByExtractionAlways == Spec => LastUnpackedByExtraction
<1>1. ASSUME TypeOK, StatusInv, ExtractInv, [Next]_vars, reported = TRUE
      PROVE  status'.lastUnpacked <= status.lastUnpacked
  <2>0. status.lastUnpacked \in Int
    BY Zenon, <1>1, SecondsInt DEF TypeOK, Status
  <2>1. CASE Store
    <3>1. result.unpackTime <= status.lastUnpacked
      BY Zenon, <1>1, <2>1 DEF ExtractInv, Store
    <3>2. status' = status \/ status'.lastUnpacked = result.unpackTime
      BY Zenon, <1>1, <2>1, WrittenTime
    <3> QED
      BY <2>0, <3>1, <3>2
  <2>2. CASE AddCondition
    <3>1. status'.lastUnpacked = status.lastUnpacked
      BY <1>1, <2>2 DEF AddCondition, TypeOK, Status
    <3> QED
      BY <2>0, <3>1
  <2>3. CASE UNCHANGED status
    BY <2>0, <2>3
  <2> QED
    BY Zenon, <1>1, <2>1, <2>2, <2>3
       DEF Next, Reconcile, Unpack, PollTimer, Deliver, EditInterval, Push, Resync, Restart,
           Tick, vars, serverVars
<1>2. ASSUME TypeOK, StatusInv, ExtractInv, [Next]_vars
      PROVE  status'.lastUnpacked > status.lastUnpacked => ~reported
  <2>1. status.lastUnpacked \in Int /\ status'.lastUnpacked \in Int /\ reported \in BOOLEAN
    BY Zenon, <1>2, TypeNext, SecondsInt DEF TypeOK, Status
  <2>2. CASE reported = TRUE
    <3>1. status'.lastUnpacked <= status.lastUnpacked
      BY <1>1, <1>2, <2>2
    <3> QED
      BY <2>1, <3>1
  <2> QED
    BY Zenon, <2>1, <2>2
<1>3. ASSUME TypeOK, CacheInv, StatusInv, ExtractInv, [Next]_vars
      PROVE  TypeOK' /\ CacheInv' /\ StatusInv' /\ ExtractInv'
  BY <1>3, TypeNext, CacheNext, StatusNext, ExtractNext
<1>4. ASSUME Init
      PROVE  TypeOK /\ CacheInv /\ StatusInv /\ ExtractInv
  BY <1>4, InvInit DEF Init, ExtractInv
<1>5. TypeOK /\ CacheInv /\ StatusInv /\ ExtractInv /\ [Next]_vars =>
        (status'.lastUnpacked > status.lastUnpacked => ~reported)
  BY <1>2
<1> QED
  BY <1>3, <1>4, <1>5, PTL DEF Spec, LastUnpackedByExtraction
===============================================================================

---------------------------- MODULE CatalogPolling ----------------------------
(***************************************************************************)
(* When a ClusterCatalog is polled: the clock, the times that reconcile    *)
(* and successResult take from it, and the delaying queue                  *)
(* (clustercatalog_controller.go, containers_image.go).                    *)
(*                                                                         *)
(* Time is counted in ticks, Second of them to a second, because times in  *)
(* the API have seconds and time.Now has not.  A due timer fires and a     *)
(* queued request is taken up within a tick, strictly later, and so is the *)
(* retry after a conflict, which is backed off by milliseconds; Unpack and *)
(* Store take up to MaxUnpack and MaxStore.  Reconcile reads the catalog   *)
(* from the informer's cache, which the watch brings up to date event by   *)
(* event, at any later time.  Failures and deletion are in                 *)
(* ClusterCatalogController; the only failing write here is a conflict.    *)
(***************************************************************************)
EXTENDS Integers, Sequences

CONSTANTS Digests,     \* images the tag can name
          None,        \* no timer, no directory, no metadata; polling is off
          Second,      \* ticks to a second
          Intervals,   \* the values of pollIntervalMinutes, in ticks
          MaxJitter,   \* the most that wait.Jitter adds, in ticks
          MaxUnpack, MaxStore,  \* the longest Unpack and Store, in ticks
          MaxTime,     \* bound: the clock
          MaxEdits     \* bound: edits, pushes and restarts

ASSUME CatalogPollingAssumption ==
    /\ Second \in Nat \ {0} /\ None \notin Int /\ None \notin Digests
    /\ Intervals \subseteq {k * Second : k \in 1 .. MaxTime}
    /\ MaxJitter \in Nat \ {0}
    /\ {MaxUnpack, MaxStore, MaxTime, MaxEdits} \subseteq Nat

VARIABLES
    now,       \* the clock
    interval,  \* spec.source.image.pollIntervalMinutes
    generation,
    status,    \* what the API server holds of it
    events,    \* versions of it that the watch has yet to report
    cache,     \* the informer's copy of it
    tag,       \* the image spec.source.image.ref names
    dir,       \* the directory of the unpacked image
    queued,    \* the name is in the work queue
    timer,     \* when the delaying queue adds it
    pc,        \* where the reconcile is
    since,     \* since when
    catalog,   \* the catalog as it was read
    latest,    \* its resourceVersion is still that of the API server
    result,    \* what Unpack returned
    stored,    \* the entry of storedCatalogs
    polled,    \* history: when the last Unpack returned
    reported,  \* history: the status was written since the last extraction
    disturbed, \* history: what was stored last is not all that the catalog has become
    edits      \* counter for the bound

serverVars == <<interval, generation, status>>
watchVars == <<events, cache, queued>>
workVars == <<pc, since, catalog, latest, result>>
history == <<polled, reported, disturbed>>
vars == <<now, serverVars, watchVars, tag, dir, timer, workVars, stored, history, edits>>

Times == 0 .. MaxTime

Seconds == {t \in Times : t % Second = 0}

Result == [digest : Digests, unpackTime : Seconds, lastPoll : Seconds]

ASSUME NoMetadata == None \notin [gen : Nat, unpackResult : Result]

Status == [resolved : Digests \cup {None}, lastUnpacked : Seconds, gen : Nat,
           unknown : BOOLEAN]

Catalog == [interval : Intervals \cup {None}, generation : Nat, status : Status]

\* The catalog as the API server holds it.
Object == [interval |-> interval, generation |-> generation, status |-> status]

TypeOK ==
    /\ now \in Times /\ interval \in Intervals \cup {None} /\ generation \in Nat
    /\ status \in Status
    /\ tag \in Digests
    /\ dir = None \/ dir \in [digest : Digests, modTime : Times]
    /\ queued \in BOOLEAN /\ timer \in Nat \cup {None}
    /\ pc \in {"idle", "unpack", "store"} /\ since \in Times
    /\ catalog \in Catalog /\ latest \in BOOLEAN
    /\ events \in Seq(Catalog) /\ cache \in Catalog
    /\ result = None \/ result \in Result
    /\ stored = None \/ stored \in [gen : Nat, unpackResult : Result]
    /\ polled \in Times /\ reported \in BOOLEAN /\ disturbed \in BOOLEAN
    /\ edits \in 0 .. MaxEdits

Init ==
    /\ now = 0 /\ interval \in Intervals \cup {None} /\ generation = 1
    /\ status = [resolved |-> None, lastUnpacked |-> 0, gen |-> 0, unknown |-> FALSE]
    /\ tag \in Digests /\ dir = None
    /\ queued = TRUE /\ timer = None /\ pc = "idle" /\ since = 0
    /\ events = <<>> /\ cache = Object /\ catalog = Object /\ latest = TRUE
    /\ result = None /\ stored = None
    /\ polled = 0 /\ reported = TRUE /\ disturbed = TRUE /\ edits = 0

Truncate(t) == t - (t % Second)

-------------------------------------------------------------------------------
(* Times.                                                                    *)

\* Faulty variant: every reconcile of a polled catalog polls it.
needsPollAlways(lastPoll, pollInterval) == pollInterval # None

\* The next poll time is in the past.
needsPoll(lastPoll, pollInterval) ==
    pollInterval # None /\ lastPoll + pollInterval < now

\* Faulty variant: the next poll is asked for only once this one is due.
nextPollResultDue(lastPoll, pollInterval) ==
    IF needsPoll(lastPoll, pollInterval) THEN {now + pollInterval} ELSE {None}

\* When controller-runtime adds the name again.  The jitter is never nothing, to
\* 53 bits.  A RequeueAfter that is not positive asks for nothing.
nextPollResult(lastPoll, pollInterval) ==
    IF pollInterval = None THEN {None}
    ELSE {IF lastPoll + pollInterval + j > now THEN lastPoll + pollInterval + j ELSE None :
              j \in 1 .. MaxJitter}

\* The delaying queue keeps the earlier time of a name it already holds.
AddAfter(due) ==
    timer' = (IF due = None \/ (timer # None /\ timer <= due) THEN timer ELSE due)

\* Faulty variant: times are not truncated.
successResultExact(digest, lastUnpacked) ==
    [digest |-> digest, unpackTime |-> lastUnpacked, lastPoll |-> now]

successResult(digest, lastUnpacked) ==
    [digest |-> digest, unpackTime |-> Truncate(lastUnpacked), lastPoll |-> Truncate(now)]

updateStatusServing(s, r, gen) ==
    [s EXCEPT !.resolved = r.digest, !.lastUnpacked = r.unpackTime, !.gen = gen]

clearUnknownConditions(s) == [s EXCEPT !.unknown = FALSE]

\* metav1.Time is written as RFC 3339, in seconds.
Serialized(s) == [s EXCEPT !.lastUnpacked = Truncate(@)]

\* expectedStatus: only it loses the unknown conditions, the catalog keeps them.
getCurrentState(s) ==
    updateStatusServing(clearUnknownConditions(s), stored.unpackResult, stored.gen)

-------------------------------------------------------------------------------
(* Reconcile.                                                                *)

needsUnpack ==
    ~(/\ stored # None
      /\ cache.status = getCurrentState(cache.status)
      /\ cache.generation = stored.gen
      /\ ~needsPoll(stored.unpackResult.lastPoll, cache.interval))

\* Reconcile up to Unpack, or to its end when nothing is to be done.
Reconcile ==
    /\ pc = "idle" /\ queued /\ queued' = FALSE
    /\ \/ /\ needsUnpack
          /\ pc' = "unpack" /\ since' = now
          /\ catalog' = cache /\ latest' = (events = <<>>)
          /\ UNCHANGED timer
       \/ /\ ~needsUnpack
          /\ \E due \in nextPollResult(stored.unpackResult.lastPoll, cache.interval) :
                AddAfter(due)
          /\ UNCHANGED <<pc, since, catalog, latest>>
    /\ UNCHANGED <<now, serverVars, events, cache, tag, dir, result, stored, history, edits>>

Unpacked(digest) == dir # None /\ dir.digest = digest

\* Faulty variant: an image that was there already is dated as if extracted now.
UnpackNow ==
    /\ pc = "unpack" /\ pc' = "store" /\ since' = now /\ polled' = now
    /\ result' = successResult(tag, now)
    /\ \/ Unpacked(tag) /\ UNCHANGED <<dir, reported>>
       \/ /\ ~Unpacked(tag)
          /\ dir' = [digest |-> tag, modTime |-> now] /\ reported' = FALSE
    /\ UNCHANGED <<now, serverVars, watchVars, tag, timer, catalog, latest, stored, disturbed,
                   edits>>

\* Unpack returns.  The time of an image that was there already is that of its
\* directory, which was last changed in the course of the extraction; the time
\* of an image extracted now is the end of it.
Unpack ==
    /\ pc = "unpack" /\ pc' = "store" /\ since' = now /\ polled' = now
    /\ \/ /\ Unpacked(tag)
          /\ result' = successResult(tag, dir.modTime)
          /\ UNCHANGED <<dir, reported>>
       \/ /\ ~Unpacked(tag)
          /\ \E t \in since .. now : dir' = [digest |-> tag, modTime |-> t]
          /\ result' = successResult(tag, now) /\ reported' = FALSE
    /\ UNCHANGED <<now, serverVars, watchVars, tag, timer, catalog, latest, stored, disturbed,
                   edits>>

\* Store returns: the metadata is kept, the status written if it changed, and the
\* next poll is asked for.  A write that leaves the object as it is makes no
\* event.  A conflict is an error, and the name is queued again instead.
Store ==
    /\ pc = "store" /\ pc' = "idle" /\ result' = None /\ disturbed' = ~latest
    /\ stored' = [gen |-> catalog.generation, unpackResult |-> result]
    /\ UNCHANGED <<interval, generation>>
    /\ LET s == updateStatusServing(catalog.status, result, catalog.generation)
       IN  \/ /\ s = catalog.status
              /\ \E due \in nextPollResult(result.lastPoll, catalog.interval) : AddAfter(due)
              /\ UNCHANGED <<status, events, queued, reported>>
           \/ /\ s # catalog.status /\ latest
              /\ status' = Serialized(s) /\ reported' = TRUE
              /\ events' = IF status' = status THEN events ELSE Append(events, Object')
              /\ \E due \in nextPollResult(result.lastPoll, catalog.interval) : AddAfter(due)
              /\ UNCHANGED queued
           \/ /\ s # catalog.status /\ ~latest
              /\ queued' = TRUE
              /\ UNCHANGED <<status, events, timer, reported>>
    /\ UNCHANGED <<now, cache, tag, dir, since, catalog, latest, polled, edits>>

PollTimer ==
    /\ timer # None /\ timer < now
    /\ timer' = None /\ queued' = TRUE
    /\ UNCHANGED <<now, serverVars, events, cache, tag, dir, workVars, stored, history, edits>>

-------------------------------------------------------------------------------
(* The surroundings.                                                         *)

Edit == edits < MaxEdits /\ edits' = edits + 1

\* The object is changed by another client, which the watch is to report.
Changed ==
    /\ Edit /\ events' = Append(events, Object') /\ latest' = FALSE /\ disturbed' = TRUE
    /\ UNCHANGED <<now, cache, queued, tag, dir, timer, pc, since, catalog, result, stored,
                   polled, reported>>

EditInterval ==
    /\ interval' \in (Intervals \cup {None}) \ {interval} /\ generation' = generation + 1
    /\ UNCHANGED status /\ Changed

\* A condition of another type is added to the status.
AddCondition ==
    /\ ~status.unknown /\ status' = [status EXCEPT !.unknown = TRUE]
    /\ UNCHANGED <<interval, generation>> /\ Changed

\* The watch reports the next version.
Deliver ==
    /\ events # <<>> /\ cache' = Head(events) /\ events' = Tail(events) /\ queued' = TRUE
    /\ UNCHANGED <<now, serverVars, tag, dir, timer, workVars, stored, history, edits>>

Push ==
    /\ Edit /\ tag' \in Digests \ {tag}
    /\ UNCHANGED <<now, serverVars, watchVars, dir, timer, workVars, stored, history>>

\* The informer's resync, every ten hours or so: often, next to an interval
\* that is longer.
Resync ==
    /\ Edit /\ queued' = TRUE
    /\ UNCHANGED <<now, serverVars, events, cache, tag, dir, timer, workVars, stored, history>>

\* The container starts again, with its cache volume, between two reconciles.
Restart ==
    /\ Edit /\ pc = "idle"
    /\ queued' = TRUE /\ timer' = None /\ stored' = None /\ disturbed' = TRUE
    /\ events' = <<>> /\ cache' = Object
    /\ UNCHANGED <<now, serverVars, tag, dir, workVars, polled, reported>>

Tick ==
    /\ now < MaxTime /\ now' = now + 1
    /\ pc = "idle" => ~queued
    /\ timer # None => now <= timer
    /\ pc = "unpack" => now - since < MaxUnpack
    /\ pc = "store" => now - since < MaxStore
    /\ UNCHANGED <<serverVars, watchVars, tag, dir, timer, workVars, stored, history, edits>>

Next == \/ Reconcile \/ Unpack \/ Store \/ PollTimer \/ Deliver
        \/ EditInterval \/ AddCondition \/ Push \/ Resync \/ Restart \/ Tick

Spec == Init /\ [][Next]_vars

-------------------------------------------------------------------------------
(* Properties.                                                               *)

\* "CatalogSources are polled if PollInterval is mentioned, in intervals of
\* wait.Jitter(pollDuration, maxFactor)": since the last poll no more time has
\* passed than the interval, the jitter and what the reconcile itself takes.
PolledInIntervals ==
    interval # None /\ stored # None /\ stored.gen = generation =>
        now - polled <= interval + MaxJitter + 1 + MaxUnpack + MaxStore

\* A catalog is not polled before its interval has passed, to the second, since
\* the last poll: neither the events of the controller's own status writes nor
\* resyncs poll it.  The exceptions are a cache that lags behind, a condition of
\* another type, and what was changed or lost since the last reconcile that had
\* read the catalog as it was to the end: the spec, the status or the metadata.
NotPolledEarly ==
    [][/\ pc = "idle" /\ pc' = "unpack"
       /\ events = <<>> /\ ~status.unknown /\ ~disturbed
       => interval # None /\ now - polled >= interval - Second]_vars

\* When the controller is done and the watch has reported everything, the status
\* is what the next reconcile expects, after its way through the API server,
\* unless somebody added a condition: a status worked out from a stale read does
\* not stay.
AtRestAsExpected ==
    pc = "idle" /\ ~queued /\ events = <<>> /\ stored # None =>
        status = getCurrentState(status) \/ status.unknown

\* "lastUnpacked represents the last time the contents of the catalog were
\* extracted from their source format": it moves forward only with an extraction,
\* never because an image was found unpacked.  It may go back, to the time of the
\* directory, when such an image is polled.
LastUnpackedByExtraction ==
    [][status'.lastUnpacked > status.lastUnpacked => ~reported]_vars
===============================================================================

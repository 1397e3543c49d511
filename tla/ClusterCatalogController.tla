----------------------- MODULE ClusterCatalogController -----------------------
(***************************************************************************)
(* The ClusterCatalog reconciler (clustercatalog_controller.go) and its    *)
(* surroundings: the API server that holds the ClusterCatalog, the         *)
(* informer cache it is read from, the work queue that schedules it, the   *)
(* disk it fills and the registry it pulls from.                           *)
(*                                                                         *)
(* One ClusterCatalog name is modelled: the reconciler keeps no state that *)
(* two names share, and one worker handles the requests of a name one at a *)
(* time.  A reconcile is a sequence of steps, cut at every call that       *)
(* leaves the process, so that users, the watch, the registry and crashes  *)
(* interleave with it there.  Unpacker.Unpack and Storage.Store are single *)
(* steps here, known by what they return.                                  *)
(***************************************************************************)
EXTENDS CatalogStatus

CONSTANTS Refs,           \* image references a user can name
          CanonicalRefs,  \* those that name a digest rather than a tag
          Digests,        \* image digests
          Specs,          \* the values of .spec users write
          Faults,         \* the kinds of failure that can happen
          ForegroundDeletion,  \* whether users delete with the foreground policy
          MaxWrites,      \* bound: user writes to the catalog
          MaxPushes,      \* bound: tags moved in the registry
          MaxFaults       \* bound: failures

\* What the model keeps of a spec: the image, and whether it is polled.
ClusterCatalogSpec == [availabilityMode : {"Available", "Unavailable"},
                       ref : Refs, poll : BOOLEAN]

ASSUME ControllerAssumption ==
    /\ CanonicalRefs \subseteq Refs
    /\ Results = [ref : Refs, digest : Digests]
    /\ None \notin Results \cup Digests
    /\ Specs # {} /\ Specs \subseteq ClusterCatalogSpec
    /\ Faults \subseteq {"registry", "disk", "api", "reply", "crash", "podReplaced"}
    /\ ForegroundDeletion \in BOOLEAN
    /\ {MaxWrites, MaxPushes, MaxFaults} \subseteq Nat

VARIABLES
    server,    \* the ClusterCatalog in the API server
    cache,     \* the informer's copy of it
    events,    \* versions the watch has yet to deliver
    queued,    \* the name is in the work queue
    timer,     \* the name is in the delaying queue (RequeueAfter)
    unreported, \* history: the last reconcile ended in an error that is not retried,
               \* and its write of the status that says so failed
    pc,        \* the next step of the reconcile
    existing,  \* existingCatsrc: the catalog as read from the cache
    catalog,   \* reconciledCatsrc
    unpackResult,  \* what Unpacker.Unpack returned
    err,       \* reconcileErr
    requeueAfter,  \* the Result asks for a requeue at the next poll
    storedCatalog, \* the entry of storedCatalogs
    content,   \* the content in the storage directory
    unpackDir, \* the unpack cache has a directory for the catalog
    registry,  \* the digest a reference resolves to
    writes, pushes, faults  \* counters for the bounds

serverVars == <<server, events>>
queueVars  == <<queued, timer, unreported>>
workerVars == <<pc, existing, catalog, unpackResult, err, requeueAfter>>
diskVars   == <<content, unpackDir>>
envVars    == <<registry, writes, pushes>>
vars == <<serverVars, cache, queueVars, workerVars, storedCatalog, diskVars,
          envVars, faults>>

fbcDeletionFinalizer == "delete-server-cache"
foregroundFinalizer  == "foregroundDeletion"

\* A version of the object.
Object == [exists : BOOLEAN, rv : Nat, generation : Nat, spec : Specs,
           deleting : BOOLEAN,
           finalizers : SUBSET {fbcDeletionFinalizer, foregroundFinalizer},
           status : Status]

WithStatus(o, status) == [o EXCEPT !.status = status]
WithFinalizers(o, finalizers) == [o EXCEPT !.finalizers = finalizers]
WithSpec(o, spec) == [o EXCEPT !.spec = spec, !.generation = @ + 1]
Deleting(o) == [o EXCEPT !.deleting = TRUE, !.generation = @ + 1]
AtVersion(o, rv) == [o EXCEPT !.rv = rv]

\* The absence of the object, and the object a user creates.
NoObject == [exists |-> FALSE, rv |-> 0, generation |-> 0,
             spec |-> CHOOSE spec \in Specs : TRUE, deleting |-> FALSE,
             finalizers |-> {}, status |-> EmptyStatus]

NewObject(spec) == [NoObject EXCEPT !.exists = TRUE, !.generation = 1, !.spec = spec]

StoredCatalog == [observedGeneration : Nat, unpackResult : Results]

TypeOK ==
    /\ server \in Object /\ cache \in Object /\ events \in SUBSET Object
    /\ queued \in BOOLEAN /\ timer \in BOOLEAN /\ unreported \in BOOLEAN
    /\ pc \in {"idle", "reconcile", "cleanup", "store", "status", "finalizers"}
    /\ existing \in Object /\ catalog \in Object
    /\ unpackResult \in Results \cup {None}
    /\ pc = "store" => unpackResult \in Results
    /\ err \in Errors /\ requeueAfter \in BOOLEAN
    /\ storedCatalog \in StoredCatalog \cup {None}
    /\ content \in Results \cup {None} /\ unpackDir \in BOOLEAN
    /\ registry \in [Refs -> Digests \cup {None}]
    /\ writes \in Nat /\ pushes \in Nat /\ faults \in Nat

Init ==
    /\ server = NoObject /\ cache = NoObject /\ events = {}
    /\ queued = FALSE /\ timer = FALSE /\ unreported = FALSE
    /\ pc = "idle" /\ existing = NoObject /\ catalog = NoObject
    /\ unpackResult = None /\ err = "none" /\ requeueAfter = FALSE
    /\ storedCatalog = None /\ content = None /\ unpackDir = FALSE
    /\ registry \in [Refs -> Digests \cup {None}]
    /\ writes = 0 /\ pushes = 0 /\ faults = 0

-------------------------------------------------------------------------------
(* The API server, its users and the registry.                               *)

\* A failure of kind f happens here.
Fault(f) == f \in Faults /\ faults < MaxFaults /\ faults' = faults + 1

\* The API server takes o as the next version and the watch will report it; a
\* deletion is a version too.
Commit(o) == /\ server' = AtVersion(o, server.rv + 1)
             /\ events' = events \cup {server'}

\* An object marked for deletion disappears with its last finalizer.
CommitFinalizers(fs) ==
    Commit(IF server.deleting /\ fs = {} THEN NoObject ELSE WithFinalizers(server, fs))

UserWrite == writes < MaxWrites /\ writes' = writes + 1

Create ==
    /\ ~server.exists /\ UserWrite
    /\ \E spec \in Specs : Commit(NewObject(spec))
    /\ UNCHANGED <<cache, queueVars, workerVars, storedCatalog, diskVars,
                   registry, pushes, faults>>

EditSpec ==
    /\ server.exists /\ UserWrite
    /\ \E spec \in Specs \ {server.spec} : Commit(WithSpec(server, spec))
    /\ UNCHANGED <<cache, queueVars, workerVars, storedCatalog, diskVars,
                   registry, pushes, faults>>

\* Deleting an object that has finalizers marks it; the foreground policy adds
\* a finalizer that the garbage collector of Kubernetes removes later.
Delete ==
    /\ server.exists /\ ~server.deleting /\ UserWrite
    /\ \E policy \in {{}} \cup (IF ForegroundDeletion THEN {{foregroundFinalizer}} ELSE {}) :
          LET fs == server.finalizers \cup policy
          IN  Commit(IF fs = {} THEN NoObject ELSE WithFinalizers(Deleting(server), fs))
    /\ UNCHANGED <<cache, queueVars, workerVars, storedCatalog, diskVars,
                   registry, pushes, faults>>

RemoveForegroundFinalizer ==
    /\ foregroundFinalizer \in server.finalizers
    /\ CommitFinalizers(server.finalizers \ {foregroundFinalizer})
    /\ UNCHANGED <<cache, queueVars, workerVars, storedCatalog, diskVars, envVars, faults>>

\* A tag is moved to another image.
Push ==
    /\ pushes < MaxPushes /\ pushes' = pushes + 1
    /\ \E ref \in Refs \ CanonicalRefs, d \in Digests \cup {None} :
          registry' = [registry EXCEPT ![ref] = d]
    /\ UNCHANGED <<serverVars, cache, queueVars, workerVars, storedCatalog, diskVars,
                   writes, faults>>

-------------------------------------------------------------------------------
(* The watch and the work queue.                                             *)

\* Faulty variant: the watch filters with a GenerationChangedPredicate.
DeliverEventOnNewGeneration ==
    /\ \E o \in events :
          /\ cache' = o /\ events' = {e \in events : e.rv > o.rv}
          /\ queued' = (queued \/ o.generation # cache.generation)
    /\ UNCHANGED <<server, timer, unreported, workerVars, storedCatalog, diskVars, envVars,
                   faults>>

\* The informer replaces its copy and enqueues the name.  It may skip versions
\* (a relist does) and never goes back.
DeliverEvent ==
    /\ \E o \in events : /\ cache' = o
                         /\ events' = {e \in events : e.rv > o.rv}
    /\ queued' = TRUE
    /\ UNCHANGED <<server, timer, unreported, workerVars, storedCatalog, diskVars, envVars,
                   faults>>

\* The informer's periodic resync.
Resync ==
    /\ cache.exists /\ queued' = TRUE
    /\ UNCHANGED <<serverVars, cache, timer, unreported, workerVars, storedCatalog, diskVars,
                   envVars, faults>>

PollTimer ==
    /\ timer /\ timer' = FALSE /\ queued' = TRUE
    /\ UNCHANGED <<serverVars, cache, unreported, workerVars, storedCatalog, diskVars, envVars,
                   faults>>

-------------------------------------------------------------------------------
(* Reconcile.                                                                *)

\* Reconcile reads the catalog from the informer's cache; a request for one
\* that is gone is dropped.
Get ==
    /\ pc = "idle" /\ queued
    /\ queued' = FALSE /\ unreported' = FALSE
    /\ \/ /\ cache.exists
          /\ pc' = "reconcile" /\ existing' = cache /\ catalog' = cache
          /\ UNCHANGED <<unpackResult, err, requeueAfter>>
       \/ /\ ~cache.exists
          /\ UNCHANGED workerVars
    /\ UNCHANGED <<serverVars, cache, timer, storedCatalog, diskVars, envVars, faults>>

\* reconcile returns error e, having set the catalog's status to s: the stored
\* metadata is dropped and the writes follow.
ReturnError(s, e) ==
    /\ catalog' = WithStatus(catalog, s)
    /\ err' = e /\ storedCatalog' = None /\ pc' = "status"
    /\ UNCHANGED requeueAfter

\* Faulty variant: the finalizer is not registered.
DeletesCacheWhenDisabled(c) == c.spec.availabilityMode = "Unavailable"

\* deleteCatalogCache is called for a disabled catalog, and by the finalizer.
DeletesCache(c) ==
    \/ c.spec.availabilityMode = "Unavailable"
    \/ c.deleting /\ fbcDeletionFinalizer \in c.finalizers

\* deleteCatalogCache, first half: Storage.Delete, which may fail after it has
\* removed the content.
StorageDelete ==
    /\ pc = "reconcile" /\ DeletesCache(catalog)
    /\ \/ /\ content' = None
          /\ catalog' = WithStatus(catalog,
                            updateStatusNotServing(catalog.status, catalog.generation))
          /\ pc' = "cleanup"
          /\ UNCHANGED <<err, requeueAfter, storedCatalog, faults>>
       \/ /\ Fault("disk")
          /\ content' \in {content, None}
          /\ ReturnError(updateStatusProgressing(catalog.status, catalog.generation,
                                                 "retryable"), "retryable")
    /\ UNCHANGED <<serverVars, cache, queueVars, existing, unpackResult, unpackDir, envVars>>

\* deleteCatalogCache, second half: Unpacker.Cleanup.  After it the finalizer is
\* taken off, and a disabled catalog is marked as such.
UnpackerCleanup ==
    /\ pc = "cleanup"
    /\ \/ /\ unpackDir' = FALSE /\ storedCatalog' = None
          /\ catalog' = WithFinalizers(
                WithStatus(catalog,
                    IF catalog.spec.availabilityMode = "Unavailable"
                    THEN updateStatusProgressingUserSpecifiedUnavailable(
                             catalog.status, catalog.generation)
                    ELSE catalog.status),
                catalog.finalizers \ {fbcDeletionFinalizer})
          /\ pc' = "status"
          /\ UNCHANGED <<err, requeueAfter, faults>>
       \/ /\ Fault("disk")
          /\ ReturnError(updateStatusProgressing(catalog.status, catalog.generation,
                                                 "retryable"), "retryable")
          /\ UNCHANGED unpackDir
    /\ UNCHANGED <<serverVars, cache, queueVars, existing, unpackResult, content, envVars>>

\* Finalizers.Finalize on a catalog that is not being deleted.
AddFinalizer ==
    /\ pc = "reconcile" /\ ~DeletesCache(catalog)
    /\ ~catalog.deleting /\ fbcDeletionFinalizer \notin catalog.finalizers
    /\ catalog' = WithFinalizers(catalog, catalog.finalizers \cup {fbcDeletionFinalizer})
    /\ pc' = "status"
    /\ UNCHANGED <<serverVars, cache, queueVars, existing, unpackResult, err,
                   requeueAfter, storedCatalog, diskVars, envVars, faults>>

\* Faulty variant: reconcile goes on without waiting for the finalizer.
FinalizedOrNew(c) == ~DeletesCache(c)

\* Finalize had nothing to do: the catalog has its finalizer, or it is being
\* deleted and has lost it.
Finalized(c) ==
    /\ ~DeletesCache(c)
    /\ fbcDeletionFinalizer \in c.finalizers \/ c.deleting

\* The status the catalog has when its stored content is being served.
getCurrentState(c) ==
    updateStatusProgressing(
        updateStatusServing(c.status, storedCatalog.unpackResult,
                            storedCatalog.observedGeneration),
        storedCatalog.observedGeneration, "none")

\* The first four reasons to unpack are absent.
UpToDate(c) ==
    /\ storedCatalog # None
    /\ content # None
    /\ c.status = getCurrentState(c)
    /\ c.generation = storedCatalog.observedGeneration

\* The last one is that the poll interval has elapsed.
needsUnpack(c, pollDue) == UpToDate(c) => c.spec.poll /\ pollDue

\* The catalog is served as it should be: only the next poll is scheduled.
SkipUnpack ==
    /\ pc = "reconcile" /\ Finalized(catalog)
    /\ \E pollDue \in BOOLEAN : ~needsUnpack(catalog, pollDue)
    /\ requeueAfter' = catalog.spec.poll
    /\ pc' = "status"
    /\ UNCHANGED <<serverVars, cache, queueVars, existing, catalog, unpackResult, err,
                   storedCatalog, diskVars, envVars, faults>>

\* Faulty variant: the label is not looked at.
AnyImage(ref) == TRUE

\* The reference resolves to an image that has the catalog label.
IsCatalogImage(ref) == registry[ref] # None

\* Unpacker.Unpack.  An image without the catalog label is an error, terminal
\* when the reference names its digest.  A failed unpack can leave a directory.
Unpack ==
    /\ pc = "reconcile" /\ Finalized(catalog)
    /\ \E pollDue \in BOOLEAN : needsUnpack(catalog, pollDue)
    /\ LET ref == catalog.spec.ref
           Fail(e) == /\ ReturnError(updateStatusProgressing(catalog.status,
                                         catalog.generation, e), e)
                      /\ unpackDir' \in {unpackDir, TRUE}
                      /\ UNCHANGED unpackResult
       IN  \/ /\ IsCatalogImage(ref)
              /\ unpackResult' = [ref |-> ref, digest |-> registry[ref]]
              /\ unpackDir' = TRUE /\ pc' = "store"
              /\ UNCHANGED <<catalog, err, requeueAfter, storedCatalog, faults>>
           \/ /\ ~IsCatalogImage(ref)
              /\ Fail(IF ref \in CanonicalRefs THEN "terminal" ELSE "retryable")
              /\ UNCHANGED faults
           \/ Fault("registry") /\ Fail("retryable")
    /\ UNCHANGED <<serverVars, cache, queueVars, existing, content, envVars>>

\* Storage.Store replaces the content as a whole or leaves it.
Store ==
    /\ pc = "store"
    /\ \/ /\ content' = unpackResult
          /\ catalog' = WithStatus(catalog,
                updateStatusServing(
                    updateStatusProgressing(catalog.status, catalog.generation, "none"),
                    unpackResult, catalog.generation))
          /\ storedCatalog' = [observedGeneration |-> catalog.generation,
                               unpackResult |-> unpackResult]
          /\ requeueAfter' = catalog.spec.poll
          /\ pc' = "status"
          /\ UNCHANGED <<err, faults>>
       \/ /\ Fault("disk")
          /\ ReturnError(updateStatusProgressing(catalog.status, catalog.generation,
                                                 "retryable"), "retryable")
          /\ UNCHANGED content
    /\ UNCHANGED <<serverVars, cache, queueVars, existing, unpackResult, unpackDir, envVars>>
-------------------------------------------------------------------------------
(* The two writes at the end of Reconcile.  The API server accepts a write    *)
(* only from a catalog at its current resourceVersion; a write can also fail, *)
(* or succeed without the reply arriving.                                     *)

\* Faulty variant: writes carry no resourceVersion.
Unconditional == server.exists

Accepted == catalog.rv = server.rv

\* Status().Update.  Its reply overwrites the catalog, finalizers excepted.
UpdateStatus ==
    /\ pc = "status" /\ pc' = "finalizers"
    /\ \/ /\ catalog.status = existing.status
          /\ UNCHANGED <<serverVars, catalog, err, faults>>
       \/ /\ catalog.status # existing.status /\ Accepted
          /\ Commit(WithStatus(server, catalog.status))
          /\ \/ /\ catalog' = WithFinalizers(server', catalog.finalizers)
                /\ UNCHANGED <<err, faults>>
             \/ /\ Fault("reply") /\ err' = Join(err, "retryable")
                /\ UNCHANGED catalog
       \/ /\ catalog.status # existing.status
          /\ \/ ~Accepted /\ UNCHANGED faults
             \/ Fault("api")
          /\ err' = Join(err, "retryable")
          /\ UNCHANGED <<serverVars, catalog>>
    /\ UNCHANGED <<cache, queueVars, existing, unpackResult, requeueAfter, storedCatalog,
                   diskVars, envVars>>

\* The locals of Reconcile go out of scope.
Leave ==
    /\ pc' = "idle" /\ existing' = NoObject /\ catalog' = NoObject
    /\ unpackResult' = None /\ err' = "none" /\ requeueAfter' = FALSE

\* An error e that is not retried was to be reported in the status, and no reply to
\* the write has come.
Unreported(e) ==
    e = "terminal" /\ catalog.status # existing.status /\ catalog.rv = existing.rv

\* Faulty variant: errors are not handed to controller-runtime.
ReturnSwallowed(e) ==
    /\ Leave
    /\ UNCHANGED queued
    /\ timer' = (timer \/ requeueAfter)
    /\ unreported' = Unreported(e)

\* Reconcile returns error e: controller-runtime queues the name again after an
\* error unless it is terminal, and after requeueAfter without one.
Return(e) ==
    /\ Leave
    /\ queued' = (queued \/ e = "retryable")
    /\ timer' = (timer \/ (e = "none" /\ requeueAfter))
    /\ unreported' = Unreported(e)

\* Update, for the finalizers.
UpdateFinalizers ==
    /\ pc = "finalizers"
    /\ \/ /\ catalog.finalizers = existing.finalizers
          /\ Return(err)
          /\ UNCHANGED <<serverVars, faults>>
       \/ /\ catalog.finalizers # existing.finalizers /\ Accepted
          /\ CommitFinalizers(catalog.finalizers)
          /\ \/ Return(err) /\ UNCHANGED faults
             \/ Fault("reply") /\ Return(Join(err, "retryable"))
       \/ /\ catalog.finalizers # existing.finalizers
          /\ \/ ~Accepted /\ UNCHANGED faults
             \/ Fault("api")
          /\ Return(Join(err, "retryable"))
          /\ UNCHANGED serverVars
    /\ UNCHANGED <<cache, storedCatalog, diskVars, envVars>>

\* The process dies and starts again: the informer lists, everything found is
\* enqueued.  The cache volume is an emptyDir: it survives the container and
\* dies with the pod.  A crash in the middle of an unpack leaves its directory.
Restart ==
    /\ \/ /\ Fault("crash")
          /\ unpackDir' \in {unpackDir} \cup
                (IF pc = "reconcile" /\ Finalized(catalog) THEN {TRUE} ELSE {})
          /\ UNCHANGED content
       \/ /\ Fault("podReplaced")
          /\ unpackDir' = FALSE /\ content' = None
    /\ cache' = server /\ events' = {} /\ queued' = server.exists /\ timer' = FALSE
    /\ unreported' = FALSE /\ Leave /\ storedCatalog' = None
    /\ UNCHANGED <<server, envVars>>

-------------------------------------------------------------------------------

Reconcile == \/ Get \/ StorageDelete \/ UnpackerCleanup \/ AddFinalizer
             \/ SkipUnpack \/ Unpack \/ Store \/ UpdateStatus \/ UpdateFinalizers

Users == Create \/ EditSpec \/ Delete

Next == \/ Users \/ RemoveForegroundFinalizer \/ Push
        \/ DeliverEvent \/ Resync \/ PollTimer
        \/ Reconcile \/ Restart

Spec == Init /\ [][Next]_vars

\* The worker runs, the watch delivers, timers fire, and Kubernetes removes the
\* foreground finalizer.  Nothing is assumed of users, pushes, resyncs, faults.
Fairness == /\ WF_vars(Reconcile) /\ WF_vars(DeliverEvent) /\ WF_vars(PollTimer)
            /\ WF_vars(RemoveForegroundFinalizer)

FairSpec == Spec /\ Fairness

-------------------------------------------------------------------------------
(* Properties.                                                               *)

\* What the controller keeps on disk for a catalog is always covered by the
\* finalizer that will remove it: whatever users, crashes and stale reads do,
\* the object cannot disappear while content or an unpack directory is left.
NoOrphan ==
    content # None \/ unpackDir => fbcDeletionFinalizer \in server.finalizers

Quiescent == pc = "idle" /\ ~queued /\ events = {}

\* The catalog is in the state its spec asks for, on disk and in its status.
Settled ==
    LET s == server.status
        g == server.generation
    IN  CASE server.spec.availabilityMode = "Unavailable" ->
               /\ content = None /\ ~unpackDir
               /\ fbcDeletionFinalizer \notin server.finalizers
               /\ s = [progressing |-> "Disabled", progressingGen |-> g, resolved |-> None,
                       serving |-> "UserSpecifiedUnavailable", servingGen |-> g]
          [] OTHER ->
               /\ fbcDeletionFinalizer \in server.finalizers
               /\ ~server.deleting
               /\ content # None /\ content.ref = server.spec.ref
               /\ s = [progressing |-> "Succeeded", progressingGen |-> g,
                       resolved |-> content, serving |-> "Available", servingGen |-> g]

\* A terminal error is not retried, also not when the write of the status that was
\* to report it failed: the image of a reference by digest is unusable, and the
\* status may not say so.
UnreportedTerminal ==
    unreported /\ server.spec.ref \in CanonicalRefs /\ registry[server.spec.ref] = None

\* Nothing else is forgotten: when the controller has nothing left to do, the
\* catalog is settled, or its status says that it is Blocked, or it is gone with
\* all that was kept for it.
QuiescentSettled ==
    Quiescent =>
        \/ server.exists /\ Settled
        \/ server.exists /\ server.status.progressing = "Blocked"
                         /\ server.status.progressingGen = server.generation
        \/ server.exists /\ UnreportedTerminal
        \/ ~server.exists /\ content = None /\ ~unpackDir /\ storedCatalog = None

\* A status never goes back to an older generation, and never claims one that
\* does not exist: a reconcile that read a stale catalog cannot write it.
GenerationsAdvance ==
    [][server.exists /\ server'.exists =>
        /\ server.status.servingGen <= server'.status.servingGen
        /\ server.status.progressingGen <= server'.status.progressingGen
        /\ server'.status.servingGen <= server'.generation]_vars

\* When a status is written that says Succeeded and Available, the content it
\* describes is the content on disk.
SucceededIsStored ==
    [][server'.status # server.status =>
        (server'.status.progressing = "Succeeded" /\ server'.status.serving = "Available"
            => server'.status.resolved = content /\ content # None)]_vars

\* "In the case that the Serving condition is True with reason Available and
\* Progressing is True with reason Retrying, the previously fetched catalog
\* contents are still being served": when a status is written that says so, there
\* is content to serve.
RetryingStillServed ==
    [][server'.status # server.status =>
        (server'.status.progressing = "Retrying" /\ server'.status.serving = "Available"
            => content # None)]_vars

\* reconcile's comment "On delete: make sure we do nothing after the finalizer is
\* removed": nothing is stored for a catalog that is being deleted once its
\* finalizer has run, which the status tells, and has been removed.
NothingAfterFinalizerRemoved ==
    [][/\ server.deleting /\ fbcDeletionFinalizer \notin server.finalizers
       /\ server.status.serving = "Unavailable"
       => content' \in {content, None}]_vars

\* Once users, pushes and failures stop, the catalog settles and stays settled,
\* or its image stays unusable.
Converges ==
    <>[](server.exists => Settled \/ registry[server.spec.ref] = None)

\* A deletion completes.
DeletionCompletes ==
    server.exists /\ server.deleting ~> ~server.exists

===============================================================================

# catalogd in TLA+

catalogd serves file-based catalogs (FBC) to a Kubernetes cluster. A user writes
a `ClusterCatalog` that names an image; a controller unpacks the image, stores
its content as one file and serves the file over HTTP. This directory models
that system from its Go source, model-checks the models with TLC and proves
theorems about them with TLAPS. `PROJECT.json` lists the runs, the theorems and,
for each definition, the lines of the source it stands for.

## The system

| part | source | state | operations |
|---|---|---|---|
| ClusterCatalog controller | `internal/controllers/core/clustercatalog_controller.go` | `storedCatalogs`, a map in memory; status and finalizers in the API server | `Reconcile`: delete the cache of a disabled or deleted catalog, add the finalizer, decide whether to unpack, unpack, store, write the status, write the finalizers |
| image unpacker | `internal/source/containers_image.go` | `unpack/<catalog>/<digest>/` on the cache volume | `Unpack`, `Cleanup` |
| content storage | `internal/storage/localdir.go` | `catalogs/<catalog>/api/v1/all`, temporary files | `Store`, `Delete`, `ContentExists`, the HTTP handler |
| garbage collector | `internal/garbagecollection/garbage_collector.go` | none of its own | list catalogs, read the cache directory, remove what has no catalog |
| pull secret controller | `internal/controllers/core/pull_secret_controller.go` | the auth file | write it, remove it |
| catalog server | `internal/serverutil`, `internal/third_party/server` | listener, open requests | start, shut down |
| API types | `api/v1/clustercatalog_types.go` | the object | validation rules of the API server |
| webhook, manager, utilities | `internal/webhook`, `cmd/manager`, `internal/{k8sutil,features,metrics,version}` | none that matters here | defaulting of one label, flags and wiring |

How they interact. The controller reads the object from an informer cache that
lags the API server. It calls the unpacker, then the storage, one catalog at a
time. HTTP requests read the storage meanwhile. The unpacker reads the auth file
that the pull secret controller writes. The garbage collector removes
directories of the unpacker. The cache volume is an `emptyDir`
(`config/base/manager/manager.yaml:91`): it survives a restart of the container
and not a replacement of the pod. On a stop the manager ends the server, then the
controllers; when it is the kubelet that stops the pod, it kills what is left after
the pod's grace period.

What is hard, and what makes each part correct:

* **Controller.** Stale reads, two writes that fail one by one, replies that are
  lost, crashes between disk, memory and API server, users who edit, disable and
  delete meanwhile. Correct means: nothing on disk outlives its object
  (`NoOrphan`), the controller never stops with work left (`QuiescentSettled`),
  statuses never go back (`GenerationsAdvance`) and never claim what is not
  there (`SucceededIsStored`, `RetryingStillServed`), everything settles (`Converges`) and deletions
  complete (`DeletionCompletes`).
* **Unpacker.** Many steps on disk, each of which can fail or be cut by a crash,
  and a tag that moves in the registry. Correct means: a result is a complete
  image (`UnpackedIsComplete`, `OnlyLeftoversIncomplete`), a directory holds what
  its name says (`ResolvedIsExact`, `OnlyMovedTagsMixUp`), old images go (`OneImageKept`), but not
  before the new one is complete (`OldKeptUntilNew`).
* **Storage.** Readers while the file is replaced. Correct means an atomic view
  (`AtomicView`, `ServedIsWhole`) and no litter (`TempsRemoved`).
* **Polling.** Times of three kinds (the clock, whole seconds in the API, the
  modification time of a directory), a delaying queue that drops what is not in
  the future, a cache that lags, and the controller's own status writes that come
  back as events and conflict with what it read before them. Correct means: polls are not late (`PolledInIntervals`) and not early
  (`NotPolledEarly`), the controller comes to rest (`AtRestAsExpected`), and the
  time of the last extraction is not advanced without one
  (`LastUnpackedByExtraction`).
* **Garbage collector.** Listings that are old when they are used; read-only
  directories. Correct means that it leaves alone what belongs to a catalog
  (`CollectsMissedOnly`), that nothing is served incomplete because of it
  (`ServedComplete`) and that what was missed goes (`StaleCollected`,
  `NoStaleEntries`).
* **Pull secret.** A file rewritten in place while it is read; a removal at
  shutdown. Correct means that the file follows the secret
  (`FileFollowsSecret`), that pulls get over a file that is being written
  (`PullsSucceed`), and that a process that ends well leaves no file
  (`NoCredentialsLeft`).
* **Server.** Four limits on a download, three of them shorter than the longest
  response. Correct means that nothing else cuts it (`DownloadsFinish`) and that a download
  that hangs does not keep `Start` (`StartEnds`).
* **Layer filter.** A pure function of two paths, against a definition of what it
  is to compute (`KeepsSubtree`).

`PROJECT.json` lists these under "hazards", each at its line.

## Modules

### `CatalogStatus`, `ClusterCatalogController`

One catalog name: the reconciler shares no state between names, and
controller-runtime never reconciles one name twice at a time.

* `server`, `cache` and `events` are the object in the API server, the
  informer's copy and the versions the watch has yet to deliver. A write is
  accepted when it carries the current resourceVersion (`Accepted`). Deleting
  an object with finalizers marks it; it goes with its last finalizer.
* `queued` and `timer` are the work queue and its delayed entries. An error
  queues the name again unless it is a `TerminalError`; `RequeueAfter` starts
  the timer (`Return`).
* `pc`, `existing`, `catalog`, `unpackResult`, `err` and `requeueAfter` are the
  locals of `Reconcile`. It is cut into steps at each call that leaves the
  process:

  | action | code |
  |---|---|
  | `Get` | read from the cache, ignore not found |
  | `StorageDelete`, `UnpackerCleanup` | `deleteCatalogCache`, for a disabled catalog and in the finalizer |
  | `AddFinalizer` | `Finalizers.Finalize` on create, and the early return |
  | `SkipUnpack` | none of the five reasons to unpack holds |
  | `Unpack`, `Store` | the rest of `reconcile` |
  | `UpdateStatus`, `UpdateFinalizers` | the two writes; the reply of the first overwrites everything but the finalizers |

* `storedCatalog`, `content` and `unpackDir` are the entry of `storedCatalogs`,
  the stored file and the unpack directory.
* A status is the reason and observedGeneration of its two conditions, and the
  result its other fields were taken from. The condition's status follows from
  its reason; messages are dropped, except that the two messages of
  `Succeeded` are two reasons.
* `Restart` is a crash of the container (the disk stays) or a replacement of the
  pod (the disk is lost). Memory is lost in both.
* The poll clock is nondeterministic: a poll may be due at any time.
  `CatalogPolling` has the clock.
* The history variable `unreported` says that the last reconcile ended in a
  terminal error and that its write of the status failed (`Unreported`); the next
  reconcile clears it.

### `ImageUnpack`

`ContainersImageRegistry` for one catalog. A directory is known by the image it
was filled from, the number of layers in it and whether it is read-only.
`Unpack` is the sequence `Resolve`, `Copy`, `UnpackImage`, `ApplyLayer` (once a
layer), `SetReadOnlyRecursive`, `DeleteOtherImages` (once a directory), with
`Discard` after a failure. `Crash` can come between any two of them. An
interrupted `deleteRecursive` leaves the directory whole or damaged
(`Remains`). Two history variables say what the properties except: `moved`, the
digests whose last pull was by tag and found the tag moved since it was resolved,
and `leftover`, the digests whose directory was left by a crash or a failing
deletion and is still there.

The temporary OCI layout is kept as the image that was pulled into it (`layout`).
Its directory is a new one for each call, in `os.TempDir` and so in the container's
own file system (only `/var/cache` is a volume): a crash takes it away with the
container, the deferred removal takes it away otherwise, and if that fails nothing
reads it again. It is not modelled as a directory that can stay.

### `LayerFilter`

`applyLayerFilter`, with `path.Clean` and `filepath.Rel` as functions on the
elements of a path; names that begin with two dots are told from `..`. The
reference definition (`Follow`) walks a path from the root of the image,
directory by directory.

### `LocalDir`, `AtomicStore`

`LocalDirV1` for one catalog. `WalkMetasFS` hands the metas of a catalog to `Store`
in no fixed order, so a whole file is the metas of one catalog, each once, in any
order (`Wholes`). Files are inodes: `Rename` and `Delete` change
names, a request that has opened a file keeps it. `Store` is `BeginStore`,
`WriteMeta` (once a meta) and `Rename`; a request is `Open`, `Read` (once a
part) and `Reply`. `AtomicStore` is what the comment on `LocalDirV1` promises:
content is replaced and removed as a whole, and a response is the content when
the request was opened. `LocalDir` implements it with the mapping `Content`,
`Reading`, `View`. The history variable `leaked` holds the temporary files whose
removal failed or was cut by a crash.

### `CatalogPolling`

The same reconciler as `ClusterCatalogController`, for the question *when*: the
clock in ticks, `Second` of them to a second; `needsPoll` and `nextPollResult`
with its jitter; the delaying queue (`timer`, `AddAfter`); the truncation in
`successResult` and the way of the status through the API server
(`Serialized`); conditions of other types (`AddCondition`,
`clearUnknownConditions`). `Reconcile`, `Unpack` and `Store` are three steps
between which time passes. `Reconcile` reads `cache`, the informer's copy, which
the watch brings up to date version by version (`events`, `Deliver`), at any time
after the write; `latest` says whether what was read still is what the API server
has. A status write from an old read conflicts, and the name is queued again. The
history variable `disturbed` says that the last reconcile that ran to its end had
an old read, or that the catalog was changed or the metadata lost since. Other
failures and deletion are left to `ClusterCatalogController`.

### `GarbageCollector`

The collector's pass as the steps `List`, `ReadDir`, `NextEntry` (once an
entry), `Unlink` (once a file) and `Rmdir`, composed with the reconciler's steps
on the same cache for several catalogs: `BeginUnpack`, `ApplyLayer`,
`SetReadOnlyRecursive`, `Discard`, `Store`, `Finalize`, `RemoveFinalizer`. The list
of catalogs, the listing of the directory, a layer, the deletion of the cache and
the write of the finalizer can fail. `RemoveAll` cannot take
files out of a read-only directory, because the manager does not run as root
(`config/base/manager/manager.yaml`). `Orphan` is why there is a collector: an
object that went without its finalizer having run for the last time. The history
variable `raced` holds the catalogs that were created before the pass under way came
to a directory of their name, or orphaned while they were worked on, until they are
stored whole or cleaned up.

### `PullSecret`

The secret, the informer's copy, `PullSecretReconciler` and the auth file, with
`os.WriteFile` as two steps; image pulls, which look whether the file exists and
read it at each access to the registry; the stop of the manager and the removal
of the file in `main`. A work queue that is shut down takes no new requests and hands
out those it has, and the manager waits until the controllers have worked them off:
`Get` runs while the process is stopping, and the file is removed after that. Two
things the model shows without a property: a secret
that loses its key leaves the old file in place, and `main` ends with 1 after an
orderly stop when there is no auth file to remove.

### `CatalogServer`

`Server.Start` and its shutdown goroutine as the manager runs them. `Serve`
returns as soon as the listener is closed; `Shutdown` returns when no request is
left or its timeout ends; the manager stops the server first, then the
controllers, and gives up after its grace period. A request fails when it is not
answered by the server's `WriteTimeout` (`WriteFails`). The manager stops by itself
(`Stop`, a runnable failed) or at the kubelet's signal (`Terminate`), after which the
kubelet waits for the pod's grace period and kills the process (`Kill`). Time since
each began is counted up to its limit.

With the shipped manifest the pod's grace period, 10 seconds
(`config/base/manager/manager.yaml:88`), ends before the `ShutdownTimeout` of 30
(`internal/serverutil/serverutil.go:41`): when the pod is stopped, a longer download
is cut by the kubelet and the timeout is never reached. The run has the limits in
this order; the theorem holds for any.

### Faulty variants

Definitions introduced by "Faulty variant" are not part of a model. Each is the
model of a plausible mistake in the code (a dropped guard, a missing removal, an
unconditional write); with it in place of the definition after it, the property
that guards against the mistake fails.

## Runs

| run | expected | shows |
|---|---|---|
| `Controller` | pass | `TypeOK`, `NoOrphan`, `QuiescentSettled`, `GenerationsAdvance`, `SucceededIsStored` with three user writes, a moved tag and one failure of any kind or restart |
| `ControllerLiveness` | pass | `Converges`, `DeletionCompletes` |
| `ControllerForeground` | violation | a catalog kept by another finalizer is stored again after its own has run |
| `ControllerRetrying` | violation | a replaced pod without its registry says Available and Retrying and serves nothing (`RetryingStillServed`) |
| `Pulling` | pass | unpacker: `TypeOK`, `OnlyLeftoversIncomplete`, `OnlyMovedTagsMixUp`, `OneImageKept`, `OldKeptUntilNew` with failing pulls, writes and deletions and crashes; pull secret: `SecretTypeOK`, `FileFollowsSecret`, `NoCredentialsLeft`, `PullsSucceed`; layer filter: `KeepsSubtree` |
| `ImageUnpackCrash` | violation | a partial directory is returned as an unpacked image (`UnpackedIsComplete`) |
| `ImageUnpackMovedTag` | violation | the digest that is reported is not that of the image that was extracted (`ResolvedIsExact`) |
| `Serving` | pass | storage: `TypeOK`, `ServedIsWhole`, `TempsRemoved`, `AtomicView` with failing writes and removals and crashes; server: `ServerTypeOK`, `DownloadsFinish`, `StartEnds` |
| `Polling` | pass | `TypeOK`, `PolledInIntervals`, `NotPolledEarly`, `AtRestAsExpected`, `LastUnpackedByExtraction` while `Store` is shorter than the interval |
| `GarbageCollector` | pass | `TypeOK`, `ServedComplete`, `StaleCollected` |
| `GarbageCollectorReadOnly` | violation | the read-only image of a catalog that is gone stays (`NoStaleEntries`) |
| `GarbageCollectorCreated` | violation | a catalog created between the two listings of a pass loses its directory (`CollectsMissedOnly`) |

`Pulling` and `Serving` run several components. They share no variables, so nothing
is gained by interleaving them: the initial state chooses one (`part`), which runs
under its own next-state relation while the others stand still.

The violations are disagreements between the code and a comment; "findings" in
`PROJECT.json` quotes both sides.

**What the passing properties except.** Where the code does not do all one might
ask, the property that holds names the exception, and everything outside it is
checked:

* `QuiescentSettled` (`UnreportedTerminal`): a terminal unpack error stays
  terminal when it is joined with a failed status write, so it is not retried,
  and the status does not say Blocked until something else enqueues the catalog. Only
  this is excepted: the last reconcile ended so, and the digest is still unusable.
* `OnlyLeftoversIncomplete`, `OneImageKept` (`leftover`): what a crash or a
  failing deletion left is taken for an unpacked image, and is not removed before
  the next digest.
* `OnlyMovedTagsMixUp` (`moved`): the digest is resolved from the tag first and
  the image pulled by the tag afterwards, so a tag that moves in between puts the
  new image under the old digest. Only the directory of that pull is excepted, and
  only until the digest is pulled again; `ImageUnpackMovedTag` shows the case.
* `PolledInIntervals` (`MaxStore` below the intervals): the next poll is counted
  from before `Store`; when `Store` takes longer than interval and jitter, the
  requeue is not positive, controller-runtime drops it, and polling stops.
* `NotPolledEarly` (`events`, `disturbed`, `unknown`): a reconcile that reads the
  catalog before the watch has reported the last status write finds a status it does
  not expect and unpacks; so does one after an edit, after a restart, or after a
  reconcile that had such an old read. Once the watch has caught up and a reconcile
  has read the catalog as it is, polls are not early.
* `AtRestAsExpected` (`unknown`): with a condition of another type in its status
  a catalog is unpacked again at every reconcile.
* `LastUnpackedByExtraction`: a poll that finds the image unpacked sets
  `lastUnpacked` back, to the modification time of the directory.
* `ServedComplete` (`raced`): a catalog created after the `List` of a pass and
  before the pass comes to a directory of its name can lose files while it is
  unpacked, and is then served without them until it is stored whole.
  `GarbageCollectorCreated` shows how.
* `StaleCollected` (`Stuck`): a read-only entry, and those sorted after it, stay.
* `TempsRemoved` (`leaked`): nothing removes these files later.

**Bounds.** `MaxWrites`, `MaxPushes`, `MaxEdits`, `MaxFaults`, `MaxSyncFaults`,
`MaxFiles` stop users, the registry, failures and stores; the controller itself is
not bounded. Three writes let a user create a catalog, change it and delete it, or disable and
enable it, while a reconcile of the first version is still under way. Two image
references (a polled tag, a digest), two digests and a disabled spec give all
the transitions between specs. Three images, one without the label, and two
layers give a partial directory, an old image and a rejected one. Files of two and
no metas and two requests give readers on both sides of a rename. Digests are
symmetric in `Controller` and in `Polling`: they are compared with one another only.
No other run uses symmetry; `ControllerLiveness` has one digest.

`Polling`: intervals of two and three seconds, half a second of precision below
the API's, jitter, unpack and store of up to a second, seven seconds and two edits,
pushes, resyncs, foreign conditions or restarts give two or three polls in a row
with an interruption at each point, and reads that are one or two versions old. `GarbageCollector`: two catalogs of two
layers, created three times in all, so that a name comes back while the pass that
missed it still runs; two entries are what it takes for one removal to hold up
another. `PullSecret`: two versions, three edits or rotations, two failures.
`CatalogServer`: two requests; the shutdown timeout and the manager's grace period
are three ticks because both are 30 seconds, the pod's grace period is one tick (10
seconds) and the write timeout four, longer than all (5 minutes); the counters stop
at their limits, so time is not bounded. `LayerFilter`: labels and names of up to
three elements, over two names, `..`, `.` and nothing, which is every way to go up,
down and nowhere.

`CHECK_DEADLOCK FALSE` where the system comes to rest: the controller without a
catalog or with the bounds used up, the clock at its bound. In `Pulling`, `Serving`
and `GarbageCollector` deadlock is checked; a process that has ended and a filter
that has been asked are the only states to stay in (`Ended`).

**Fairness.** In the controller `Fairness` asks that a reconcile that can take a
step takes it (the worker goroutine runs), that the watch delivers, that a timer
fires and that Kubernetes removes its foreground finalizer. In
`GarbageCollector` it asks that the collector's loop goes on, which is left only
when the process stops. In `PullSecret` (`SecretFairness`): that the watch delivers,
that the worker goroutines of the two controllers run, and that catalogs are polled.
In `CatalogServer` (`ServerFairness`): that the goroutines of `Start` run and that time
passes; not that a download ends or fails, nor that the manager or the kubelet gives
up on it. Nothing is asked
of users, pushes, resyncs or failures anywhere.

## Theorems

Proved for all values of the constants that satisfy the assumption named in each
module (`ControllerAssumption`, `LocalDirAssumption` and so on): any number of
references, digests, specs, catalogs, layers, requests, versions, edits and
failures, any intervals and durations, paths of any length. Every invariant,
action property and refinement that a passing run checks has its theorem.

* `TypeCorrect` (`ControllerReadProofs`): `Spec => []TypeOK`.
* `GenerationsNeverGoBack`, `SucceededStatusIsStored`
  (`ControllerStatusProofs`): the two action properties.
* `NothingOrphaned` (`ControllerFinalizerProofs`):
  `~ForegroundDeletion => (Spec => []NoOrphan)`. With foreground deletions it is
  false, which is what `ControllerForeground` is about.
* `NothingForgotten` (`ControllerSettledProofs`):
  `~ForegroundDeletion => (Spec => []QuiescentSettled)`. With foreground deletions
  it is false for the same reason: a deleted catalog that is unpacked again leaves
  its directory behind when the process crashes then.
* `LocalDirTypeCorrect`, `AlwaysWhole`, `LocalDirIsAtomic` (`LocalDirProofs`):
  type correctness, `[]ServedIsWhole`, and that `LocalDir` implements
  `AtomicStore`. `StoreCleansUp`: `[]TempsRemoved`.
* `CatalogServerTypeCorrect`, `DownloadsFinishAlways` (`LocalDirProofs`): the
  server that sends the files, for any number of requests and any timeouts.
* `ImageUnpackTypeCorrect`, `OnlyMovedTagsMixUpAlways`,
  `OnlyLeftoversIncompleteAlways`, `OneImageKeptAlways`, `OldKeptUntilNewAlways`
  (`ImageUnpackProofs`), under all faults.
* `PullSecretTypeCorrect`, `FileFollowsSecretAlways`, `NoCredentialsLeftAlways`
  (`ImageUnpackProofs`): the credentials the unpacker pulls with.
* `PollingTypeCorrect`, `AlwaysAtRestAsExpected`, `NeverPolledEarly`,
  `LastUnpackedByExtractionAlways` (`CatalogPollingProofs`);
  `AlwaysPolledInIntervals` from `StoreIsShort`, that `Store` takes at least a
  second less than every interval. The second is what truncation can take off the
  time of the last poll.
* `GarbageCollectorTypeCorrect`, `ServedCompleteAlways` (`UnpackCacheProofs`):
  `Spec => []TypeOK` and `Spec => []ServedComplete`.
* `SubtreeKept` (`UnpackCacheProofs`): `FilterSpec => []KeepsSubtree`, for any
  names and for labels and names of any length and spelling.

`LocalDirProofs`, `ImageUnpackProofs` and `UnpackCacheProofs` each extend the
modules of two components. The second one's specification has names of its own for
that (`ServerSpec`, `SecretSpec`, `FilterSpec`); the theorems about the one do not
use the other.

**The argument for the controller.** None of the properties is inductive. A
reconcile acts on what it read some time ago, so the invariant relates that
reading to what the API server and the watch have since. `WatchInv`: pending
versions are ordered, have distinct resourceVersions and end in the server's.
`ReadInv`: no version older than the one read can be read again, and versions
up to the one the reconcile holds agree with it in everything but status; so an
accepted write overwrites exactly what was read. `LocalInv`: what the steps so
far have done to the local copy. From these, `GenerationsInv` and `StoredInv`
bound the status about to be written. For `NoOrphan`, `Covered` says that without
foreign finalizers a catalog marked for deletion still has the controller's own;
`OrphanInv` says that once the finalizer is off the server's object no version
that can still be read would let a reconcile store anything, and that the
finalizer is on its way off only when the disk is clean.

`QuiescentSettled` speaks of states in which nothing is under way, and any of the
reconciles before may have been the last, so the invariant says of each of them
what it leaves behind. `IncarnationInv`: while the finalizer is on, every version
that can be read belongs to the same object, and a generation stands for one spec.
`MetadataInv`: the entry of `storedCatalogs` describes the content on disk and the
reference of the generation it names; so when none of the five reasons to unpack
holds, the catalog really is stored. It needs `IncarnationInv`, because a catalog
created again under the same name starts at the same generations. `OutcomeInv`: a
reconcile that is about to return without an error and without having changed
anything read a settled catalog, and one that returns a terminal error found an
unusable digest and has Blocked in its local status. `CurrentInv`: what was read is
what the cache holds unless another request is queued, and a status that was to be
written was written unless that write failed, which leaves the local copy at the
version that was read and an error behind. The last step of the last reconcile
(`LastReturn`) then has one of three outcomes: settled, Blocked, or
`UnreportedTerminal`.

**The argument for storage.** `WriteInv`: the temporary file is a prefix of the
catalog being stored. `ServedInv`: the served file is whole and is no temporary
file, so nothing writes to it. `ReaderInv`: what a request has copied is a prefix
of the file it opened, which is no temporary file either. `TempInv`: between
stores the temporary files are the leaked ones, during one there is one more.
Each step then maps to
a step of `AtomicStore` (`Rename` to `Put`, `Delete` to `Remove`, `Crash` to
`Drop`, `Open` and `Reply` to theirs) or changes nothing a client sees.

**The argument for the unpacker.** What a directory holds is decided at the pull.
`TagInv`: until then the reference still names the digest that was resolved, or
the tag was moved during this very call. `CompleteInv`: every directory but the one being filled and
the leftovers is complete, and a leftover is a directory that exists, so that an
image pulled again is not excused. `OneInv`: there is at most one such complete
directory until the new one is complete. `FillInv`: the new one is made read-only
last, and is complete while the others are removed.

**The argument for polling.** `CacheInv`: no version that is cached, pending or read is
ahead of the API server, each has the interval of its generation, the last pending
one is the server's, and what is `latest` is what the server has; so an old read can
cost an extra poll, never a wrong requeue for the current generation. `LastPollInv`: the time of the last poll is the
second in which the last `Unpack` returned. `PollInv`: a catalog with current
metadata is queued, or has a timer no later than interval and jitter allow; this
is inductive only because every way out of `Reconcile` asks for a timer in the
future or leaves a request in the queue. `StatusInv`: the status is what the
metadata says, unless a request is queued or an event, which will queue one, is still
to come; and when nothing is `disturbed` it is so without that exception, for the
current generation.
`ExtractInv`: once an extraction is reported, the time of its directory is not
later than the one in the status.

**The argument for the collector.** While a pass has still to come to a name
(`Spared`), a catalog of that name that exists was listed or is raced, and so is one
that is worked on without existing. Of all others a pass finds only complete images,
which are read-only and stay as they are, or nothing.

**The argument for the pull secret.** `SyncInv`: unless a request is queued, the
reconciler works on what the cache holds or has brought the file to it.
`StopInv`: nobody is left to write the file once `main` has removed it.

**The argument for the server.** `ShutdownInv`: `Start` returns nil only once the
goroutine has closed the channel, the channel is closed only when no download is
left or `Shutdown` gave up, and the controllers are stopped only after `Start`.
`CutInv`: while the process lives nothing but the write timeout cuts. So at the exit
a download can be cut only if one of the other three limits was reached or `Start`
had failed.

**The argument for the filter.** `Clean` and `Follow` both go through a path
element by element, as recursive functions of the number of elements read. The
library's induction theorems cannot be instantiated, so induction is derived from
the least element of a set of numbers (`Least`, then `Ascend`), and so is that a
function defined by such a recursion exists and satisfies its definition
(`Iterate`). By induction the two agree at every element (`NormalStep`): what
`path.Clean` has put out is a number of `..` and then the names of the directory
the walk is in, and there is a `..` exactly when the walk has left the root. `Rel`
drops what the two paths share (`RelShared`); the rest begins with `..` exactly
when the entry is not in the label's directory (`Verdict`).

The controller's proofs are four modules because each builds on the one before.

**Only model-checked.** The liveness properties `Converges`, `DeletionCompletes`,
`StaleCollected`, `PullsSucceed` and `StartEnds`: fairness is out of
the prover's reach. The six violations are counterexamples of TLC.

## Not modelled

* Failures of pulls, stores and the API server, and deletion, together with the
  clock: `ClusterCatalogController` has them, `CatalogPolling` has the clock, stale
  reads and conflicts. Together they are beyond what TLC can enumerate. What
  `CatalogPolling` says of the times of polls is said of catalogs whose pulls, stores
  and other writes succeed: a reconcile whose pull or store failed drops the
  metadata and is retried with a back-off, which polls the registry outside the
  interval.
* A second signal to the process, which ends it at once.
* Signature policy (`loadPolicyContext`) and the contents of layers: a pull
  succeeds or fails, a layer is applied or not.
* The validation rules on image references and URLs: the API server evaluates them
  on one string before the object exists. Reading them, note that the rules on the
  length of tag and digest measure from the first colon of the reference, which is
  that of the port when there is one.
* The content served for a catalog that went without its finalizer: `main` gives
  the collector the unpack cache only, and nothing else looks for it.
* 64-bit wrap-around of `pollIntervalMinutes` in nanoseconds, from 292 years on:
  times are integers.
* The webhook sets one label from the name; name sanitising, metrics, the feature
  gate, version, flags, certificates and generated code have no state the rest
  depends on.

------------------------ MODULE ControllerSettledProofs ------------------------
(***************************************************************************)
(* Nothing is forgotten: when the controller has nothing left to do, the   *)
(* catalog is settled, or its status says why it is not, or it is gone.    *)
(***************************************************************************)
EXTENDS ControllerFinalizerProofs

\* The stored metadata describes the content on disk, which is that of the image
\* the spec asked for at the generation it names.
MetadataInv ==
    storedCatalog # None =>
        /\ HasFinalizer(server)
        /\ storedCatalog.observedGeneration <= server.generation
        /\ \A o \in Known : o.generation = storedCatalog.observedGeneration
                                => o.spec.ref = storedCatalog.unpackResult.ref
        /\ content # None => content = storedCatalog.unpackResult
        /\ pc \in {"status", "finalizers"} /\ HasFinalizer(existing) => HasFinalizer(catalog)

\* Settled, of a version o.
SettledAs(o) ==
    IF o.spec.availabilityMode = "Unavailable"
    THEN /\ content = None /\ ~unpackDir /\ ~HasFinalizer(o)
         /\ o.status = [progressing |-> "Disabled", progressingGen |-> o.generation,
                        resolved |-> None,
                        serving |-> "UserSpecifiedUnavailable", servingGen |-> o.generation]
    ELSE /\ HasFinalizer(o) /\ ~o.deleting
         /\ content # None /\ content.ref = o.spec.ref
         /\ o.status = [progressing |-> "Succeeded", progressingGen |-> o.generation,
                        resolved |-> content,
                        serving |-> "Available", servingGen |-> o.generation]

\* The image a reference by digest names is unusable.
Unusable(ref) == ref \in CanonicalRefs /\ registry[ref] = None

\* What a reconcile will return, and what it leaves behind.
OutcomeInv ==
    /\ pc \notin {"status", "finalizers"} => err = "none"
    /\ pc = "cleanup" => catalog.status.resolved = None
    /\ pc = "store" => unpackResult.ref = existing.spec.ref
    /\ pc \in {"status", "finalizers"} =>
         /\ /\ err = "none" /\ catalog.status = existing.status
            /\ catalog.finalizers = existing.finalizers
            => SettledAs(existing)
         /\ err = "terminal" =>
              /\ Unusable(existing.spec.ref)
              /\ catalog.status.progressing = "Blocked"
              /\ catalog.status.progressingGen = existing.generation

\* What was read is current unless another request is queued, and a status that
\* was to be written has been written unless the write failed.
CurrentInv ==
    /\ pc # "idle" /\ ~queued => cache = existing
    /\ pc = "finalizers" /\ catalog.status # existing.status
        => existing.rv < server.rv \/ (err # "none" /\ catalog.rv = existing.rv)

\* What the steps of reconcile do to the stored metadata.
LEMMA StoredSteps ==
    ASSUME DiskInv, InternalStep, storedCatalog' # None
    PROVE  \/ /\ UNCHANGED storedCatalog /\ content' \in {content, None}
              /\ pc' = "status" => \/ catalog'.finalizers = existing.finalizers
                                   \/ fbcDeletionFinalizer \in catalog'.finalizers
           \/ /\ Store /\ content' = unpackResult /\ catalog'.finalizers = existing.finalizers
              /\ storedCatalog' = [observedGeneration |-> existing.generation,
                                   unpackResult |-> unpackResult]
<1> USE DEF DiskInv, BaseInv
<1>0. /\ pc \in {"reconcile", "store"} => catalog = existing
      /\ catalog \in Object /\ catalog.finalizers \cup {fbcDeletionFinalizer} \in FinalizerSets
  BY DEF LocalInv, TypeOK, Object, FinalizerSets
<1>1. CASE StorageDelete
  BY <1>1 DEF StorageDelete, ReturnError
<1>2. CASE UnpackerCleanup
  BY <1>2 DEF UnpackerCleanup, ReturnError
<1>3. CASE AddFinalizer
  <2>1. catalog' = WithFinalizers(catalog, catalog.finalizers \cup {fbcDeletionFinalizer})
    BY <1>3 DEF AddFinalizer
  <2>2. fbcDeletionFinalizer \in catalog'.finalizers
    BY <1>0, <2>1, WithFinalizersFields
  <2> QED
    BY <1>3, <2>2 DEF AddFinalizer, diskVars
<1>4. CASE SkipUnpack
  BY <1>0, <1>4 DEF SkipUnpack, diskVars
<1>5. CASE Unpack
  <2>1. pc' = "store" /\ UNCHANGED <<content, storedCatalog>>
    BY Zenon, <1>5 DEF Unpack, ReturnError
  <2> QED
    BY <2>1
<1>6. CASE Store
  <2>1. pc = "store" /\ content' = unpackResult
    BY <1>6 DEF Store, ReturnError
  <2>2. storedCatalog' = [observedGeneration |-> existing.generation,
                          unpackResult |-> unpackResult]
    BY <1>0, <1>6, <2>1 DEF Store, ReturnError
  <2>3. catalog'.finalizers = existing.finalizers
    <3>1. PICK s : catalog' = WithStatus(catalog, s)
      BY <1>6 DEF Store, ReturnError
    <3> QED
      BY <1>0, <2>1, <3>1 DEF WithStatus, Object
  <2> QED
    BY <1>6, <2>1, <2>2, <2>3
<1> QED
  BY ZenonT(60), <1>1, <1>2, <1>3, <1>4, <1>5, <1>6 DEF InternalStep

\* MetadataInv is preserved.
LEMMA MetadataNext ==
    ASSUME DiskInv, DiskInv', IncarnationInv, MetadataInv, OutcomeInv,
           ~ForegroundDeletion, [Next]_vars
    PROVE  MetadataInv'
<1> SUFFICES ASSUME storedCatalog' # None
             PROVE  MetadataInv'
  BY DEF MetadataInv
<1>0. /\ server \in Known /\ \A o \in Known : o.generation \in Nat
      /\ server'.generation \in Nat
  <2>1. server' \in Object
    BY DEF DiskInv, BaseInv, TypeOK
  <2> QED
    BY <2>1, KnownObjects DEF Object
\* A step that keeps the metadata.
<1>1. ASSUME UNCHANGED storedCatalog
      PROVE  /\ HasFinalizer(server')
             /\ storedCatalog'.observedGeneration <= server'.generation
             /\ \A o \in Known' : o.generation = storedCatalog'.observedGeneration
                                     => o.spec.ref = storedCatalog'.unpackResult.ref
  <2>0. storedCatalog.observedGeneration \in Nat
    BY <1>1 DEF DiskInv, BaseInv, TypeOK, StoredCatalog
  <2>1. CASE UNCHANGED server /\ Known' \subseteq Known
    BY <1>1, <2>1 DEF MetadataInv
  <2>2. CASE /\ Known' \subseteq Known \cup {server'} /\ HasFinalizer(server')
             /\ server'.generation > server.generation
    BY <1>0, <1>1, <2>0, <2>2 DEF MetadataInv
  <2>3. CASE /\ Known' \subseteq Known \cup {server'} /\ SameMeta(server', server)
    BY <1>0, <1>1, <2>0, <2>3 DEF MetadataInv, SameMeta, HasFinalizer
  <2>4. CASE /\ UpdateFinalizers
             /\ HasFinalizer(server') <=> HasFinalizer(catalog)
             /\ HasFinalizer(existing) <=> HasFinalizer(server)
             /\ HasFinalizer(server') =>
                  /\ server'.generation = server.generation /\ server'.spec = server.spec
                  /\ \A o \in Known' : /\ o.generation = server'.generation
                                       /\ o.spec = server'.spec
    <3>1. HasFinalizer(server')
      BY <1>1, <2>4 DEF MetadataInv, UpdateFinalizers
    <3> QED
      BY <1>0, <1>1, <2>4, <3>1 DEF MetadataInv
  <2>5. HasFinalizer(server)
    BY <1>1 DEF MetadataInv
  <2> QED
    BY ZenonT(60), <2>1, <2>2, <2>3, <2>4, <2>5, KnownNext
\* A step that keeps the metadata and does not put anything else on disk.
<1>2. ASSUME UNCHANGED storedCatalog, content' \in {content, None},
             pc' \in {"status", "finalizers"} /\ HasFinalizer(existing')
                => HasFinalizer(catalog')
      PROVE  MetadataInv'
  <2>1. content' # None => content' = storedCatalog'.unpackResult
    BY <1>2 DEF MetadataInv
  <2> QED
    BY Zenon, <1>1, <1>2, <2>1 DEF MetadataInv
<1>3. CASE OutsideStep
  <2>1. UNCHANGED <<pc, existing, catalog, storedCatalog, content>>
    BY <1>3, OutsideRest DEF DiskInv, BaseInv
  <2> QED
    BY <1>2, <2>1 DEF MetadataInv
<1>4. CASE Get
  <2>1. UNCHANGED <<storedCatalog, content>> /\ pc' \in {"idle", "reconcile"}
    BY <1>4 DEF Get, workerVars, diskVars
  <2> QED
    BY <1>2, <2>1
<1>5. CASE InternalStep
  <2>1. UNCHANGED <<server, events, cache, existing>> /\ pc # "idle" /\ pc' # "idle"
        /\ pc' # "finalizers"
    BY <1>5, InternalSteps DEF DiskInv, BaseInv
  <2>2. CASE /\ UNCHANGED storedCatalog /\ content' \in {content, None}
             /\ pc' = "status" => \/ catalog'.finalizers = existing.finalizers
                                  \/ fbcDeletionFinalizer \in catalog'.finalizers
    BY <1>2, <2>1, <2>2 DEF HasFinalizer
  <2>3. CASE /\ Store /\ content' = unpackResult /\ catalog'.finalizers = existing.finalizers
             /\ storedCatalog' = [observedGeneration |-> existing.generation,
                                  unpackResult |-> unpackResult]
    <3>1. pc = "store" /\ Finalized(existing)
      BY <2>3 DEF Store, DiskInv, BaseInv, LocalInv
    <3>2. HasFinalizer(server) /\ HasFinalizer(existing)
      BY <3>1, FinalizedHasFinalizer
    <3>3. /\ storedCatalog'.observedGeneration = existing.generation
          /\ storedCatalog'.unpackResult = unpackResult
      BY <2>3
    <3>4. Known' = Known /\ existing \in Known
      BY <2>1 DEF Known, Versions
    <3>5. ASSUME NEW o \in Known', o.generation = existing.generation
          PROVE  o.spec.ref = unpackResult.ref
      BY <3>1, <3>2, <3>4, <3>5 DEF IncarnationInv, OutcomeInv
    <3>6. existing.generation <= server.generation
      BY <3>2, <3>4 DEF IncarnationInv
    <3> QED
      BY ZenonT(60), <2>1, <2>3, <3>2, <3>3, <3>5, <3>6 DEF MetadataInv, HasFinalizer
  <2> QED
    BY <1>5, <2>2, <2>3, StoredSteps
<1>6. CASE UpdateStatus
  <2>1. /\ UNCHANGED <<existing, content, storedCatalog>>
        /\ pc = "status" /\ catalog'.finalizers = catalog.finalizers
    <3>1. catalog.finalizers \in FinalizerSets
      BY SMTT(30) DEF DiskInv, BaseInv, TypeOK, Object, FinalizerSets
    <3>2. UNCHANGED storedCatalog
      BY <1>6 DEF UpdateStatus
    <3> QED
      BY <1>6, <3>1, <3>2, StatusWrite, WithFinalizersFields DEF DiskInv, BaseInv
  <2> QED
    BY <1>2, <2>1 DEF MetadataInv, HasFinalizer
<1>7. CASE UpdateFinalizers
  <2>1. UNCHANGED <<storedCatalog, content>> /\ pc' = "idle"
    BY <1>7 DEF UpdateFinalizers, Return, Leave, diskVars
  <2> QED
    BY Zenon, <1>2, <2>1
<1>8. CASE Restart
  BY <1>8 DEF Restart
<1>9. CASE UNCHANGED vars
  <2>1. UNCHANGED <<pc, existing, catalog, storedCatalog, content>>
    BY <1>9 DEF vars, workerVars, diskVars
  <2> QED
    BY <1>2, <2>1 DEF MetadataInv
<1> QED
  BY Zenon, <1>3, <1>4, <1>5, <1>6, <1>7, <1>8, <1>9
     DEF Next, OutsideStep, Reconcile, InternalStep

-------------------------------------------------------------------------------
(* How a reconcile ends.                                                     *)

\* What reconcile leaves when it returns without an error and without anything
\* to write is settled.
Settles == err = "none" /\ catalog.status = existing.status
             /\ catalog.finalizers = existing.finalizers => SettledAs(existing)

\* What reconcile leaves when it returns a terminal error.
Blocks == err = "terminal" =>
             /\ Unusable(existing.spec.ref)
             /\ catalog.status.progressing = "Blocked"
             /\ catalog.status.progressingGen = existing.generation

\* A disabled catalog is settled when there is nothing left to write.
LEMMA CleanupSettles ==
    ASSUME DiskInv, OutcomeInv, UnpackerCleanup
    PROVE  pc' = "status" /\ Settles' /\ Blocks'
<1> USE DEF DiskInv, BaseInv
<1>0. /\ pc = "cleanup" /\ pc' = "status" /\ err = "none"
      /\ existing' = existing /\ content' = content
  BY DEF UnpackerCleanup, ReturnError, OutcomeInv
<1>1. CASE err' = "retryable"
  BY <1>0, <1>1 DEF Settles, Blocks
<1>2. CASE err' # "retryable"
  <2> DEFINE s == IF catalog.spec.availabilityMode = "Unavailable"
                  THEN updateStatusProgressingUserSpecifiedUnavailable(
                           catalog.status, catalog.generation)
                  ELSE catalog.status
             fs == catalog.finalizers \ {fbcDeletionFinalizer}
  <2>1. /\ err' = err /\ ~unpackDir'
        /\ catalog' = WithFinalizers(WithStatus(catalog, s), fs)
    BY ZenonT(60), <1>2 DEF UnpackerCleanup, ReturnError
  <2>2. /\ catalog \in Object /\ catalog.status \in Status /\ fs \in FinalizerSets
        /\ catalog.status.resolved = None
        /\ catalog.generation = existing.generation /\ catalog.spec = existing.spec
        /\ catalog.finalizers = existing.finalizers
        /\ DeletesCache(existing) /\ content = None
    BY <1>0 DEF TypeOK, Object, FinalizerSets, OutcomeInv, LocalInv
  <2>3. s \in Status
    BY ZenonT(60), <2>2, DisabledStatus
  <2>4. existing.spec.availabilityMode = "Unavailable" =>
          s = [progressing |-> "Disabled", progressingGen |-> existing.generation,
               resolved |-> None,
               serving |-> "UserSpecifiedUnavailable", servingGen |-> existing.generation]
    BY <2>2, DisabledRecord
  <2>5. fs = existing.finalizers \ {fbcDeletionFinalizer}
    BY <2>2
  <2> HIDE DEF s, fs
  <2>6. catalog'.status = s /\ catalog'.finalizers = fs
    <3>1. WithStatus(catalog, s) \in Object /\ WithStatus(catalog, s).status = s
      BY <2>2, <2>3, WithStatusFields
    <3> QED
      BY Zenon, <2>1, <2>2, <3>1, WithFinalizersFields
  <2>7. ASSUME catalog'.status = existing.status, catalog'.finalizers = existing.finalizers
        PROVE  SettledAs(existing)'
    <3>1. ~HasFinalizer(existing)
      BY <2>5, <2>6, <2>7 DEF HasFinalizer
    <3>2. existing.spec.availabilityMode = "Unavailable"
      BY <2>2, <3>1 DEF DeletesCache, HasFinalizer
    <3> QED
      BY Zenon, <1>0, <2>1, <2>2, <2>4, <2>6, <2>7, <3>1, <3>2 DEF SettledAs, HasFinalizer
  <2> QED
    BY Zenon, <1>0, <2>1, <2>7 DEF Settles, Blocks
<1> QED
  BY ZenonT(60), <1>1, <1>2

\* A catalog that is up to date is settled.
LEMMA SkipSettles ==
    ASSUME DiskInv, MetadataInv, OutcomeInv, SkipUnpack
    PROVE  pc' = "status" /\ Settles' /\ Blocks'
<1> USE DEF DiskInv, BaseInv
<1>1. /\ pc = "reconcile" /\ pc' = "status" /\ err = "none"
      /\ UNCHANGED <<existing, catalog, err, content, unpackDir>>
      /\ Finalized(catalog) /\ UpToDate(catalog)
  BY DEF SkipUnpack, needsUnpack, diskVars, OutcomeInv
<1>2. catalog = existing
  BY <1>1 DEF LocalInv
<1>3. /\ HasFinalizer(existing) /\ ~existing.deleting
      /\ existing.spec.availabilityMode # "Unavailable"
  BY <1>1, <1>2, FinalizedHasFinalizer
<1>4. existing \in Known
  BY <1>1 DEF Known
<1>5. /\ storedCatalog # None /\ content # None
      /\ existing.generation = storedCatalog.observedGeneration
      /\ existing.status = getCurrentState(existing)
  BY <1>1, <1>2 DEF UpToDate
<1>6. content = storedCatalog.unpackResult /\ content.ref = existing.spec.ref
  BY Zenon, <1>4, <1>5 DEF MetadataInv
<1>7. existing.status \in Status /\ existing \in Object /\ content \in Results
  BY Zenon, <1>5 DEF TypeOK, Object
<1>8. existing.status = updateStatusProgressing(
          updateStatusServing(existing.status, content, existing.generation),
          existing.generation, "none")
  BY Zenon, <1>5, <1>6 DEF getCurrentState
<1>9. existing.status = [progressing |-> "Succeeded", progressingGen |-> existing.generation,
                         resolved |-> content,
                         serving |-> "Available", servingGen |-> existing.generation]
  BY <1>7, <1>8, ServedStatus
<1>10. SettledAs(existing)'
  BY Zenon, <1>1, <1>3, <1>5, <1>6, <1>9 DEF SettledAs, HasFinalizer
<1> QED
  BY <1>1, <1>10 DEF Settles, Blocks

\* A catalog whose content has just been stored is settled once its status says so.
LEMMA StoreSettles ==
    ASSUME DiskInv, OutcomeInv, Store
    PROVE  pc' = "status" /\ Settles' /\ Blocks'
<1> USE DEF DiskInv, BaseInv
<1>0. /\ pc = "store" /\ pc' = "status" /\ err = "none" /\ existing' = existing
  BY DEF Store, ReturnError, OutcomeInv
<1>1. CASE err' = "retryable"
  BY Zenon, <1>0, <1>1 DEF Settles, Blocks
<1>2. CASE err' # "retryable"
  <2>1. /\ catalog = existing /\ Finalized(existing)
        /\ unpackResult \in Results /\ unpackResult # None
        /\ unpackResult.ref = existing.spec.ref
        /\ existing \in Object /\ existing.status \in Status
    BY <1>0, ControllerAssumption DEF LocalInv, TypeOK, Object, OutcomeInv
  <2> DEFINE s == updateStatusServing(
                    updateStatusProgressing(existing.status, existing.generation, "none"),
                    unpackResult, existing.generation)
  <2>2. content' = unpackResult /\ err' = err /\ catalog' = WithStatus(existing, s)
    BY Zenon, <1>2, <2>1 DEF Store, ReturnError
  <2>3. /\ s = [progressing |-> "Succeeded", progressingGen |-> existing.generation,
                resolved |-> unpackResult,
                serving |-> "Available", servingGen |-> existing.generation]
        /\ s \in Status
    <3> DEFINE t == updateStatusProgressing(existing.status, existing.generation, "none")
    <3>1. t \in Status
      <4>1. "none" \in Errors
        BY ZenonT(60) DEF Errors
      <4> QED
        BY <2>1, <4>1, ProgressingStatus
    <3>2. s = [progressing |-> "Succeeded", progressingGen |-> existing.generation,
               resolved |-> unpackResult,
               serving |-> "Available", servingGen |-> existing.generation]
      BY <2>1, ServedStatus
    <3>3. s \in Status
      BY Zenon, <2>1, <3>1, ServingStatus
    <3> QED
      BY ZenonT(60), <3>2, <3>3
  <2> HIDE DEF s
  <2>4. catalog'.status = s
    BY <2>1, <2>2, <2>3, WithStatusFields
  <2>5. /\ HasFinalizer(existing) /\ ~existing.deleting
        /\ existing.spec.availabilityMode # "Unavailable"
    BY <1>0, <2>1, FinalizedHasFinalizer
  <2>6. catalog'.status = existing.status => SettledAs(existing)'
    BY Zenon, <1>0, <2>1, <2>2, <2>3, <2>4, <2>5 DEF SettledAs, HasFinalizer
  <2> QED
    BY ZenonT(60), <1>0, <2>2, <2>6 DEF Settles, Blocks
<1> QED
  BY <1>1, <1>2

\* An unpack yields the image the spec names, or an error, which is terminal only
\* for an unusable image that is named by its digest.
LEMMA UnpackOutcome ==
    ASSUME DiskInv, OutcomeInv, Unpack
    PROVE  \/ pc' = "store" /\ err' = "none" /\ unpackResult'.ref = existing'.spec.ref
           \/ pc' = "status" /\ Settles' /\ Blocks'
<1> USE DEF DiskInv, BaseInv
<1>0. /\ pc = "reconcile" /\ catalog = existing /\ err = "none"
      /\ UNCHANGED <<existing, registry>>
      /\ existing \in Object /\ existing.status \in Status
  BY Zenon DEF Unpack, LocalInv, OutcomeInv, envVars, TypeOK, Object
<1> DEFINE ref == existing.spec.ref
           s(e) == updateStatusProgressing(existing.status, existing.generation, e)
<1>1. \/ /\ pc' = "store" /\ UNCHANGED err
         /\ unpackResult' = [ref |-> ref, digest |-> registry[ref]]
      \/ pc' = "status" /\ err' = "retryable"
      \/ /\ pc' = "status" /\ err' = "terminal" /\ catalog' = WithStatus(existing, s("terminal"))
         /\ ref \in CanonicalRefs /\ registry[ref] = None
  BY Zenon, <1>0 DEF Unpack, ReturnError, IsCatalogImage
<1>2. CASE /\ pc' = "store" /\ UNCHANGED err
           /\ unpackResult' = [ref |-> ref, digest |-> registry[ref]]
  BY <1>0, <1>2
<1>3. CASE pc' = "status" /\ err' = "retryable"
  BY <1>3 DEF Settles, Blocks
<1>4. CASE /\ pc' = "status" /\ err' = "terminal"
           /\ catalog' = WithStatus(existing, s("terminal"))
           /\ ref \in CanonicalRefs /\ registry[ref] = None
  <2>1. "terminal" \in Errors
    BY Zenon DEF Errors
  <2>2. /\ s("terminal") \in Status /\ s("terminal").progressing = "Blocked"
        /\ s("terminal").progressingGen = existing.generation
    BY ZenonT(60), <1>0, <2>1, ProgressingStatus, NotServedStatus
  <2>3. catalog'.status = s("terminal")
    BY <1>0, <1>4, <2>2, WithStatusFields
  <2> HIDE DEF s
  <2> QED
    BY <1>0, <1>4, <2>2, <2>3 DEF Settles, Blocks, Unusable
<1> QED
  BY ZenonT(60), <1>1, <1>2, <1>3, <1>4

\* OutcomeInv is preserved.
LEMMA OutcomeNext ==
    ASSUME DiskInv, MetadataInv, OutcomeInv, [Next]_vars
    PROVE  OutcomeInv'
<1> USE DEF DiskInv, BaseInv
<1>1. ASSUME pc' = "status", Settles', Blocks'
      PROVE  OutcomeInv'
  BY Zenon, <1>1 DEF OutcomeInv, Settles, Blocks
<1>2. ASSUME pc' \in {"idle", "reconcile"}, err' = "none"
      PROVE  OutcomeInv'
  BY ZenonT(60), <1>2 DEF OutcomeInv
<1>3. ASSUME UNCHANGED <<pc, existing, catalog, unpackResult, err, content, unpackDir>>,
             \A ref \in CanonicalRefs : registry'[ref] = registry[ref]
      PROVE  OutcomeInv'
  <2>1. SettledAs(existing)' <=> SettledAs(existing)
    BY Zenon, <1>3 DEF SettledAs, HasFinalizer
  <2>2. Unusable(existing.spec.ref) => Unusable(existing.spec.ref)'
    BY ZenonT(60), <1>3 DEF Unusable
  <2> QED
    BY <1>3, <2>1, <2>2 DEF OutcomeInv
<1>4. CASE OutsideStep
  BY <1>3, <1>4, OutsideRest
<1>5. CASE Get
  <2>1. pc' \in {"idle", "reconcile"} /\ err' = "none"
    BY <1>5 DEF Get, workerVars, OutcomeInv
  <2> QED
    BY ZenonT(60), <1>2, <2>1
<1>6. CASE StorageDelete
  <2>0. pc = "reconcile" /\ catalog \in Object /\ catalog.status \in Status
    BY Zenon, <1>6 DEF StorageDelete, TypeOK, Object
  <2>1. CASE pc' = "cleanup"
    <3> DEFINE s == updateStatusNotServing(catalog.status, catalog.generation)
    <3>1. catalog' = WithStatus(catalog, s) /\ err' = "none"
      BY ZenonT(60), <1>6, <2>0, <2>1 DEF StorageDelete, ReturnError, OutcomeInv
    <3>2. s \in Status /\ s.resolved = None
      BY <2>0, NotServingStatus, NotServedStatus
    <3> HIDE DEF s
    <3>3. catalog'.status.resolved = None
      BY <2>0, <3>1, <3>2, WithStatusFields
    <3> QED
      BY Zenon, <2>1, <3>1, <3>3 DEF OutcomeInv
  <2>2. CASE pc' = "status" /\ err' = "retryable"
    BY Zenon, <1>1, <2>2 DEF Settles, Blocks
  <2> QED
    BY Zenon, <1>6, <2>1, <2>2 DEF StorageDelete, ReturnError
<1>7. CASE AddFinalizer
  <2>1. /\ pc = "reconcile" /\ pc' = "status" /\ UNCHANGED <<err, existing>>
        /\ fbcDeletionFinalizer \notin catalog.finalizers
        /\ catalog' = WithFinalizers(catalog, catalog.finalizers \cup {fbcDeletionFinalizer})
    BY Zenon, <1>7 DEF AddFinalizer
  <2>2. /\ catalog \in Object /\ catalog = existing /\ err = "none"
        /\ catalog.finalizers \cup {fbcDeletionFinalizer} \in FinalizerSets
    BY ZenonT(60), <2>1 DEF TypeOK, Object, FinalizerSets, LocalInv, OutcomeInv
  <2>3. fbcDeletionFinalizer \in catalog'.finalizers
    BY <2>1, <2>2, WithFinalizersFields
  <2> QED
    BY Zenon, <1>1, <2>1, <2>2, <2>3 DEF Settles, Blocks
<1>8. CASE Unpack
  <2>1. CASE pc' = "store" /\ err' = "none" /\ unpackResult'.ref = existing'.spec.ref
    BY <2>1 DEF OutcomeInv
  <2> QED
    BY Zenon, <1>1, <1>8, <2>1, UnpackOutcome
<1>9. CASE UnpackerCleanup \/ SkipUnpack \/ Store
  BY Zenon, <1>1, <1>9, CleanupSettles, SkipSettles, StoreSettles
<1>10. CASE UpdateStatus
  <2>0. pc = "status" /\ pc' = "finalizers" /\ UNCHANGED <<existing, content, unpackDir, registry>>
    BY Zenon, <1>10 DEF UpdateStatus, diskVars, envVars
  <2>1. catalog'.status = catalog.status /\ catalog'.finalizers = catalog.finalizers
    <3>1. catalog.finalizers \in FinalizerSets
      BY Zenon DEF TypeOK, Object, FinalizerSets
    <3> QED
      BY <1>10, <3>1, StatusWrite, WithFinalizersFields
  <2>2. /\ err' = "none" => err = "none"
        /\ err' = "terminal" => err = "terminal"
    BY <1>10 DEF UpdateStatus, Join
  <2>3. SettledAs(existing)' <=> SettledAs(existing)
    BY Zenon, <2>0 DEF SettledAs, HasFinalizer
  <2>4. Unusable(existing.spec.ref)' <=> Unusable(existing.spec.ref)
    BY Zenon, <2>0 DEF Unusable
  <2> QED
    BY Zenon, <2>0, <2>1, <2>2, <2>3, <2>4 DEF OutcomeInv
<1>11. CASE UpdateFinalizers \/ Restart
  <2>1. pc' = "idle" /\ err' = "none"
    BY Zenon, <1>11 DEF UpdateFinalizers, Restart, Return, Leave
  <2> QED
    BY <1>2, <2>1
<1>12. CASE UNCHANGED vars
  <2>1. UNCHANGED <<pc, existing, catalog, unpackResult, err, content, unpackDir, registry>>
    BY <1>12 DEF vars, workerVars, diskVars, envVars
  <2> QED
    BY <1>3, <2>1
<1> QED
  BY Zenon, <1>4, <1>5, <1>6, <1>7, <1>8, <1>9, <1>10, <1>11, <1>12
     DEF Next, OutsideStep, Reconcile

\* CurrentInv is preserved.
LEMMA CurrentNext ==
    ASSUME DiskInv, CurrentInv, [Next]_vars
    PROVE  CurrentInv'
<1> USE DEF DiskInv, BaseInv
<1>0. /\ server.rv \in Nat /\ existing.rv \in Nat /\ catalog.rv \in Nat
      /\ err \in Errors
  BY Zenon DEF TypeOK, Object
<1>1. CASE OutsideStep
  <2>1. /\ UNCHANGED <<pc, existing, catalog, err>>
        /\ UNCHANGED <<cache, queued>> \/ queued'
    BY Zenon, <1>1, OutsideRest
  <2>2. server' = server \/ server'.rv = server.rv + 1
    <3>1. UNCHANGED server \/ \E o \in Object : Commit(o)
      BY Zenon, <1>1, OutsideSteps DEF DeliverEvent
    <3> QED
      BY <3>1, CommitFields
  <2>3. pc' # "idle" /\ ~queued' => cache' = existing'
    BY Zenon, <2>1 DEF CurrentInv
  <2> QED
    BY <1>0, <2>1, <2>2, <2>3 DEF CurrentInv
<1>2. CASE Get
  <2>1. pc' \in {"idle", "reconcile"} /\ (pc' # "idle" => existing' = cache')
    BY <1>2 DEF Get, workerVars
  <2> QED
    BY <2>1 DEF CurrentInv
<1>3. CASE InternalStep
  <2>1. /\ UNCHANGED <<cache, existing>> /\ pc # "idle" /\ pc' # "finalizers"
    BY <1>3, InternalSteps
  <2>2. UNCHANGED queued
    BY Zenon, <1>3 DEF InternalStep, StorageDelete, UnpackerCleanup, AddFinalizer, SkipUnpack,
       Unpack, Store, queueVars
  <2> QED
    BY Zenon, <2>1, <2>2 DEF CurrentInv
<1>4. CASE UpdateStatus
  <2>1. pc = "status" /\ UNCHANGED <<cache, existing, queued>>
    BY <1>4 DEF UpdateStatus, queueVars
  <2>2. pc' # "idle" /\ ~queued' => cache' = existing'
    BY Zenon, <2>1 DEF CurrentInv
  <2>3. catalog.rv = existing.rv /\ existing.rv <= server.rv
    BY Zenon, <2>1 DEF ReadInv
  <2>4. CASE catalog.status = existing.status
    BY Zenon, <1>4, <2>1, <2>2, <2>4 DEF UpdateStatus, CurrentInv
  <2>5. CASE Commit(WithStatus(server, catalog.status))
    <3>1. WithStatus(server, catalog.status) \in Object
      BY WithStatusFields DEF TypeOK, Object
    <3>2. server'.rv = server.rv + 1
      BY ZenonT(60), <2>5, <3>1, CommitFields
    <3> QED
      BY SMTT(30), <1>0, <2>1, <2>2, <2>3, <3>2 DEF CurrentInv
  <2>6. CASE err' = Join(err, "retryable") /\ UNCHANGED catalog
    <3>1. err' # "none"
      BY <2>6 DEF Join
    <3> QED
      BY <2>1, <2>2, <2>3, <2>6, <3>1 DEF CurrentInv
  <2> QED
    BY ZenonT(60), <1>4, <2>4, <2>5, <2>6 DEF UpdateStatus, serverVars
<1>5. CASE UpdateFinalizers \/ Restart
  <2>1. pc' = "idle"
    BY Zenon, <1>5 DEF UpdateFinalizers, Restart, Return, Leave
  <2> QED
    BY <2>1 DEF CurrentInv
<1>6. CASE UNCHANGED vars
  BY Zenon, <1>6 DEF vars, serverVars, queueVars, workerVars, CurrentInv
<1> QED
  BY Zenon, <1>1, <1>2, <1>3, <1>4, <1>5, <1>6
     DEF Next, OutsideStep, Reconcile, InternalStep

-------------------------------------------------------------------------------
(* When nothing is left to do.                                               *)

\* A version that is settled settles the catalog when the API server has it.
LEMMA SettledVersion == SettledAs(server) => Settled
<1>1. CASE server.spec.availabilityMode = "Unavailable"
  BY <1>1 DEF SettledAs, Settled, HasFinalizer
<1>2. CASE server.spec.availabilityMode # "Unavailable"
  BY Zenon, <1>2 DEF SettledAs, Settled, HasFinalizer
<1> QED
  BY <1>1, <1>2

\* The end of a reconcile after which nothing is left to do: what it read is what
\* the API server has, nothing was written, and the error was not retried.
LEMMA LastReturn ==
    ASSUME DiskInv, OutcomeInv, CurrentInv, UpdateFinalizers, Quiescent'
    PROVE  QuiescentSettled'
<1> USE DEF DiskInv, BaseInv
<1>1. /\ pc = "finalizers" /\ events' = {} /\ ~queued'
      /\ UNCHANGED <<cache, content, unpackDir, registry>>
  BY Zenon DEF UpdateFinalizers, Quiescent, diskVars, envVars
<1>2. UNCHANGED <<server, events>> /\ ~CommitFinalizers(catalog.finalizers)
  <2>1. ASSUME NEW o, Commit(o) PROVE FALSE
    BY Zenon, <1>1, <2>1 DEF Commit
  <2>2. ~CommitFinalizers(catalog.finalizers)
    BY Zenon, <2>1 DEF CommitFinalizers
  <2> QED
    BY <2>2 DEF UpdateFinalizers, serverVars
<1>3. /\ ~queued
      /\ \/ err = "none" /\ catalog.finalizers = existing.finalizers
         \/ err = "terminal"
  <2>1. err \in Errors
    BY DEF TypeOK
  <2>2. ~queued /\ \/ err # "retryable" /\ catalog.finalizers = existing.finalizers
                   \/ Join(err, "retryable") # "retryable"
    BY Zenon, <1>1, <1>2 DEF UpdateFinalizers, Return
  <2>3. Join(err, "retryable") # "retryable" => err = "terminal"
    BY ZenonT(60) DEF Join
  <2> QED
    BY Zenon, <2>1, <2>2, <2>3 DEF Errors
<1>4. server = existing /\ existing.exists
  <2>1. cache = existing
    BY Zenon, <1>1, <1>3 DEF CurrentInv
  <2> QED
    BY <1>1, <1>2, <2>1 DEF WatchInv, Versions, LocalInv
<1>5. server.rv \in Nat
  BY Zenon DEF TypeOK, Object
<1>6. CASE catalog.status # existing.status
  <2>1. server.rv < server.rv \/ (err # "none" /\ catalog.rv = existing.rv)
    BY Zenon, <1>1, <1>4, <1>6 DEF CurrentInv
  <2>2. ~(server.rv < server.rv)
    BY <1>5
  <2>3. err = "terminal" /\ catalog.rv = existing.rv
    BY Zenon, <1>3, <2>1, <2>2
  <2>4. unreported'
    <3>1. Join(err, "retryable") = "terminal"
      BY Zenon, <2>3 DEF Join
    <3>2. \E e \in {err, Join(err, "retryable")} : Return(e)
      BY Zenon DEF UpdateFinalizers
    <3>3. Return("terminal")
      BY Zenon, <2>3, <3>1, <3>2
    <3> QED
      BY Zenon, <1>6, <2>3, <3>3 DEF Return, Unreported
  <2>5. Unusable(server.spec.ref)
    BY Zenon, <1>1, <1>4, <2>3 DEF OutcomeInv
  <2>6. UnreportedTerminal'
    BY Zenon, <1>1, <1>2, <2>4, <2>5 DEF Unusable, UnreportedTerminal
  <2> QED
    BY Zenon, <1>2, <1>4, <2>6 DEF QuiescentSettled
<1>7. CASE catalog.status = existing.status /\ err = "terminal"
  <2>1. server.status.progressing = "Blocked" /\ server.status.progressingGen = server.generation
    BY Zenon, <1>1, <1>4, <1>7 DEF OutcomeInv
  <2> QED
    BY Zenon, <1>2, <1>4, <2>1 DEF QuiescentSettled
<1>8. CASE catalog.status = existing.status /\ err = "none"
  <2>1. SettledAs(server)
    BY <1>1, <1>3, <1>4, <1>8 DEF OutcomeInv
  <2>2. Settled'
    BY Zenon, <1>1, <1>2, <2>1, SettledVersion DEF Settled
  <2> QED
    BY ZenonT(60), <1>2, <1>4, <2>2 DEF QuiescentSettled
<1> QED
  BY <1>3, <1>6, <1>7, <1>8

\* QuiescentSettled is preserved.
LEMMA SettledNext ==
    ASSUME DiskInv, DiskInv', MetadataInv, MetadataInv', OutcomeInv, CurrentInv,
           QuiescentSettled, [Next]_vars
    PROVE  QuiescentSettled'
<1> SUFFICES ASSUME Quiescent'
             PROVE  QuiescentSettled'
  BY DEF QuiescentSettled
<1>0. pc' = "idle" /\ ~queued' /\ events' = {}
  BY Zenon DEF Quiescent
<1>1. ASSUME ~server'.exists
      PROVE  QuiescentSettled'
  <2>1. Covered(server') /\ (content' # None \/ unpackDir' => HasFinalizer(server'))
    BY Zenon DEF DiskInv, BaseInv, FinalizerInv, WatchInv, NoOrphan, HasFinalizer
  <2>2. ~HasFinalizer(server')
    BY Zenon, <1>1, <2>1 DEF Covered, HasFinalizer
  <2>3. content' = None /\ ~unpackDir' /\ storedCatalog' = None
    BY <2>1, <2>2 DEF MetadataInv, HasFinalizer
  <2> QED
    BY <1>1, <2>3 DEF QuiescentSettled
<1>2. ASSUME Quiescent,
             UNCHANGED <<server, content, unpackDir, storedCatalog, unreported>>,
             \A ref \in CanonicalRefs : registry'[ref] = registry[ref]
      PROVE  QuiescentSettled'
  <2>1. Settled' <=> Settled
    BY Zenon, <1>2 DEF Settled
  <2>2. UnreportedTerminal' <=> UnreportedTerminal
    BY Zenon, <1>2 DEF UnreportedTerminal
  <2> QED
    BY Zenon, <1>2, <2>1, <2>2 DEF QuiescentSettled
<1>3. CASE OutsideStep
  <2>1. /\ UNCHANGED <<pc, content, unpackDir, storedCatalog, unreported>>
        /\ \A ref \in CanonicalRefs : registry'[ref] = registry[ref]
        /\ UNCHANGED <<cache, queued>>
    BY Zenon, <1>0, <1>3, OutsideRest DEF DiskInv, BaseInv
  <2>2. UNCHANGED <<server, events>>
    <3>1. ASSUME NEW o, Commit(o) PROVE FALSE
      BY <1>0, <3>1 DEF Commit
    <3>2. ~DeliverEvent
      BY Zenon, <1>0 DEF DeliverEvent
    <3> QED
      BY <1>3, <3>1, <3>2, OutsideSteps DEF DiskInv, BaseInv
  <2>3. Quiescent
    BY Zenon, <1>0, <2>1, <2>2 DEF Quiescent
  <2> QED
    BY Zenon, <1>2, <2>1, <2>2, <2>3
<1>4. CASE Get
  <2>1. ~cache.exists /\ UNCHANGED <<server, events, cache>>
    BY Zenon, <1>0, <1>4 DEF Get, serverVars
  <2>2. server = cache
    BY Zenon, <1>0, <2>1 DEF DiskInv, BaseInv, WatchInv, Versions
  <2> QED
    BY Zenon, <1>1, <2>1, <2>2
<1>5. CASE InternalStep \/ UpdateStatus
  BY Zenon, <1>0, <1>5, InternalSteps DEF UpdateStatus, DiskInv, BaseInv
<1>6. CASE UpdateFinalizers
  BY <1>6, LastReturn
<1>7. CASE Restart
  <2>1. ~server'.exists
    BY Zenon, <1>0, <1>7 DEF Restart
  <2> QED
    BY <1>1, <2>1
<1>8. CASE UNCHANGED vars
  <2>1. /\ UNCHANGED <<server, content, unpackDir, storedCatalog, unreported, registry>>
        /\ Quiescent' <=> Quiescent
    BY Zenon, <1>8 DEF vars, serverVars, queueVars, workerVars, diskVars, envVars, Quiescent
  <2> QED
    BY <1>2, <2>1
<1> QED
  BY Zenon, <1>3, <1>4, <1>5, <1>6, <1>7, <1>8
     DEF Next, OutsideStep, Reconcile, InternalStep

SettledInv == MetadataInv /\ OutcomeInv /\ CurrentInv /\ QuiescentSettled

\* Unless foreground deletion is used, the controller forgets nothing: when it has
\* nothing left to do, whatever users, stale reads, lost writes and crashes did
\* before, the catalog is served or withdrawn as its spec asks and its status says
\* so; or its status says that it is blocked; or its image, named by digest, is
\* unusable and the write of the last reconcile that should have said so failed;
\* or it is gone and has left nothing behind.
THEOREM NothingForgotten == ~ForegroundDeletion => (Spec => []QuiescentSettled)
<1> SUFFICES ASSUME ~ForegroundDeletion
             PROVE  Spec => []QuiescentSettled
  BY SMTT(30)
<1>1. Init => SettledInv
  <2> SUFFICES ASSUME Init
               PROVE  SettledInv
    BY ZenonT(60)
  <2>1. MetadataInv /\ OutcomeInv /\ CurrentInv
    BY DEF Init, MetadataInv, OutcomeInv, CurrentInv
  <2>2. QuiescentSettled
    BY Zenon, Objects DEF Init, QuiescentSettled
  <2> QED
    BY <2>1, <2>2 DEF SettledInv
<1>2. DiskInv /\ DiskInv' /\ IncarnationInv /\ SettledInv /\ [Next]_vars => SettledInv'
  <2> SUFFICES ASSUME DiskInv, DiskInv', IncarnationInv, SettledInv, [Next]_vars
               PROVE  SettledInv'
    BY SMTT(30)
  <2> USE DEF SettledInv
  <2>1. MetadataInv' /\ OutcomeInv' /\ CurrentInv'
    BY MetadataNext, OutcomeNext, CurrentNext
  <2>2. QuiescentSettled'
    BY <2>1, SettledNext
  <2> QED
    BY <2>1, <2>2
<1>3. SettledInv => QuiescentSettled
  BY DEF SettledInv
<1> QED
  BY <1>1, <1>2, <1>3, DiskInvariant, PTL DEF Spec

===============================================================================

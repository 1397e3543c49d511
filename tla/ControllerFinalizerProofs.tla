----------------------- MODULE ControllerFinalizerProofs -----------------------
(***************************************************************************)
(* Nothing is orphaned: what is on disk for a catalog is covered by its    *)
(* finalizer.                                                              *)
(***************************************************************************)
EXTENDS ControllerStatusProofs

HasFinalizer(o) == fbcDeletionFinalizer \in o.finalizers

\* The catalog is in a state in which reconcile would store content for it.
Storable(o) == HasFinalizer(o) /\ ~DeletesCache(o)

\* Without foreground deletions the controller's finalizer is the only one, so
\* a catalog that is being deleted still has it.
Covered(o) == /\ o.finalizers \subseteq {fbcDeletionFinalizer}
              /\ o.deleting => HasFinalizer(o)
              /\ ~o.exists => o.finalizers = {}

FinalizerInv == /\ \A o \in Versions : Covered(o)
                /\ pc # "idle" => Covered(existing)

\* Once the finalizer is off the object, no version that is left to read lets
\* the reconciler store anything; it takes the finalizer off only after it has
\* removed everything.
OrphanInv ==
    /\ ~HasFinalizer(server) => \A o \in Versions : ~Storable(o)
    /\ ~HasFinalizer(server) /\ pc # "idle" => ~Storable(existing)
    /\ pc \in {"status", "finalizers"} =>
         \/ catalog.finalizers = existing.finalizers
         \/ catalog.finalizers = existing.finalizers \cup {fbcDeletionFinalizer}
         \/ /\ catalog.finalizers = existing.finalizers \ {fbcDeletionFinalizer}
            /\ DeletesCache(existing) /\ content = None /\ ~unpackDir

-------------------------------------------------------------------------------

\* Without foreground deletions nobody but the controller adds or removes its
\* finalizer, and what others change in an object that has it is a new generation.
LEMMA OutsideFinalizers ==
    ASSUME TypeOK, WatchInv, FinalizerInv, ~ForegroundDeletion, OutsideStep
    PROVE  \/ /\ UNCHANGED cache
              /\ \E o \in Object : /\ Commit(o) /\ Covered(o)
                                   /\ HasFinalizer(o) <=> HasFinalizer(server)
                                   /\ HasFinalizer(o) => o.generation > server.generation
           \/ UNCHANGED <<server, events, cache>>
           \/ DeliverEvent
<1>0. /\ server \in Object /\ server.finalizers \in FinalizerSets /\ Covered(server)
      /\ server.generation \in Nat
      /\ foregroundFinalizer \notin server.finalizers
  BY DEF TypeOK, Object, FinalizerSets, WatchInv, FinalizerInv, Covered,
     foregroundFinalizer, fbcDeletionFinalizer
<1>1. CASE Create
  <2>1. PICK spec \in Specs : Commit(NewObject(spec))
    BY <1>1 DEF Create
  <2> QED
    BY <1>0, <1>1, <2>1, Objects DEF Create, Covered, HasFinalizer
<1>2. CASE EditSpec
  <2>1. PICK spec \in Specs : Commit(WithSpec(server, spec))
    BY <1>2 DEF EditSpec
  <2>2. /\ WithSpec(server, spec) \in Object /\ Covered(WithSpec(server, spec))
        /\ HasFinalizer(WithSpec(server, spec)) <=> HasFinalizer(server)
        /\ WithSpec(server, spec).generation > server.generation
    BY <1>0, WithSpecFields DEF Covered, HasFinalizer
  <2> QED
    BY <1>2, <2>1, <2>2 DEF EditSpec
<1>3. CASE Delete
  <2> DEFINE d == WithFinalizers(Deleting(server), server.finalizers)
  <2>1. Commit(IF server.finalizers = {} THEN NoObject ELSE d) /\ UNCHANGED cache
    BY <1>3 DEF Delete
  <2>2. /\ d \in Object /\ d.finalizers = server.finalizers /\ d.exists = server.exists
        /\ d.generation > server.generation
    BY <1>0, DeletingFields, WithFinalizersFields
  <2> HIDE DEF d
  <2>3. CASE server.finalizers = {}
    BY <1>0, <2>1, <2>3, Objects DEF Covered, HasFinalizer
  <2>4. CASE server.finalizers # {}
    <3>1. Covered(d) /\ (HasFinalizer(d) <=> HasFinalizer(server))
      BY <1>0, <2>2, <2>4 DEF Covered, HasFinalizer
    <3> QED
      BY <2>1, <2>2, <2>4, <3>1
  <2> QED
    BY <2>3, <2>4
<1>4. CASE RemoveForegroundFinalizer
  BY <1>0, <1>4 DEF RemoveForegroundFinalizer
<1>5. CASE Push \/ Resync \/ PollTimer
  BY <1>5 DEF Push, Resync, PollTimer, serverVars
<1> QED
  BY <1>1, <1>2, <1>3, <1>4, <1>5 DEF OutsideStep, Users

\* What a write of the finalizers commits, if anything.
LEMMA FinalizersWrite ==
    ASSUME BaseInv, OrphanInv, FinalizerInv, UpdateFinalizers
    PROVE  /\ pc' = "idle" /\ UNCHANGED <<cache, content, unpackDir>>
           /\ \/ UNCHANGED <<server, events>>
              \/ /\ \E o \in Object : /\ Commit(o) /\ Covered(o)
                                      /\ HasFinalizer(o) <=>
                                            fbcDeletionFinalizer \in catalog.finalizers
                                      /\ HasFinalizer(o) => /\ o.generation = server.generation
                                                            /\ o.spec = server.spec
                 /\ \A o \in Versions : SameMeta(o, existing)
<1> USE DEF BaseInv
<1>1. /\ pc = "finalizers" /\ pc' = "idle" /\ UNCHANGED <<cache, content, unpackDir>>
      /\ \/ UNCHANGED <<server, events>>
         \/ Accepted /\ CommitFinalizers(catalog.finalizers)
  BY DEF UpdateFinalizers, Return, Leave, diskVars, serverVars
<1>2. ASSUME Accepted, CommitFinalizers(catalog.finalizers)
      PROVE  /\ \E o \in Object : /\ Commit(o) /\ Covered(o)
                                  /\ HasFinalizer(o) <=>
                                        fbcDeletionFinalizer \in catalog.finalizers
                                  /\ HasFinalizer(o) => /\ o.generation = server.generation
                                                        /\ o.spec = server.spec
             /\ \A o \in Versions : SameMeta(o, existing)
  <2>0. /\ server \in Object /\ catalog.finalizers \in FinalizerSets
        /\ server.rv \in Nat /\ \A o \in Versions : o.rv \in Nat
    BY DEF TypeOK, Object, FinalizerSets, Versions
  <2>1. \A o \in Versions : o.rv <= server.rv
    BY <2>0 DEF WatchInv, Versions
  <2>2. \A o \in Versions : SameMeta(o, existing)
    BY <1>1, <1>2, <2>1 DEF Accepted, ReadInv
  <2>3. catalog.finalizers \subseteq {fbcDeletionFinalizer}
    BY <1>1 DEF OrphanInv, FinalizerInv, Covered
  <2>4. server.exists
    <3>1. server.exists = existing.exists /\ existing.exists = catalog.exists
      BY <1>1, <2>2 DEF WatchInv, SameMeta, LocalInv
    <3> QED
      BY <1>1, <3>1 DEF LocalInv
  <2> DEFINE d == WithFinalizers(server, catalog.finalizers)
  <2>5. /\ d \in Object /\ d.finalizers = catalog.finalizers
        /\ d.exists = server.exists /\ d.deleting = server.deleting
        /\ d.generation = server.generation /\ d.spec = server.spec
    BY <2>0, WithFinalizersFields
  <2>6. Commit(IF server.deleting /\ catalog.finalizers = {} THEN NoObject ELSE d)
    BY <1>2 DEF CommitFinalizers
  <2> HIDE DEF d
  <2>7. CASE server.deleting /\ catalog.finalizers = {}
    BY <2>2, <2>6, <2>7, Objects DEF Covered, HasFinalizer
  <2>8. CASE ~(server.deleting /\ catalog.finalizers = {})
    <3>1. Covered(d) /\ (HasFinalizer(d) <=> fbcDeletionFinalizer \in catalog.finalizers)
      BY <2>3, <2>4, <2>5, <2>8 DEF Covered, HasFinalizer
    <3> QED
      BY <2>2, <2>5, <2>6, <2>8, <3>1
  <2> QED
    BY <2>7, <2>8
<1> QED
  BY ZenonT(60), <1>1, <1>2

\* Without foreground deletions FinalizerInv is preserved.
LEMMA FinalizerNext ==
    ASSUME BaseInv, FinalizerInv, OrphanInv, ~ForegroundDeletion, [Next]_vars
    PROVE  FinalizerInv'
<1> USE DEF BaseInv
<1>1. ASSUME NEW o \in Object, Commit(o), Covered(o), UNCHANGED cache,
             pc' = "idle" \/ (pc # "idle" /\ UNCHANGED existing) \/ UNCHANGED <<pc, existing>>
      PROVE  FinalizerInv'
  <2>1. /\ events' = events \cup {server'} /\ server'.finalizers = o.finalizers
        /\ server'.deleting = o.deleting /\ server'.exists = o.exists
    BY <1>1, CommitFields
  <2>2. Covered(server')
    BY <1>1, <2>1 DEF Covered, HasFinalizer
  <2>3. \A p \in Versions' : p \in Versions \/ p = server'
    BY <1>1, <2>1 DEF Versions
  <2>4. pc' # "idle" => Covered(existing)'
    BY <1>1 DEF FinalizerInv, Covered, HasFinalizer
  <2> QED
    BY <2>2, <2>3, <2>4 DEF FinalizerInv
<1>2. ASSUME Versions' \subseteq Versions,
             pc' # "idle" => Covered(existing')
      PROVE  FinalizerInv'
  BY <1>2 DEF FinalizerInv
<1>3. pc # "idle" => Covered(existing)
  BY DEF FinalizerInv
<1>4. CASE OutsideStep
  <2>1. UNCHANGED <<pc, existing>>
    BY <1>4, OutsideSteps
  <2>2. CASE DeliverEvent
    BY <1>2, <1>3, <2>1, <2>2 DEF DeliverEvent, Versions
  <2>3. CASE UNCHANGED <<server, events, cache>>
    BY <1>2, <1>3, <2>1, <2>3 DEF Versions
  <2> QED
    BY <1>1, <1>4, <2>1, <2>2, <2>3, OutsideFinalizers
<1>5. CASE Get
  <2>1. Versions' = Versions /\ (pc' # "idle" => existing' = cache)
    BY <1>5 DEF Get, serverVars, workerVars, Versions
  <2> QED
    BY <1>2, <2>1 DEF FinalizerInv, Versions
<1>6. CASE InternalStep
  <2>1. Versions' = Versions /\ existing' = existing /\ pc # "idle"
    BY <1>6, InternalSteps DEF Versions
  <2> QED
    BY <1>2, <1>3, <2>1
<1>7. CASE UpdateStatus
  <2>1. CASE UNCHANGED <<server, events>>
    <3>1. Versions' = Versions /\ existing' = existing /\ pc # "idle"
      BY Zenon, <1>7, <2>1, StatusWrite DEF Versions
    <3> QED
      BY <1>2, <1>3, <3>1
  <2>2. CASE Commit(WithStatus(server, catalog.status))
    <3>1. catalog.status \in Status /\ server \in Object /\ Covered(server)
      BY DEF TypeOK, Object, WatchInv, FinalizerInv
    <3>2. /\ WithStatus(server, catalog.status) \in Object
          /\ Covered(WithStatus(server, catalog.status))
      BY <3>1, WithStatusFields DEF Covered, HasFinalizer
    <3> QED
      BY <1>1, <1>7, <2>2, <3>2, StatusWrite
  <2> QED
    BY <1>7, <2>1, <2>2, StatusWrite
<1>8. CASE UpdateFinalizers
  <2>1. CASE UNCHANGED <<server, events>>
    BY <1>2, <1>8, <2>1, FinalizersWrite DEF Versions
  <2> QED
    BY <1>1, <1>8, <2>1, FinalizersWrite
<1>9. CASE Restart
  <2>1. pc' = "idle" /\ Versions' \subseteq Versions
    BY <1>9 DEF Restart, Leave, Versions, WatchInv
  <2> QED
    BY <1>2, <2>1
<1>10. CASE UNCHANGED vars
  BY Zenon, <1>2, <1>3, <1>10 DEF vars, serverVars, workerVars, Versions
<1> QED
  BY Zenon, <1>4, <1>5, <1>6, <1>7, <1>8, <1>9, <1>10 DEF Next, OutsideStep, Reconcile, InternalStep

\* The steps of reconcile fill the disk only for a catalog that is Storable, and
\* take the finalizer off only once the disk is clean.
LEMMA InternalOrphan ==
    ASSUME BaseInv, FinalizerInv, OrphanInv, NoOrphan, InternalStep
    PROVE  /\ NoOrphan'
           /\ pc' \in {"status", "finalizers"} =>
                \/ catalog'.finalizers = existing'.finalizers
                \/ catalog'.finalizers = existing'.finalizers \cup {fbcDeletionFinalizer}
                \/ /\ catalog'.finalizers = existing'.finalizers \ {fbcDeletionFinalizer}
                   /\ DeletesCache(existing') /\ content' = None /\ ~unpackDir'
<1> USE DEF BaseInv
<1>0. /\ catalog \in Object /\ catalog.status \in Status
      /\ catalog.finalizers \in FinalizerSets
      /\ catalog.finalizers \cup {fbcDeletionFinalizer} \in FinalizerSets
      /\ catalog.finalizers \ {fbcDeletionFinalizer} \in FinalizerSets
      /\ catalog'.status \in Status
      /\ "retryable" \in Errors /\ "terminal" \in Errors
  <2>1. TypeOK'
    BY TypeNext DEF InternalStep, Next, Reconcile
  <2> QED
    BY <2>1 DEF TypeOK, Object, FinalizerSets, Errors
<1>1. UNCHANGED <<server, existing>>
  BY InternalSteps
<1>2. Finalized(existing) /\ pc # "idle" => HasFinalizer(server)
  BY DEF Finalized, FinalizerInv, Covered, HasFinalizer, OrphanInv, Storable
<1>3. pc \in {"reconcile", "store", "cleanup"} => catalog.finalizers = existing.finalizers
  BY DEF LocalInv
\* reconcile ends with an error.
<1>4. ASSUME NEW e \in Errors, pc \in {"reconcile", "store", "cleanup"},
             catalog' = WithStatus(catalog,
                            updateStatusProgressing(catalog.status, catalog.generation, e))
      PROVE  catalog'.finalizers = existing'.finalizers
  <2>1. updateStatusProgressing(catalog.status, catalog.generation, e) \in Status
    BY <1>0, ProgressingStatus
  <2> QED
    BY <1>0, <1>1, <1>3, <1>4, <2>1, WithStatusFields
<1>5. CASE StorageDelete
  <2>1. content' \in {content, None} /\ UNCHANGED unpackDir
    BY <1>5 DEF StorageDelete
  <2>2. pc' \in {"status", "finalizers"} => catalog'.finalizers = existing'.finalizers
    BY Zenon, <1>0, <1>4, <1>5 DEF StorageDelete, ReturnError
  <2> QED
    BY <1>1, <2>1, <2>2 DEF NoOrphan
<1>6. CASE UnpackerCleanup
  <2>1. /\ pc = "cleanup" /\ DeletesCache(existing) /\ content' = None
        /\ unpackDir' = unpackDir \/ ~unpackDir'
    BY <1>6 DEF UnpackerCleanup, LocalInv
  <2>2. CASE catalog' = WithStatus(catalog,
                updateStatusProgressing(catalog.status, catalog.generation, "retryable"))
    BY <1>0, <1>1, <1>4, <2>1, <2>2 DEF NoOrphan
  <2>3. CASE catalog' # WithStatus(catalog,
                updateStatusProgressing(catalog.status, catalog.generation, "retryable"))
    <3> DEFINE s == IF catalog.spec.availabilityMode = "Unavailable"
                    THEN updateStatusProgressingUserSpecifiedUnavailable(
                             catalog.status, catalog.generation)
                    ELSE catalog.status
    <3>1. /\ catalog' = WithFinalizers(WithStatus(catalog, s),
                            catalog.finalizers \ {fbcDeletionFinalizer})
          /\ ~unpackDir'
      BY ZenonT(60), <1>6, <2>3 DEF UnpackerCleanup, ReturnError
    <3>2. s \in Status
      BY <1>0, DisabledStatus
    <3> HIDE DEF s
    <3>3. WithStatus(catalog, s) \in Object
      BY <1>0, <3>2, WithStatusFields
    <3>4. catalog'.finalizers = existing'.finalizers \ {fbcDeletionFinalizer}
      <4> DEFINE o == WithStatus(catalog, s)
                 fs == catalog.finalizers \ {fbcDeletionFinalizer}
      <4>1. catalog' = WithFinalizers(o, fs) /\ o \in Object /\ fs \in FinalizerSets
        BY <1>0, <3>1, <3>3
      <4>2. fs = existing'.finalizers \ {fbcDeletionFinalizer}
        BY <1>1, <1>3, <2>1
      <4> HIDE DEF o, fs
      <4> QED
        BY ZenonT(60), <4>1, <4>2, WithFinalizersFields
    <3>5. DeletesCache(existing')
      BY Zenon, <1>1, <2>1
    <3> QED
      BY Zenon, <2>1, <3>1, <3>4, <3>5 DEF NoOrphan
  <2> QED
    BY ZenonT(60), <2>2, <2>3
<1>7. CASE AddFinalizer
  <2>1. /\ UNCHANGED <<content, unpackDir>> /\ pc = "reconcile"
        /\ catalog' = WithFinalizers(catalog, catalog.finalizers \cup {fbcDeletionFinalizer})
    BY <1>7 DEF AddFinalizer, diskVars
  <2>2. catalog'.finalizers = catalog.finalizers \cup {fbcDeletionFinalizer}
    BY ZenonT(60), <1>0, <2>1, WithFinalizersFields
  <2> QED
    BY ZenonT(60), <1>1, <1>3, <2>1, <2>2 DEF NoOrphan
<1>8. CASE SkipUnpack
  BY <1>1, <1>3, <1>8 DEF SkipUnpack, diskVars, NoOrphan
<1>9. CASE Unpack
  <2>1. pc = "reconcile" /\ Finalized(existing)
    <3>1. pc = "reconcile" /\ Finalized(catalog)
      BY Zenon, <1>9 DEF Unpack
    <3>2. catalog = existing
      BY Zenon, <3>1 DEF LocalInv
    <3> QED
      BY Zenon, <3>1, <3>2
  <2>2. pc' \in {"status", "finalizers"} => catalog'.finalizers = existing'.finalizers
    BY ZenonT(60), <1>0, <1>4, <1>9, <2>1 DEF Unpack, ReturnError
  <2> QED
    BY ZenonT(60), <1>1, <1>2, <2>1, <2>2 DEF NoOrphan, HasFinalizer
<1>10. CASE Store
  <2>1. pc = "store" /\ Finalized(existing)
    BY Zenon, <1>10 DEF Store, LocalInv
  <2>2. catalog'.finalizers = catalog.finalizers
    <3>1. PICK s : catalog' = WithStatus(catalog, s)
      BY <1>10 DEF Store, ReturnError
    <3> QED
      BY Zenon, <1>0, <3>1 DEF WithStatus, Object
  <2> QED
    BY Zenon, <1>1, <1>2, <1>3, <2>1, <2>2 DEF NoOrphan, HasFinalizer
<1> QED
  BY Zenon, <1>5, <1>6, <1>7, <1>8, <1>9, <1>10 DEF InternalStep

\* Without foreground deletions OrphanInv and NoOrphan are preserved.  The step
\* that matters is the write that takes the finalizer off: it is accepted only
\* if every version left to read agrees with the one that was read, so none of
\* them is Storable.
LEMMA OrphanNext ==
    ASSUME BaseInv, FinalizerInv, OrphanInv, NoOrphan, ~ForegroundDeletion, [Next]_vars
    PROVE  OrphanInv' /\ NoOrphan'
<1> USE DEF BaseInv
<1> DEFINE Local == pc \in {"status", "finalizers"} =>
                 \/ catalog.finalizers = existing.finalizers
                 \/ catalog.finalizers = existing.finalizers \cup {fbcDeletionFinalizer}
                 \/ /\ catalog.finalizers = existing.finalizers \ {fbcDeletionFinalizer}
                    /\ DeletesCache(existing) /\ content = None /\ ~unpackDir
<1>1. ASSUME NEW o \in Object, Commit(o), HasFinalizer(o) <=> HasFinalizer(server),
             UNCHANGED <<cache, existing, content, unpackDir>>,
             pc # "idle" \/ UNCHANGED pc, Local'
      PROVE  OrphanInv' /\ NoOrphan'
  <2>1. events' = events \cup {server'} /\ server'.finalizers = o.finalizers
    BY <1>1, CommitFields
  <2>2. HasFinalizer(server') <=> HasFinalizer(server)
    BY <1>1, <2>1 DEF HasFinalizer
  <2>3. \A p \in Versions' : p \in Versions \/ p = server'
    BY <1>1, <2>1 DEF Versions
  <2>4. ~HasFinalizer(server') => \A p \in Versions' : ~Storable(p)
    BY <2>2, <2>3 DEF OrphanInv, Storable
  <2>5. ~HasFinalizer(server') /\ pc' # "idle" => ~Storable(existing')
    BY <1>1, <2>2 DEF OrphanInv
  <2>6. NoOrphan'
    BY <1>1, <2>2 DEF NoOrphan, HasFinalizer
  <2> QED
    BY ZenonT(60), <1>1, <2>4, <2>5, <2>6 DEF OrphanInv
<1>2. ASSUME UNCHANGED server, Versions' \subseteq Versions, Local',
             pc' # "idle" => (pc # "idle" /\ existing' = existing) \/ existing' \in Versions
      PROVE  OrphanInv'
  <2>1. HasFinalizer(server)' <=> HasFinalizer(server)
    BY ZenonT(60), <1>2 DEF HasFinalizer
  <2>2. ~HasFinalizer(server) /\ pc' # "idle" => ~Storable(existing')
    BY <1>2 DEF OrphanInv
  <2> QED
    BY Zenon, <1>2, <2>1, <2>2 DEF OrphanInv
<1>3. CASE OutsideStep
  <2>1. UNCHANGED <<pc, existing, catalog, content, unpackDir>>
    BY Zenon, <1>3, OutsideSteps
  <2>2. Local'
    BY ZenonT(60), <2>1 DEF OrphanInv, DeletesCache
  <2>3. CASE DeliverEvent \/ UNCHANGED <<server, events, cache>>
    <3>1. UNCHANGED server /\ Versions' \subseteq Versions
      BY ZenonT(60), <2>3 DEF DeliverEvent, Versions
    <3> QED
      BY <1>2, <2>1, <2>2, <3>1 DEF NoOrphan
  <2> HIDE DEF Local
  <2> QED
    BY Zenon, <1>1, <1>3, <2>1, <2>2, <2>3, OutsideFinalizers
<1>4. CASE Get
  <2>1. /\ UNCHANGED <<server, content, unpackDir>> /\ Versions' = Versions
        /\ pc' # "idle" => existing' = cache /\ pc' \in {"idle", "reconcile"}
    BY <1>4 DEF Get, serverVars, workerVars, diskVars, Versions
  <2> QED
    BY <1>2, <2>1 DEF NoOrphan, Versions
<1>5. CASE InternalStep
  <2>1. UNCHANGED <<server, existing>> /\ Versions' = Versions /\ pc # "idle"
    BY Zenon, <1>5, InternalSteps DEF Versions
  <2>2. NoOrphan' /\ Local'
    BY Zenon, <1>5, InternalOrphan
  <2> QED
    BY <1>2, <2>1, <2>2
<1>6. CASE UpdateStatus
  <2>1. /\ UNCHANGED <<cache, existing, content, unpackDir>>
        /\ pc = "status" /\ catalog'.finalizers = catalog.finalizers
    <3>1. catalog.finalizers \in FinalizerSets
      BY Zenon DEF TypeOK, Object, FinalizerSets
    <3> QED
      BY <1>6, <3>1, StatusWrite, WithFinalizersFields
  <2>2. Local'
    BY Zenon, <2>1 DEF OrphanInv, DeletesCache
  <2> HIDE DEF Local
  <2>3. CASE UNCHANGED <<server, events>>
    BY Zenon, <1>2, <2>1, <2>2, <2>3 DEF NoOrphan, Versions
  <2>4. CASE Commit(WithStatus(server, catalog.status))
    <3>1. /\ WithStatus(server, catalog.status) \in Object
          /\ HasFinalizer(WithStatus(server, catalog.status)) <=> HasFinalizer(server)
      <4>1. server \in Object /\ catalog.status \in Status
        BY DEF TypeOK, Object
      <4> QED
        BY Zenon, <4>1, WithStatusFields DEF HasFinalizer
    <3> QED
      BY Zenon, <1>1, <2>1, <2>2, <2>4, <3>1
  <2> QED
    BY ZenonT(60), <1>6, <2>3, <2>4, StatusWrite
<1>7. CASE UpdateFinalizers
  <2>1. pc' = "idle" /\ UNCHANGED <<cache, content, unpackDir>>
    BY <1>7, FinalizersWrite
  <2>2. CASE UNCHANGED <<server, events>>
    BY Zenon, <1>2, <2>1, <2>2 DEF NoOrphan, Versions
  <2>3. ASSUME NEW o \in Object, Commit(o),
               HasFinalizer(o) <=> fbcDeletionFinalizer \in catalog.finalizers,
               \A p \in Versions : SameMeta(p, existing)
        PROVE  OrphanInv' /\ NoOrphan'
    <3>1. /\ events' = events \cup {server'} /\ server'.finalizers = o.finalizers
          /\ HasFinalizer(server') <=> fbcDeletionFinalizer \in catalog.finalizers
      BY <2>3, CommitFields DEF HasFinalizer
    <3>2. \A p \in Versions' : p \in Versions \/ p = server'
      BY Zenon, <2>1, <3>1 DEF Versions
    <3>3. HasFinalizer(server) <=> HasFinalizer(existing)
      BY Zenon, <2>3 DEF WatchInv, SameMeta, HasFinalizer
    <3>4. ASSUME ~HasFinalizer(server')
          PROVE  /\ \A p \in Versions : ~Storable(p)
                 /\ (content = None /\ ~unpackDir) \/ ~HasFinalizer(server)
      <4>1. \/ ~HasFinalizer(server)
            \/ DeletesCache(existing) /\ content = None /\ ~unpackDir
        BY <1>7, <3>1, <3>3, <3>4 DEF UpdateFinalizers, OrphanInv, HasFinalizer
      <4> QED
        BY <2>3, <4>1 DEF OrphanInv, Storable, SameMeta, DeletesCache
    <3>5. NoOrphan'
      BY <2>1, <3>1, <3>4 DEF NoOrphan, HasFinalizer
    <3> QED
      BY Zenon, <2>1, <3>2, <3>4, <3>5 DEF OrphanInv, Storable
  <2> QED
    BY <1>7, <2>2, <2>3, FinalizersWrite
<1>8. CASE Restart
  <2>1. /\ pc' = "idle" /\ UNCHANGED server /\ Versions' \subseteq Versions
    BY ZenonT(60), <1>8 DEF Restart, Leave, Versions, WatchInv
  <2>2. pc = "reconcile" /\ Finalized(catalog) => HasFinalizer(server)
    <3>1. pc = "reconcile" => catalog = existing
      BY DEF LocalInv
    <3> QED
      BY <3>1 DEF Finalized, FinalizerInv, Covered, HasFinalizer, OrphanInv, Storable
  <2>3. NoOrphan'
    BY Zenon, <1>8, <2>1, <2>2 DEF Restart, NoOrphan, HasFinalizer
  <2> QED
    BY <1>2, <2>1, <2>3
<1>9. CASE UNCHANGED vars
  <2>1. /\ UNCHANGED <<server, pc, existing, catalog, content, unpackDir>>
        /\ Versions' = Versions
    BY <1>9 DEF vars, serverVars, workerVars, diskVars, Versions
  <2> QED
    BY <1>2, <2>1 DEF OrphanInv, NoOrphan, DeletesCache
<1> QED
  BY Zenon, <1>3, <1>4, <1>5, <1>6, <1>7, <1>8, <1>9 DEF Next, OutsideStep, Reconcile, InternalStep

-------------------------------------------------------------------------------
(* Versions and generations.                                                 *)

\* The versions a reconcile has read or can still read.
Known == Versions \cup (IF pc = "idle" THEN {} ELSE {existing})

\* While the catalog has its finalizer, it is the same object that was read
\* before, and a generation of it stands for one spec.
IncarnationInv ==
    HasFinalizer(server) =>
        \A o \in Known : /\ o.generation <= server.generation
                         /\ \A p \in Known : o.generation = p.generation => o.spec = p.spec

DiskInv == BaseInv /\ FinalizerInv /\ OrphanInv /\ NoOrphan

\* How the versions that can be read evolve.  They become fewer, or the API
\* server takes a new one: a new generation of an object that others changed, a
\* new status, or the finalizers of an object of which there is no other version.
LEMMA KnownNext ==
    ASSUME DiskInv, ~ForegroundDeletion, [Next]_vars
    PROVE  \/ UNCHANGED server /\ Known' \subseteq Known
           \/ /\ Known' \subseteq Known \cup {server'}
              /\ HasFinalizer(server') <=> HasFinalizer(server)
              /\ \/ HasFinalizer(server') => server'.generation > server.generation
                 \/ SameMeta(server', server)
           \/ /\ UpdateFinalizers
              /\ HasFinalizer(server') <=> HasFinalizer(catalog)
              /\ HasFinalizer(existing) <=> HasFinalizer(server)
              /\ HasFinalizer(server') =>
                   /\ server'.generation = server.generation /\ server'.spec = server.spec
                   /\ \A o \in Known' : /\ o.generation = server'.generation
                                        /\ o.spec = server'.spec
<1> USE DEF DiskInv, BaseInv
<1>1. ASSUME Versions' \subseteq Versions,
             pc' # "idle" => (pc # "idle" /\ existing' = existing) \/ existing' \in Versions
      PROVE  Known' \subseteq Known
  BY <1>1 DEF Known
<1>2. ASSUME NEW o \in Object, Commit(o), UNCHANGED <<cache, existing>>,
             pc # "idle" \/ pc' = "idle"
      PROVE  Known' \subseteq Known \cup {server'}
  <2>1. Versions' \subseteq Versions \cup {server'}
    BY Zenon, <1>2, CommitFields DEF Versions
  <2> QED
    BY <1>2, <2>1 DEF Known
<1>3. CASE OutsideStep
  <2>1. UNCHANGED <<pc, existing>>
    BY <1>3, OutsideSteps
  <2>2. CASE DeliverEvent \/ UNCHANGED <<server, events, cache>>
    <3>1. UNCHANGED server /\ Versions' \subseteq Versions
      BY ZenonT(60), <2>2 DEF DeliverEvent, Versions
    <3> QED
      BY <1>1, <2>1, <3>1
  <2>3. ASSUME NEW o \in Object, Commit(o), UNCHANGED cache,
               HasFinalizer(o) <=> HasFinalizer(server),
               HasFinalizer(o) => o.generation > server.generation
        PROVE  /\ Known' \subseteq Known \cup {server'}
               /\ HasFinalizer(server') <=> HasFinalizer(server)
               /\ HasFinalizer(server') => server'.generation > server.generation
    BY <1>2, <2>1, <2>3, CommitFields DEF HasFinalizer
  <2> QED
    BY ZenonT(60), <1>3, <2>2, <2>3, OutsideFinalizers
<1>4. CASE Get
  <2>1. /\ UNCHANGED server /\ Versions' = Versions
        /\ pc' # "idle" => existing' = cache
    BY <1>4 DEF Get, serverVars, workerVars, Versions
  <2> QED
    BY <1>1, <2>1 DEF Versions
<1>5. CASE InternalStep
  <2>1. UNCHANGED <<server, existing>> /\ Versions' = Versions /\ pc # "idle"
    BY Zenon, <1>5, InternalSteps DEF Versions
  <2> QED
    BY <1>1, <2>1
<1>6. CASE UpdateStatus
  <2>1. pc = "status" /\ UNCHANGED <<cache, existing>>
    BY <1>6, StatusWrite
  <2>2. CASE UNCHANGED <<server, events>>
    BY Zenon, <1>1, <2>1, <2>2 DEF Versions
  <2>3. CASE Commit(WithStatus(server, catalog.status)) /\ SameMeta(server', server)
    <3>1. WithStatus(server, catalog.status) \in Object
      BY Zenon, WithStatusFields DEF TypeOK, Object
    <3>2. Known' \subseteq Known \cup {server'}
      BY Zenon, <1>2, <2>1, <2>3, <3>1
    <3> QED
      BY Zenon, <2>3, <3>2 DEF SameMeta, HasFinalizer
  <2> QED
    BY ZenonT(60), <1>6, <2>2, <2>3, StatusWrite
<1>7. CASE UpdateFinalizers
  <2>1. pc' = "idle" /\ UNCHANGED cache
    BY Zenon, <1>7, FinalizersWrite
  <2>2. CASE UNCHANGED <<server, events>>
    BY Zenon, <1>1, <2>1, <2>2 DEF Versions
  <2>3. ASSUME NEW o \in Object, Commit(o), HasFinalizer(o) <=> HasFinalizer(catalog),
               HasFinalizer(o) => o.generation = server.generation /\ o.spec = server.spec,
               \A p \in Versions : SameMeta(p, existing)
        PROVE  /\ HasFinalizer(server') <=> HasFinalizer(catalog)
               /\ HasFinalizer(existing) <=> HasFinalizer(server)
               /\ HasFinalizer(server') =>
                    /\ server'.generation = server.generation /\ server'.spec = server.spec
                    /\ \A p \in Known' : /\ p.generation = server'.generation
                                         /\ p.spec = server'.spec
    <3>1. /\ server'.finalizers = o.finalizers /\ server'.generation = o.generation
          /\ server'.spec = o.spec /\ events' = events \cup {server'}
      BY <2>3, CommitFields
    <3>2. Known' \subseteq Versions \cup {server'}
      BY Zenon, <2>1, <3>1 DEF Known, Versions
    <3>3. SameMeta(server, existing)
      BY Zenon, <2>3 DEF WatchInv
    <3>4. ASSUME NEW p \in Versions
          PROVE  p.generation = server.generation /\ p.spec = server.spec
      BY ZenonT(60), <2>3, <3>3, <3>4 DEF SameMeta
    <3> QED
      BY ZenonT(60), <2>3, <3>1, <3>2, <3>3, <3>4 DEF SameMeta, HasFinalizer
  <2> QED
    BY Zenon, <1>7, <2>2, <2>3, FinalizersWrite DEF HasFinalizer
<1>8. CASE Restart
  <2>1. pc' = "idle" /\ UNCHANGED server /\ Versions' \subseteq Versions
    BY Zenon, <1>8 DEF Restart, Leave, Versions, WatchInv
  <2> QED
    BY <1>1, <2>1
<1>9. CASE UNCHANGED vars
  <2>1. UNCHANGED <<server, pc, existing>> /\ Versions' = Versions
    BY <1>9 DEF vars, serverVars, workerVars, Versions
  <2> QED
    BY <1>1, <2>1
<1> QED
  BY Zenon, <1>3, <1>4, <1>5, <1>6, <1>7, <1>8, <1>9
     DEF Next, OutsideStep, Reconcile, InternalStep

\* The versions are objects, and the API server's is one of them.
LEMMA KnownObjects ==
    ASSUME DiskInv
    PROVE  server \in Known /\ \A o \in Known : o.generation \in Nat
<1>1. server \in Known
  BY DEF DiskInv, BaseInv, WatchInv, Known
<1>2. Known \subseteq Object
  BY ZenonT(60) DEF DiskInv, BaseInv, TypeOK, Known, Versions
<1> QED
  BY <1>1, <1>2 DEF Object

\* IncarnationInv is preserved: a generation is new when a user changes the
\* object, and the finalizer is added only when there is one version.
LEMMA IncarnationNext ==
    ASSUME DiskInv, DiskInv', IncarnationInv, ~ForegroundDeletion, [Next]_vars
    PROVE  IncarnationInv'
<1> SUFFICES ASSUME HasFinalizer(server')
             PROVE  \A o \in Known' :
                      /\ o.generation <= server'.generation
                      /\ \A p \in Known' : o.generation = p.generation => o.spec = p.spec
  BY DEF IncarnationInv
<1>0. /\ server \in Known /\ \A o \in Known : o.generation \in Nat
      /\ \A o \in Known' : o.generation \in Nat
      /\ server'.generation \in Nat
  <2>1. Known' \subseteq Object /\ server' \in Object
    BY DEF DiskInv, BaseInv, TypeOK, Known, Versions
  <2> QED
    BY ZenonT(60), <2>1, KnownObjects DEF Object
<1>1. CASE UNCHANGED server /\ Known' \subseteq Known
  BY <1>1 DEF IncarnationInv
<1>2. CASE /\ Known' \subseteq Known \cup {server'} /\ HasFinalizer(server)
           /\ server'.generation > server.generation
  <2>1. \A o \in Known : o.generation < server'.generation
    BY <1>0, <1>2 DEF IncarnationInv
  <2> QED
    BY <1>0, <1>2, <2>1 DEF IncarnationInv
<1>3. CASE /\ Known' \subseteq Known \cup {server'} /\ HasFinalizer(server)
           /\ SameMeta(server', server)
  <2>1. server'.generation = server.generation /\ server'.spec = server.spec
    BY <1>3 DEF SameMeta
  <2> QED
    BY <1>0, <1>3, <2>1 DEF IncarnationInv
<1>4. CASE \A o \in Known' : o.generation = server'.generation /\ o.spec = server'.spec
  BY SMTT(30), <1>0, <1>4
<1> QED
  BY <1>1, <1>2, <1>3, <1>4, KnownNext

\* A catalog for which reconcile goes on to unpack has its finalizer, in what was
\* read and in the API server, and is not being deleted.
LEMMA FinalizedHasFinalizer ==
    ASSUME DiskInv, pc # "idle", Finalized(existing)
    PROVE  /\ HasFinalizer(existing) /\ HasFinalizer(server)
           /\ ~existing.deleting /\ existing.spec.availabilityMode # "Unavailable"
<1>1. Covered(existing)
  BY Zenon DEF DiskInv, FinalizerInv
<1>2. HasFinalizer(existing) /\ ~DeletesCache(existing)
  BY <1>1 DEF Covered, Finalized, HasFinalizer
<1> QED
  BY <1>2 DEF DiskInv, OrphanInv, Storable, DeletesCache, HasFinalizer

-------------------------------------------------------------------------------
(* Theorems.                                                                 *)

\* Without foreground deletions DiskInv and IncarnationInv are inductive.
LEMMA DiskInvariant ==
    ASSUME ~ForegroundDeletion
    PROVE  Spec => []DiskInv /\ []IncarnationInv
<1>1. Init => FinalizerInv /\ OrphanInv /\ NoOrphan /\ IncarnationInv
  BY Objects DEF Init, FinalizerInv, OrphanInv, NoOrphan, IncarnationInv, Versions, Covered,
     Storable, HasFinalizer
<1>2. BaseInv /\ FinalizerInv /\ OrphanInv /\ NoOrphan /\ [Next]_vars
        => FinalizerInv' /\ OrphanInv' /\ NoOrphan'
  BY FinalizerNext, OrphanNext
<1>3. DiskInv /\ DiskInv' /\ IncarnationInv /\ [Next]_vars => IncarnationInv'
  BY IncarnationNext
<1>4. DiskInv <=> BaseInv /\ FinalizerInv /\ OrphanInv /\ NoOrphan
  BY DEF DiskInv
<1> QED
  BY <1>1, <1>2, <1>3, <1>4, BaseInvariant, PTL DEF Spec

\* Unless some other party holds a finalizer of its own on a catalog that is
\* being deleted, the object never loses the controller's finalizer, and so
\* never disappears, while content or an unpack directory is left on disk.
THEOREM NothingOrphaned == ~ForegroundDeletion => (Spec => []NoOrphan)
<1> SUFFICES ASSUME ~ForegroundDeletion
             PROVE  Spec => []NoOrphan
  BY SMTT(30)
<1>1. DiskInv => NoOrphan
  BY DEF DiskInv
<1> QED
  BY <1>1, DiskInvariant, PTL

===============================================================================

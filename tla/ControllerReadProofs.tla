-------------------------- MODULE ControllerReadProofs -------------------------
(***************************************************************************)
(* Theorems about ClusterCatalogController, for any references, digests,   *)
(* specs, faults and bounds.  This module: type correctness, and what the  *)
(* optimistic concurrency of the API server gives the reconciler.  The     *)
(* versions it may still read are ordered and not older than the one it has*)
(* read, and as long as no version follows the one it would overwrite, they*)
(* all agree with what it has read.                                        *)
(***************************************************************************)
EXTENDS ClusterCatalogController, TLAPS

\* The versions the informer has or will have.
Versions == events \cup {cache}

\* o and p differ in nothing but their status and resourceVersion.
SameMeta(o, p) == /\ o.exists = p.exists /\ o.generation = p.generation
                  /\ o.spec = p.spec /\ o.deleting = p.deleting
                  /\ o.finalizers = p.finalizers

\* The watch delivers versions in order, the API server's last.
WatchInv ==
    /\ \A o \in events : cache.rv < o.rv /\ o.rv <= server.rv
    /\ \A o, p \in events : o.rv = p.rv => o = p
    /\ server \in Versions

\* What a reconcile that is under way has read is still current as far as the
\* resourceVersion it holds says so.
ReadInv ==
    pc # "idle" =>
        /\ existing.rv <= catalog.rv /\ catalog.rv <= server.rv
        /\ pc # "finalizers" => catalog.rv = existing.rv
        /\ \A o \in Versions : /\ existing.rv <= o.rv
                               /\ o.rv = existing.rv => o = existing
                               /\ o.rv <= catalog.rv => SameMeta(o, existing)

\* What a reconcile has done so far.
LocalInv ==
    /\ pc # "idle" => /\ existing.exists /\ catalog.exists = existing.exists
                      /\ catalog.generation = existing.generation
                      /\ catalog.spec = existing.spec
                      /\ catalog.deleting = existing.deleting
    /\ pc \in {"reconcile", "store"} => catalog = existing
    /\ pc = "cleanup" => /\ DeletesCache(existing) /\ content = None
                         /\ catalog.finalizers = existing.finalizers
                         /\ catalog.status.serving = "Unavailable"
    /\ pc = "store" => Finalized(existing)

-------------------------------------------------------------------------------
(* Type correctness.                                                         *)

\* updateStatusProgressing touches the Progressing condition only, and says
\* Succeeded only without an error.
LEMMA ProgressingStatus ==
    \A s \in Status, o \in Object, e \in Errors :
        /\ updateStatusProgressing(s, o.generation, e) \in Status
        /\ updateStatusProgressing(s, o.generation, e).serving = s.serving
        /\ updateStatusProgressing(s, o.generation, e).servingGen = s.servingGen
        /\ updateStatusProgressing(s, o.generation, e).progressingGen = o.generation
        /\ updateStatusProgressing(s, o.generation, e).progressing = "Succeeded" => e = "none"
<1> TAKE s \in Status, o \in Object, e \in Errors
<1> DEFINE reason == CASE e = "none"      -> "Succeeded"
                       [] e = "retryable" -> "Retrying"
                       [] e = "terminal"  -> "Blocked"
<1>1. reason \in ProgressingReasons /\ (reason = "Succeeded" => e = "none")
  BY DEF Errors, ProgressingReasons
<1>2. updateStatusProgressing(s, o.generation, e) =
        [s EXCEPT !.progressing = reason, !.progressingGen = o.generation]
  BY DEF updateStatusProgressing
<1> HIDE DEF reason
<1> QED
  BY Zenon, <1>1, <1>2 DEF Object, Status

\* updateStatusServing names the result and the generation it is given.
LEMMA ServingStatus ==
    \A s \in Status, o \in Object, r \in Results :
        /\ updateStatusServing(s, r, o.generation) \in Status
        /\ updateStatusServing(s, r, o.generation).resolved = r
        /\ updateStatusServing(s, r, o.generation).servingGen = o.generation
        /\ updateStatusServing(s, r, o.generation).progressingGen = s.progressingGen
  BY ZenonT(60) DEF Object, Status, ProgressingReasons, ServingReasons, updateStatusServing

\* updateStatusNotServing leaves the catalog Unavailable.
LEMMA NotServingStatus ==
    \A s \in Status, o \in Object :
        /\ updateStatusNotServing(s, o.generation) \in Status
        /\ updateStatusNotServing(s, o.generation).serving = "Unavailable"
        /\ updateStatusNotServing(s, o.generation).servingGen = o.generation
        /\ updateStatusNotServing(s, o.generation).progressingGen = s.progressingGen
  BY ZenonT(60) DEF Object, Status, ProgressingReasons, ServingReasons, updateStatusNotServing

\* The status of a disabled catalog is not Available.
LEMMA DisabledStatus ==
    \A s \in Status, o \in Object :
        /\ updateStatusProgressingUserSpecifiedUnavailable(s, o.generation) \in Status
        /\ updateStatusProgressingUserSpecifiedUnavailable(s, o.generation).serving # "Available"
        /\ updateStatusProgressingUserSpecifiedUnavailable(s, o.generation).servingGen = o.generation
        /\ updateStatusProgressingUserSpecifiedUnavailable(s, o.generation).progressingGen = o.generation
  BY ZenonT(60) DEF Object, Status, ProgressingReasons, ServingReasons,
     updateStatusProgressingUserSpecifiedUnavailable

\* The objects users start from.
LEMMA Objects ==
    /\ NoObject \in Object
    /\ ~NoObject.exists /\ ~NoObject.deleting /\ NoObject.finalizers = {}
    /\ NoObject.status = EmptyStatus
    /\ EmptyStatus.servingGen = 0 /\ EmptyStatus.progressingGen = 0
    /\ EmptyStatus.progressing = "Absent"
    /\ \A spec \in Specs :
          /\ NewObject(spec) \in Object
          /\ NewObject(spec).exists /\ ~NewObject(spec).deleting /\ NewObject(spec).finalizers = {}
          /\ NewObject(spec).status = EmptyStatus
  BY Zenon, ControllerAssumption DEF NoObject, NewObject, Object, EmptyStatus, Status,
     ProgressingReasons, ServingReasons

FinalizerSets == SUBSET {fbcDeletionFinalizer, foregroundFinalizer}

\* WithStatus changes the status only.
LEMMA WithStatusFields ==
    \A o \in Object, s \in Status :
        /\ WithStatus(o, s) \in Object /\ WithStatus(o, s).status = s
        /\ WithStatus(o, s).rv = o.rv /\ WithStatus(o, s).exists = o.exists
        /\ WithStatus(o, s).generation = o.generation /\ WithStatus(o, s).spec = o.spec
        /\ WithStatus(o, s).deleting = o.deleting
        /\ WithStatus(o, s).finalizers = o.finalizers
  BY DEF Object, WithStatus

\* WithFinalizers changes the finalizers only.
LEMMA WithFinalizersFields ==
    \A o \in Object, fs \in FinalizerSets :
        /\ WithFinalizers(o, fs) \in Object /\ WithFinalizers(o, fs).finalizers = fs
        /\ WithFinalizers(o, fs).rv = o.rv /\ WithFinalizers(o, fs).exists = o.exists
        /\ WithFinalizers(o, fs).generation = o.generation
        /\ WithFinalizers(o, fs).spec = o.spec
        /\ WithFinalizers(o, fs).deleting = o.deleting
        /\ WithFinalizers(o, fs).status = o.status
  BY DEF Object, WithFinalizers, FinalizerSets

\* WithSpec moves the generation on and keeps finalizers and status.
LEMMA WithSpecFields ==
    \A o \in Object, spec \in Specs :
        /\ WithSpec(o, spec) \in Object /\ WithSpec(o, spec).finalizers = o.finalizers
        /\ WithSpec(o, spec).generation = o.generation + 1
        /\ WithSpec(o, spec).exists = o.exists
        /\ WithSpec(o, spec).deleting = o.deleting /\ WithSpec(o, spec).status = o.status
<1> TAKE o \in Object, spec \in Specs
<1>1. o.generation + 1 \in Nat /\ [o EXCEPT !.spec = spec].generation = o.generation
  BY DEF Object
<1> QED
  BY Zenon, <1>1 DEF Object, WithSpec

\* Deleting moves the generation on and keeps the status.
LEMMA DeletingFields ==
    \A o \in Object :
        /\ Deleting(o) \in Object /\ Deleting(o).status = o.status
        /\ Deleting(o).generation = o.generation + 1
        /\ Deleting(o).exists = o.exists
<1> TAKE o \in Object
<1>1. o.generation + 1 \in Nat /\ [o EXCEPT !.deleting = TRUE].generation = o.generation
  BY DEF Object
<1> QED
  BY ZenonT(60), <1>1 DEF Object, Deleting

\* AtVersion changes the resourceVersion only.
LEMMA AtVersionFields ==
    \A o \in Object, rv \in Nat :
        /\ AtVersion(o, rv) \in Object /\ AtVersion(o, rv).rv = rv
        /\ AtVersion(o, rv).exists = o.exists
        /\ AtVersion(o, rv).generation = o.generation /\ AtVersion(o, rv).spec = o.spec
        /\ AtVersion(o, rv).deleting = o.deleting
        /\ AtVersion(o, rv).finalizers = o.finalizers
        /\ AtVersion(o, rv).status = o.status
  BY DEF Object, AtVersion

\* A committed object is the next version, and is on its way to the informer.
LEMMA CommitFields ==
    ASSUME TypeOK, NEW o \in Object, Commit(o)
    PROVE  /\ server' \in Object /\ server'.rv = server.rv + 1
           /\ server'.exists = o.exists /\ server'.generation = o.generation
           /\ server'.spec = o.spec /\ server'.deleting = o.deleting
           /\ server'.finalizers = o.finalizers /\ server'.status = o.status
           /\ events' = events \cup {server'} /\ events' \in SUBSET Object
<1>1. server.rv + 1 \in Nat
  BY DEF TypeOK, Object
<1>2. server' = AtVersion(o, server.rv + 1) /\ events' = events \cup {server'}
  BY DEF Commit
<1>3. events \in SUBSET Object
  BY DEF TypeOK
<1>4. /\ server' \in Object /\ server'.rv = server.rv + 1
      /\ server'.exists = o.exists /\ server'.generation = o.generation
      /\ server'.spec = o.spec /\ server'.deleting = o.deleting
      /\ server'.finalizers = o.finalizers /\ server'.status = o.status
  BY Zenon, <1>1, <1>2, AtVersionFields
<1>5. events' \in SUBSET Object
  BY Zenon, <1>2, <1>3, <1>4
<1> QED
  BY Zenon, <1>2, <1>4, <1>5

\* Every step keeps the variables in their types.
LEMMA TypeNext == TypeOK /\ [Next]_vars => TypeOK'
<1> SUFFICES ASSUME TypeOK, [Next]_vars PROVE TypeOK'
  OBVIOUS
<1> USE DEF TypeOK
<1>0. /\ server.finalizers \in FinalizerSets /\ catalog.finalizers \in FinalizerSets
      /\ catalog.generation \in Nat /\ catalog.spec \in Specs
      /\ catalog.status \in Status /\ server.status \in Status
      /\ catalog.spec.poll \in BOOLEAN /\ catalog.spec.ref \in Refs
      /\ "retryable" \in Errors /\ "none" \in Errors /\ "terminal" \in Errors
  BY ControllerAssumption DEF ClusterCatalogSpec, Object, Errors, FinalizerSets
<1>a. \A e \in Errors :
         /\ updateStatusProgressing(catalog.status, catalog.generation, e) \in Status
         /\ WithStatus(catalog, updateStatusProgressing(catalog.status, catalog.generation, e))
                \in Object
  BY Zenon, <1>0, ProgressingStatus, WithStatusFields
<1>b. WithStatus(catalog, updateStatusProgressing(catalog.status, catalog.generation,
                                                  "retryable")) \in Object
  BY <1>0, <1>a
<1>c. Fault("disk") \/ Fault("registry") \/ Fault("crash") \/ Fault("podReplaced")
        \/ Fault("api") \/ Fault("reply") \/ faults' = faults => faults' \in Nat
  BY DEF Fault
<1>1. CASE Create
  <2>1. PICK spec \in Specs : Commit(NewObject(spec))
    BY <1>1 DEF Create
  <2> QED
    BY <1>1, <2>1, Objects, CommitFields
       DEF Create, UserWrite, queueVars, workerVars, diskVars
<1>2. CASE EditSpec
  <2>1. PICK spec \in Specs : Commit(WithSpec(server, spec))
    BY <1>2 DEF EditSpec
  <2> QED
    BY SMTT(30), <1>2, <2>1, WithSpecFields, CommitFields
       DEF EditSpec, UserWrite, queueVars, workerVars, diskVars
<1>3. CASE Delete
  <2>1. PICK policy \in {{}, {foregroundFinalizer}} :
            LET fs == server.finalizers \cup policy
            IN  Commit(IF fs = {} THEN NoObject ELSE WithFinalizers(Deleting(server), fs))
    BY SMTT(30), <1>3 DEF Delete
  <2>2. server.finalizers \cup policy \in FinalizerSets
    BY <1>0 DEF FinalizerSets
  <2>3. WithFinalizers(Deleting(server), server.finalizers \cup policy) \in Object
    BY <2>2, DeletingFields, WithFinalizersFields
  <2>4. PICK o \in Object : Commit(o)
    BY <2>1, <2>3, Objects
  <2> QED
    BY <1>3, <2>4, CommitFields
       DEF Delete, UserWrite, queueVars, workerVars, diskVars
<1>4. CASE RemoveForegroundFinalizer
  <2>1. PICK o \in Object : Commit(o)
    BY <1>0, <1>4, Objects, WithFinalizersFields
       DEF RemoveForegroundFinalizer, CommitFinalizers, FinalizerSets
  <2> QED
    BY <1>4, <2>1, CommitFields
       DEF RemoveForegroundFinalizer, queueVars, workerVars, diskVars, envVars
<1>5. CASE Push
  BY <1>5 DEF Push, serverVars, queueVars, workerVars, diskVars
<1>6. CASE DeliverEvent \/ Resync \/ PollTimer
  BY ZenonT(60), <1>6 DEF DeliverEvent, Resync, PollTimer, serverVars, workerVars, diskVars, envVars
<1>7. CASE Get
  BY Zenon, <1>7 DEF Get, serverVars, workerVars, diskVars, envVars
<1>8. CASE StorageDelete
  <2>1. updateStatusNotServing(catalog.status, catalog.generation) \in Status
    BY Zenon, <1>0, NotServingStatus
  <2>2. catalog' \in Object
    BY <1>0, <1>b, <1>8, <2>1, WithStatusFields DEF StorageDelete, ReturnError
  <2> QED
    BY <1>0, <1>c, <1>8, <2>2 DEF StorageDelete, ReturnError, serverVars, queueVars, envVars
<1>9. CASE UnpackerCleanup
  <2> DEFINE s == IF catalog.spec.availabilityMode = "Unavailable"
                  THEN updateStatusProgressingUserSpecifiedUnavailable(
                           catalog.status, catalog.generation)
                  ELSE catalog.status
  <2>1. s \in Status /\ catalog.finalizers \ {fbcDeletionFinalizer} \in FinalizerSets
    BY Zenon, <1>0, DisabledStatus DEF FinalizerSets
  <2>2. WithFinalizers(WithStatus(catalog, s), catalog.finalizers \ {fbcDeletionFinalizer})
            \in Object
    BY <2>1, WithStatusFields, WithFinalizersFields
  <2>3. catalog' \in Object
    BY <1>0, <1>b, <1>9, <2>2 DEF UnpackerCleanup, ReturnError
  <2>4. unpackDir' \in BOOLEAN /\ requeueAfter' \in BOOLEAN
    BY <1>9, Zenon DEF UnpackerCleanup, ReturnError
  <2> HIDE DEF s
  <2> QED
    BY <1>0, <1>c, <1>9, <2>3, <2>4
       DEF UnpackerCleanup, ReturnError, serverVars, queueVars, envVars
<1>10. CASE AddFinalizer
  BY <1>0, <1>10, WithFinalizersFields
     DEF AddFinalizer, FinalizerSets, serverVars, queueVars, diskVars, envVars
<1>11. CASE SkipUnpack
  BY <1>0, <1>11 DEF SkipUnpack, serverVars, queueVars, diskVars, envVars
<1>12. CASE Unpack
  <2>1. catalog' \in Object /\ err' \in Errors
    BY ZenonT(60), <1>0, <1>a, <1>12 DEF Unpack, IsCatalogImage, ReturnError
  <2>2. CASE /\ registry[catalog.spec.ref] # None /\ pc' = "store"
             /\ unpackResult' = [ref |-> catalog.spec.ref, digest |-> registry[catalog.spec.ref]]
    <3>1. unpackResult' \in Results
      BY <1>0, <2>2, ControllerAssumption
    <3> QED
      BY <1>0, <1>12, <2>1, <2>2, <3>1
         DEF Unpack, IsCatalogImage, ReturnError, Fault, serverVars, queueVars, envVars
  <2>3. CASE unpackResult' = unpackResult /\ pc' = "status"
    <3>1. unpackDir' \in BOOLEAN /\ requeueAfter' \in BOOLEAN
      BY <1>12, Zenon DEF Unpack, ReturnError
    <3> QED
      BY ZenonT(60), <1>0, <1>c, <1>12, <2>1, <2>3, <3>1
         DEF Unpack, IsCatalogImage, ReturnError, serverVars, queueVars, envVars
  <2> QED
    BY Zenon, <1>12, <2>2, <2>3 DEF Unpack, IsCatalogImage, ReturnError
<1>13. CASE Store
  <2>1. updateStatusServing(
            updateStatusProgressing(catalog.status, catalog.generation, "none"),
            unpackResult, catalog.generation) \in Status
    BY <1>0, <1>a, <1>13, ServingStatus DEF Store
  <2>2. catalog' \in Object
    BY <1>0, <1>b, <1>13, <2>1, WithStatusFields DEF Store, ReturnError
  <2>3. storedCatalog' \in StoredCatalog \cup {None}
    BY <1>0, <1>13 DEF Store, ReturnError, StoredCatalog
  <2> QED
    BY <1>0, <1>13, <2>2, <2>3 DEF Store, ReturnError, Fault, serverVars, queueVars, envVars
<1>14. CASE UpdateStatus
  <2>1. Join(err, "retryable") \in Errors
    BY Zenon DEF Join, Errors
  <2>2. server' \in Object /\ catalog' \in Object /\ events' \in SUBSET Object
    BY SMTT(30), <1>0, <1>14, WithStatusFields, WithFinalizersFields, CommitFields
       DEF UpdateStatus, serverVars
  <2> QED
    BY <1>0, <1>14, <2>1, <2>2
       DEF UpdateStatus, Fault, queueVars, diskVars, envVars
<1>15. CASE UpdateFinalizers
  <2>1. server' \in Object /\ events' \in SUBSET Object
    BY <1>0, <1>15, Objects, WithFinalizersFields, CommitFields
       DEF UpdateFinalizers, CommitFinalizers, serverVars
  <2>2. /\ pc' = "idle" /\ existing' = NoObject /\ catalog' = NoObject
        /\ unpackResult' = None /\ err' = "none" /\ requeueAfter' = FALSE
    BY <1>15 DEF UpdateFinalizers, Return, Leave
  <2>3. queued' \in BOOLEAN /\ timer' \in BOOLEAN /\ unreported' \in BOOLEAN
    BY <1>15, Zenon DEF UpdateFinalizers, Return, Unreported
  <2> QED
    BY Zenon, <1>0, <1>c, <1>15, <2>1, <2>2, <2>3, Objects DEF UpdateFinalizers, diskVars, envVars
<1>16. CASE Restart
  <2>1. unpackDir' \in BOOLEAN
    BY <1>16, Zenon DEF Restart
  <2>2. queued' \in BOOLEAN
    BY <1>16 DEF Restart, Object
  <2> QED
    BY Zenon, <1>0, <1>c, <1>16, <2>1, <2>2, Objects DEF Restart, Leave, envVars
<1>17. CASE UNCHANGED vars
  BY <1>17 DEF vars, serverVars, queueVars, workerVars, diskVars, envVars
<1> QED
  BY Zenon, <1>1, <1>2, <1>3, <1>4, <1>5, <1>6, <1>7, <1>8, <1>9, <1>10, <1>11, <1>12, <1>13,
     <1>14, <1>15, <1>16, <1>17 DEF Next, Users, Reconcile
\* Every reachable state is well typed: in particular every status the
\* controller computes is one, and Store is reached only with an unpacked image.
THEOREM TypeCorrect == Spec => []TypeOK
<1>1. ASSUME Init
      PROVE  TypeOK
  BY Zenon, <1>1, Objects DEF Init, TypeOK, Errors
<1> QED
  BY <1>1, TypeNext, PTL DEF Spec

-------------------------------------------------------------------------------
(* How the steps fall into kinds.                                            *)

OutsideStep == \/ Users \/ RemoveForegroundFinalizer \/ Push
               \/ DeliverEvent \/ Resync \/ PollTimer

InternalStep == \/ StorageDelete \/ UnpackerCleanup \/ AddFinalizer
                \/ SkipUnpack \/ Unpack \/ Store

\* Nobody but the controller touches the reconcile or the disk; users commit
\* versions whose status is the old one or empty.
LEMMA OutsideSteps ==
    ASSUME TypeOK, OutsideStep
    PROVE  /\ UNCHANGED <<pc, existing, catalog, content, unpackDir>>
           /\ \/ /\ UNCHANGED cache
                 /\ \E o \in Object :
                      /\ Commit(o)
                      /\ \/ o.status = EmptyStatus /\ (server.exists => ~o.exists)
                         \/ o.status = server.status /\ o.generation >= server.generation
              \/ UNCHANGED <<server, events, cache>>
              \/ DeliverEvent
<1>0. server.finalizers \in FinalizerSets /\ server.generation \in Nat
  BY DEF TypeOK, Object, FinalizerSets
<1>1. CASE Create
  <2>1. PICK spec \in Specs : Commit(NewObject(spec))
    BY <1>1 DEF Create
  <2> QED
    BY <1>1, <2>1, Objects DEF Create, workerVars, diskVars
<1>2. CASE EditSpec
  <2>1. PICK spec \in Specs : Commit(WithSpec(server, spec))
    BY <1>2 DEF EditSpec
  <2>2. /\ WithSpec(server, spec) \in Object
        /\ WithSpec(server, spec).status = server.status
        /\ WithSpec(server, spec).generation >= server.generation
    BY SMTT(30), <1>0, WithSpecFields DEF TypeOK
  <2> QED
    BY <1>2, <2>1, <2>2 DEF EditSpec, workerVars, diskVars
<1>3. CASE Delete
  <2>1. PICK policy \in {{}, {foregroundFinalizer}} :
            LET fs == server.finalizers \cup policy
            IN  Commit(IF fs = {} THEN NoObject ELSE WithFinalizers(Deleting(server), fs))
    BY <1>3 DEF Delete
  <2> DEFINE d == WithFinalizers(Deleting(server), server.finalizers \cup policy)
  <2>2. server.finalizers \cup policy \in FinalizerSets
    BY <1>0 DEF FinalizerSets
  <2>3. /\ d \in Object /\ d.status = server.status
        /\ d.generation >= server.generation
    BY <1>0, <2>2, DeletingFields, WithFinalizersFields DEF TypeOK
  <2>4. Commit(NoObject) \/ Commit(d)
    BY <2>1
  <2> HIDE DEF d
  <2> QED
    BY <1>3, <2>3, <2>4, Objects DEF Delete, workerVars, diskVars
<1>4. CASE RemoveForegroundFinalizer
  <2> DEFINE d == WithFinalizers(server, server.finalizers \ {foregroundFinalizer})
  <2>1. Commit(NoObject) \/ Commit(d)
    BY <1>4 DEF RemoveForegroundFinalizer, CommitFinalizers
  <2>2. server.finalizers \ {foregroundFinalizer} \in FinalizerSets
    BY <1>0 DEF FinalizerSets
  <2>3. /\ d \in Object /\ d.status = server.status
        /\ d.generation >= server.generation
    BY <1>0, <2>2, WithFinalizersFields DEF TypeOK
  <2> HIDE DEF d
  <2> QED
    BY <1>4, <2>1, <2>3, Objects DEF RemoveForegroundFinalizer, workerVars, diskVars
<1>5. CASE Push \/ Resync \/ PollTimer
  BY SMTT(30), <1>5 DEF Push, Resync, PollTimer, workerVars, diskVars, serverVars
<1>6. CASE DeliverEvent
  BY <1>6 DEF DeliverEvent, workerVars, diskVars
<1> QED
  BY <1>1, <1>2, <1>3, <1>4, <1>5, <1>6 DEF OutsideStep, Users

\* The steps between the read and the writes change nothing outside the process
\* but the disk, and of the catalog only its status and finalizers.
LEMMA InternalSteps ==
    ASSUME TypeOK, InternalStep
    PROVE  /\ UNCHANGED <<server, events, cache, existing>>
           /\ pc \in {"reconcile", "cleanup", "store"}
           /\ pc' \in {"cleanup", "store", "status"}
           /\ catalog'.rv = catalog.rv /\ catalog'.exists = catalog.exists
           /\ catalog'.generation = catalog.generation /\ catalog'.spec = catalog.spec
           /\ catalog'.deleting = catalog.deleting
<1>0. /\ catalog.finalizers \in FinalizerSets /\ catalog.status \in Status
      /\ catalog \in Object
      /\ catalog.finalizers \cup {fbcDeletionFinalizer} \in FinalizerSets
      /\ catalog.finalizers \ {fbcDeletionFinalizer} \in FinalizerSets
      /\ "retryable" \in Errors /\ "none" \in Errors /\ "terminal" \in Errors
  BY DEF TypeOK, Object, FinalizerSets, Errors
<1>1. \A e \in Errors :
         updateStatusProgressing(catalog.status, catalog.generation, e) \in Status
  BY <1>0, ProgressingStatus
<1>2. CASE StorageDelete
  <2>1. updateStatusNotServing(catalog.status, catalog.generation) \in Status
    BY <1>0, NotServingStatus
  <2>2. PICK s \in Status : catalog' = WithStatus(catalog, s)
    BY Zenon, <1>0, <1>1, <1>2, <2>1 DEF StorageDelete, ReturnError
  <2> QED
    BY <1>0, <1>2, <2>2, WithStatusFields DEF StorageDelete, ReturnError, serverVars
<1>3. CASE UnpackerCleanup
  <2>1. updateStatusProgressingUserSpecifiedUnavailable(catalog.status, catalog.generation)
            \in Status
    BY <1>0, DisabledStatus
  <2>2. PICK s \in Status : \/ catalog' = WithStatus(catalog, s)
                            \/ catalog' = WithFinalizers(WithStatus(catalog, s),
                                            catalog.finalizers \ {fbcDeletionFinalizer})
    BY Zenon, <1>0, <1>1, <1>3, <2>1 DEF UnpackerCleanup, ReturnError
  <2> QED
    <3>1. /\ UNCHANGED <<server, events, cache, existing>>
          /\ pc = "cleanup" /\ pc' = "status"
      BY <1>3 DEF UnpackerCleanup, ReturnError, serverVars
    <3>2. CASE catalog' = WithStatus(catalog, s)
      BY <1>0, <3>1, <3>2, WithStatusFields
    <3>3. CASE catalog' = WithFinalizers(WithStatus(catalog, s),
                              catalog.finalizers \ {fbcDeletionFinalizer})
      <4> DEFINE o == WithStatus(catalog, s)
      <4>1. /\ o \in Object /\ o.rv = catalog.rv /\ o.exists = catalog.exists
            /\ o.generation = catalog.generation /\ o.spec = catalog.spec
            /\ o.deleting = catalog.deleting
        BY <1>0, WithStatusFields
      <4>2. catalog' = WithFinalizers(o, catalog.finalizers \ {fbcDeletionFinalizer})
        BY <3>3
      <4> HIDE DEF o
      <4> QED
        BY Zenon, <1>0, <3>1, <4>1, <4>2, WithFinalizersFields
    <3> QED
      BY ZenonT(60), <2>2, <3>2, <3>3
<1>4. CASE AddFinalizer
  BY ZenonT(60), <1>0, <1>4, WithFinalizersFields DEF AddFinalizer, serverVars
<1>5. CASE SkipUnpack
  BY <1>5 DEF SkipUnpack, serverVars
<1>6. CASE Unpack
  <2>1. catalog' = catalog \/ \E s \in Status : catalog' = WithStatus(catalog, s)
    BY Zenon, <1>0, <1>1, <1>6 DEF Unpack, ReturnError
  <2> QED
    <3>1. UNCHANGED <<server, events, cache, existing>> /\ pc = "reconcile"
      BY Zenon, <1>6 DEF Unpack, serverVars
    <3>2. pc' \in {"store", "status"}
      BY Zenon, <1>6 DEF Unpack, ReturnError
    <3> QED
      BY SMTT(30), <1>0, <2>1, <3>1, <3>2, WithStatusFields
<1>7. CASE Store
  <2>1. updateStatusServing(
            updateStatusProgressing(catalog.status, catalog.generation, "none"),
            unpackResult, catalog.generation) \in Status
    BY Zenon, <1>0, <1>1, <1>7, ServingStatus DEF Store, TypeOK
  <2>2. PICK s \in Status : catalog' = WithStatus(catalog, s)
    BY <1>0, <1>1, <1>7, <2>1 DEF Store, ReturnError
  <2> QED
    BY ZenonT(60), <1>0, <1>7, <2>2, WithStatusFields DEF Store, ReturnError, serverVars
<1> QED
  BY <1>2, <1>3, <1>4, <1>5, <1>6, <1>7 DEF InternalStep
-------------------------------------------------------------------------------
(* The invariants that need no assumption about finalizers.                  *)

\* The watch stays in order.
LEMMA WatchNext == TypeOK /\ WatchInv /\ [Next]_vars => WatchInv'
<1> SUFFICES ASSUME TypeOK, WatchInv, [Next]_vars PROVE WatchInv'
  OBVIOUS
<1>0. server.rv \in Nat /\ cache.rv \in Nat /\ \A o \in events : o.rv \in Nat
  BY DEF TypeOK, Object
<1>1. ASSUME NEW o \in Object, Commit(o), UNCHANGED cache
      PROVE  WatchInv'
  <2>1. server'.rv = server.rv + 1 /\ events' = events \cup {server'}
    BY <1>1, CommitFields
  <2>2. cache.rv <= server.rv
    BY <1>0 DEF WatchInv, Versions
  <2>3. \A p \in events : p.rv < server'.rv
    BY <1>0, <2>1 DEF WatchInv
  <2> QED
    BY <1>0, <1>1, <2>1, <2>2, <2>3 DEF WatchInv, Versions
<1>2. CASE UNCHANGED <<server, events, cache>>
  BY <1>2 DEF WatchInv, Versions
<1>3. CASE DeliverEvent
  <2>1. PICK o \in events : cache' = o /\ events' = {e \in events : e.rv > o.rv}
    BY <1>3 DEF DeliverEvent
  <2>2. server' = server
    BY <1>3 DEF DeliverEvent
  <2>3. \A e \in events' : cache'.rv < e.rv /\ e.rv <= server'.rv
    BY <1>0, <2>1, <2>2 DEF WatchInv
  <2>4. server \in events
    BY <1>0, <2>1 DEF WatchInv, Versions
  <2>5. server = o \/ server \in events'
    <3>1. server.rv = o.rv \/ o.rv < server.rv
      BY <1>0, <2>1 DEF WatchInv
    <3> QED
      BY <1>0, <2>1, <2>4, <3>1 DEF WatchInv
  <2> QED
    BY <2>1, <2>2, <2>3, <2>5 DEF WatchInv, Versions
<1>4. CASE Restart
  BY <1>4 DEF Restart, WatchInv, Versions
<1>5. CASE Get \/ InternalStep
  <2>1. UNCHANGED <<server, events, cache>>
    BY Zenon, <1>5, InternalSteps DEF Get, serverVars
  <2> QED
    BY Zenon, <1>2, <2>1
<1>6. CASE UpdateStatus
  <2>1. UNCHANGED cache
    BY <1>6 DEF UpdateStatus
  <2>2. WithStatus(server, catalog.status) \in Object
    BY WithStatusFields DEF TypeOK, Object
  <2> QED
    BY Zenon, <1>1, <1>2, <1>6, <2>1, <2>2 DEF UpdateStatus, serverVars
<1>7. CASE UpdateFinalizers
  <2>1. UNCHANGED cache
    BY Zenon, <1>7 DEF UpdateFinalizers
  <2>2. catalog.finalizers \in FinalizerSets
    BY Zenon DEF TypeOK, Object, FinalizerSets
  <2>3. WithFinalizers(server, catalog.finalizers) \in Object
    BY Zenon, <2>2, WithFinalizersFields DEF TypeOK
  <2>4. UNCHANGED <<server, events>> \/ \E o \in Object : Commit(o)
    BY Zenon, <1>7, <2>3, Objects DEF UpdateFinalizers, CommitFinalizers, serverVars
  <2> QED
    BY SMTT(30), <1>1, <1>2, <2>1, <2>4
<1>8. CASE OutsideStep
  BY <1>1, <1>2, <1>3, <1>8, OutsideSteps
<1>9. CASE UNCHANGED vars
  BY <1>2, <1>9 DEF vars, serverVars
<1> QED
  BY Zenon, <1>4, <1>5, <1>6, <1>7, <1>8, <1>9 DEF Next, OutsideStep, Reconcile, InternalStep

\* What was read stays as current as the resourceVersion that was read.
LEMMA ReadNext ==
    TypeOK /\ WatchInv /\ ReadInv /\ LocalInv /\ [Next]_vars => ReadInv'
<1> SUFFICES ASSUME TypeOK, WatchInv, ReadInv, LocalInv, [Next]_vars, pc' # "idle"
             PROVE  ReadInv'
  BY Zenon DEF ReadInv
<1>0. /\ server.rv \in Nat /\ cache.rv \in Nat /\ existing.rv \in Nat /\ catalog.rv \in Nat
      /\ \A o \in events : o.rv \in Nat
  BY Zenon DEF TypeOK, Object
<1>1. ASSUME NEW o \in Object, Commit(o), UNCHANGED <<cache, pc, existing>>,
             catalog'.rv = catalog.rv
      PROVE  ReadInv'
  <2>1. server'.rv = server.rv + 1 /\ events' = events \cup {server'}
    BY Zenon, <1>1, CommitFields
  <2> QED
    BY <1>0, <1>1, <2>1 DEF ReadInv, Versions
<1>2. ASSUME Versions' \subseteq Versions, UNCHANGED <<server, pc, existing>>,
             catalog'.rv = catalog.rv
      PROVE  ReadInv'
  BY Zenon, <1>2 DEF ReadInv
<1>3. CASE OutsideStep
  <2>1. UNCHANGED <<pc, existing, catalog>>
    BY Zenon, <1>3, OutsideSteps
  <2>2. CASE DeliverEvent
    BY <1>2, <2>1, <2>2 DEF DeliverEvent, Versions
  <2>3. CASE UNCHANGED <<server, events, cache>>
    BY Zenon, <1>2, <2>1, <2>3 DEF Versions
  <2> QED
    BY Zenon, <1>1, <1>3, <2>1, <2>2, <2>3, OutsideSteps
<1>4. CASE Get
  <2>1. existing' = cache /\ catalog' = cache /\ UNCHANGED <<server, events, cache>>
    BY <1>4 DEF Get, serverVars, workerVars
  <2>2. ASSUME NEW o \in Versions
        PROVE  cache.rv <= o.rv /\ (o.rv <= cache.rv => o = cache)
    BY <1>0, <2>2 DEF WatchInv, Versions
  <2>3. cache.rv <= server.rv
    BY Zenon, <2>2 DEF WatchInv
  <2> QED
    BY Zenon, <1>0, <2>1, <2>2, <2>3 DEF ReadInv, Versions, SameMeta
<1>5. CASE InternalStep
  <2>1. /\ UNCHANGED <<server, events, cache, existing>> /\ catalog'.rv = catalog.rv
        /\ pc \in {"reconcile", "cleanup", "store"}
    BY Zenon, <1>5, InternalSteps
  <2> QED
    BY <2>1 DEF ReadInv, Versions
<1>6. CASE UpdateStatus
  <2>0. pc = "status" /\ pc' = "finalizers" /\ UNCHANGED <<cache, existing>>
    BY <1>6 DEF UpdateStatus
  <2>1. CASE UNCHANGED <<server, events, catalog>>
    BY Zenon, <2>0, <2>1 DEF ReadInv, Versions
  <2>2. CASE Commit(WithStatus(server, catalog.status)) /\ Accepted
    <3>1. /\ server'.rv = server.rv + 1 /\ events' = events \cup {server'}
          /\ SameMeta(server', server)
      <4>1. catalog.status \in Status
        BY DEF TypeOK, Object
      <4> QED
        BY <2>2, <4>1, CommitFields, WithStatusFields DEF TypeOK, SameMeta
    <3>2. server.rv = catalog.rv /\ server \in Versions
      BY ZenonT(60), <2>2 DEF Accepted, WatchInv
    <3>3. SameMeta(server', existing)
      BY <1>0, <2>0, <3>1, <3>2 DEF ReadInv, SameMeta
    <3>4. \A o \in Versions : o.rv <= server.rv
      <4>1. \A o \in events : cache.rv < o.rv /\ o.rv <= server.rv
        BY Zenon DEF WatchInv
      <4>2. server \in events \/ server = cache
        BY Zenon DEF WatchInv, Versions
      <4>3. cache.rv <= server.rv
        BY <1>0, <4>1, <4>2
      <4> QED
        BY Zenon, <4>1, <4>3 DEF Versions
    <3>5. catalog'.rv \in {catalog.rv, server.rv + 1}
      <4>1. catalog.finalizers \in FinalizerSets /\ server' \in Object
        BY SMTT(30), TypeNext DEF TypeOK, Object, FinalizerSets
      <4>2. catalog' = catalog \/ catalog' = WithFinalizers(server', catalog.finalizers)
        BY Zenon, <1>6 DEF UpdateStatus
      <4>3. WithFinalizers(server', catalog.finalizers).rv = server'.rv
        BY Zenon, <4>1, WithFinalizersFields
      <4> QED
        BY Zenon, <3>1, <4>2, <4>3
    <3>6. /\ existing.rv <= catalog.rv /\ catalog.rv = server.rv
          /\ \A o \in Versions : /\ existing.rv <= o.rv
                                 /\ o.rv = existing.rv => o = existing
                                 /\ SameMeta(o, existing)
      BY Zenon, <2>0, <3>2, <3>4 DEF ReadInv
    <3>7. /\ existing.rv <= catalog'.rv /\ catalog'.rv <= server'.rv
          /\ existing.rv <= server'.rv /\ server'.rv # existing.rv
      BY <1>0, <3>1, <3>5, <3>6
    <3>8. \A o \in Versions' : o \in Versions \/ o = server'
      BY Zenon, <2>0, <3>1 DEF Versions
    <3> QED
      BY Zenon, <2>0, <3>3, <3>6, <3>7, <3>8 DEF ReadInv
  <2> QED
    BY ZenonT(60), <1>6, <2>1, <2>2 DEF UpdateStatus, serverVars
<1>7. CASE UpdateFinalizers \/ Restart
  BY ZenonT(60), <1>7 DEF UpdateFinalizers, Restart, Return, Leave
<1>8. CASE UNCHANGED vars
  BY <1>8 DEF vars, serverVars, workerVars, ReadInv, Versions
<1> QED
  BY Zenon, <1>3, <1>4, <1>5, <1>6, <1>7, <1>8 DEF Next, OutsideStep, Reconcile, InternalStep

===============================================================================

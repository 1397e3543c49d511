------------------------ MODULE ControllerStatusProofs -------------------------
(***************************************************************************)
(* What the statuses written by the reconciler say: their generations never*)
(* go back, and Succeeded with Available describes the content on disk.    *)
(***************************************************************************)
EXTENDS ControllerReadProofs

\* A status carries no generation the object has not reached.
GenerationsInv ==
    /\ server.status.servingGen <= server.generation
    /\ server.status.progressingGen <= server.generation
    /\ pc \in {"cleanup", "status"} =>
         /\ catalog.status.servingGen \in {existing.status.servingGen, existing.generation}
         /\ catalog.status.progressingGen \in
                {existing.status.progressingGen, existing.generation}

\* A status about to be written that says Succeeded and Available describes the
\* content on disk.
StoredInv ==
    pc = "status" /\ catalog.status # existing.status
        => (catalog.status.progressing = "Succeeded" /\ catalog.status.serving = "Available"
                => catalog.status.resolved = content /\ content # None)

BaseInv == TypeOK /\ WatchInv /\ ReadInv /\ LocalInv /\ GenerationsInv /\ StoredInv

-------------------------------------------------------------------------------

\* The status reconcile leaves: its generations are the old ones or the
\* catalog's, and if it is new and says Succeeded and Available it describes
\* the content on disk.
LEMMA InternalStatus ==
    ASSUME TypeOK, LocalInv, InternalStep
    PROVE  /\ catalog'.status.servingGen \in {catalog.status.servingGen, catalog.generation}
           /\ catalog'.status.progressingGen \in
                  {catalog.status.progressingGen, catalog.generation}
           /\ LocalInv' /\ StoredInv'
<1>0. /\ catalog \in Object /\ catalog.status \in Status /\ catalog.generation \in Nat
      /\ "retryable" \in Errors /\ "none" \in Errors /\ "terminal" \in Errors
      /\ catalog.finalizers \in FinalizerSets
      /\ catalog.finalizers \cup {fbcDeletionFinalizer} \in FinalizerSets
      /\ catalog.finalizers \ {fbcDeletionFinalizer} \in FinalizerSets
  BY DEF TypeOK, Object, Errors, FinalizerSets
<1>1. /\ UNCHANGED existing
      /\ pc \in {"reconcile", "cleanup", "store"} /\ pc' \in {"cleanup", "store", "status"}
      /\ catalog'.exists = catalog.exists /\ catalog'.spec = catalog.spec
      /\ catalog'.generation = catalog.generation /\ catalog'.deleting = catalog.deleting
  BY InternalSteps
<1>2. ASSUME pc' = "status"
      PROVE  LocalInv'
  BY <1>1, <1>2 DEF LocalInv
\* The ways reconcile ends, whatever it did before.
<1>3. ASSUME NEW e \in {"retryable", "terminal"}, pc' = "status",
             catalog' = WithStatus(catalog,
                            updateStatusProgressing(catalog.status, catalog.generation, e))
      PROVE  /\ catalog'.status.servingGen = catalog.status.servingGen
             /\ catalog'.status.progressingGen = catalog.generation
             /\ LocalInv' /\ StoredInv'
  <2> DEFINE s == updateStatusProgressing(catalog.status, catalog.generation, e)
  <2>1. /\ s \in Status /\ s.servingGen = catalog.status.servingGen
        /\ s.progressingGen = catalog.generation /\ s.progressing # "Succeeded"
    BY <1>0, ProgressingStatus
  <2>2. catalog' = WithStatus(catalog, s)
    BY <1>3
  <2> HIDE DEF s
  <2>3. catalog'.status = s
    BY <1>0, <2>1, <2>2, WithStatusFields
  <2> QED
    BY <1>2, <1>3, <2>1, <2>3 DEF StoredInv
<1>4. CASE StorageDelete
  <2>1. CASE pc' = "cleanup"
    <3> DEFINE s == updateStatusNotServing(catalog.status, catalog.generation)
    <3>1. /\ s \in Status /\ s.servingGen = catalog.generation
          /\ s.progressingGen = catalog.status.progressingGen /\ s.serving = "Unavailable"
      BY <1>0, NotServingStatus
    <3>2. /\ catalog' = WithStatus(catalog, s) /\ content' = None
          /\ pc = "reconcile" /\ DeletesCache(catalog)
      BY <1>4, <2>1 DEF StorageDelete, ReturnError
    <3> HIDE DEF s
    <3>3. catalog'.status = s /\ catalog'.finalizers = catalog.finalizers
      BY <1>0, <3>1, <3>2, WithStatusFields
    <3>4. catalog = existing
      BY <3>2 DEF LocalInv
    <3>5. LocalInv'
      BY <1>1, <2>1, <3>1, <3>2, <3>3, <3>4 DEF LocalInv, DeletesCache
    <3> QED
      BY <2>1, <3>1, <3>3, <3>5 DEF StoredInv
  <2> QED
    BY <1>3, <1>4, <2>1 DEF StorageDelete, ReturnError
<1>5. CASE UnpackerCleanup
  <2> DEFINE s == IF catalog.spec.availabilityMode = "Unavailable"
                  THEN updateStatusProgressingUserSpecifiedUnavailable(
                           catalog.status, catalog.generation)
                  ELSE catalog.status
  <2>1. CASE catalog' = WithFinalizers(WithStatus(catalog, s),
                            catalog.finalizers \ {fbcDeletionFinalizer})
    <3>1. /\ s \in Status /\ s.serving # "Available"
          /\ s.servingGen \in {catalog.status.servingGen, catalog.generation}
          /\ s.progressingGen \in {catalog.status.progressingGen, catalog.generation}
      <4>1. catalog.status.serving = "Unavailable"
        BY <1>5 DEF UnpackerCleanup, LocalInv
      <4> QED
        BY <1>0, <4>1, DisabledStatus
    <3> HIDE DEF s
    <3>2. WithStatus(catalog, s) \in Object /\ WithStatus(catalog, s).status = s
      BY <1>0, <3>1, WithStatusFields
    <3>3. catalog'.status = s
      BY Zenon, <1>0, <2>1, <3>2, WithFinalizersFields
    <3>4. pc' = "status"
      BY <1>5 DEF UnpackerCleanup, ReturnError
    <3> QED
      BY <1>2, <3>1, <3>3, <3>4 DEF StoredInv
  <2> QED
    BY <1>3, <1>5, <2>1 DEF UnpackerCleanup, ReturnError
<1>6. CASE AddFinalizer
  <2>1. pc = "reconcile" /\ pc' = "status" /\ catalog'.status = catalog.status
    BY Zenon, <1>0, <1>6, WithFinalizersFields DEF AddFinalizer
  <2> QED
    BY <1>1, <1>2, <2>1 DEF LocalInv, StoredInv
<1>7. CASE SkipUnpack
  <2>1. pc = "reconcile" /\ pc' = "status" /\ catalog' = catalog
    BY <1>7 DEF SkipUnpack
  <2> QED
    BY <1>1, <1>2, <2>1 DEF LocalInv, StoredInv
<1>8. CASE Unpack
  <2>1. CASE pc' = "store"
    <3>1. /\ pc = "reconcile" /\ Finalized(catalog) /\ catalog' = catalog
      BY <1>8, <2>1 DEF Unpack, ReturnError
    <3> QED
      BY <1>1, <2>1, <3>1 DEF LocalInv, StoredInv, Finalized, DeletesCache
  <2> QED
    BY Zenon, <1>3, <1>8, <2>1 DEF Unpack, ReturnError
<1>9. CASE Store
  <2> DEFINE t == updateStatusProgressing(catalog.status, catalog.generation, "none")
             s == updateStatusServing(t, unpackResult, catalog.generation)
  <2>1. CASE catalog' = WithStatus(catalog, s) /\ content' = unpackResult
    <3>1. unpackResult \in Results /\ None \notin Results
      BY <1>9, ControllerAssumption DEF Store, TypeOK
    <3>2. /\ t \in Status /\ t.progressingGen = catalog.generation
      BY <1>0, ProgressingStatus
    <3> HIDE DEF t
    <3>3. /\ s \in Status /\ s.servingGen = catalog.generation
          /\ s.progressingGen = catalog.generation /\ s.resolved = unpackResult
      BY <1>0, <3>1, <3>2, ServingStatus
    <3> HIDE DEF s
    <3>4. catalog'.status = s
      BY <1>0, <2>1, <3>3, WithStatusFields
    <3>5. pc' = "status"
      BY <1>9 DEF Store, ReturnError
    <3> QED
      BY <1>2, <2>1, <3>1, <3>3, <3>4, <3>5 DEF StoredInv
  <2> QED
    BY <1>3, <1>9, <2>1 DEF Store, ReturnError
<1> QED
  BY <1>4, <1>5, <1>6, <1>7, <1>8, <1>9 DEF InternalStep

\* A status write that is accepted overwrites the very version that was read.
LEMMA StatusWrite ==
    ASSUME TypeOK, WatchInv, ReadInv, LocalInv, UpdateStatus
    PROVE  /\ pc = "status" /\ pc' = "finalizers"
           /\ UNCHANGED <<cache, existing, content, unpackDir>>
           /\ \/ UNCHANGED <<server, events, catalog>>
              \/ /\ server = existing /\ catalog.status # existing.status
                 /\ Commit(WithStatus(server, catalog.status))
                 /\ server' \in Object /\ SameMeta(server', server)
                 /\ server'.status = catalog.status
                 /\ \/ UNCHANGED catalog
                    \/ catalog' = WithFinalizers(server', catalog.finalizers)
<1>1. /\ pc = "status" /\ pc' = "finalizers"
      /\ UNCHANGED <<cache, existing, content, unpackDir>>
      /\ \/ UNCHANGED <<server, events, catalog>>
         \/ /\ Accepted /\ catalog.status # existing.status
            /\ Commit(WithStatus(server, catalog.status))
            /\ \/ UNCHANGED catalog
               \/ catalog' = WithFinalizers(server', catalog.finalizers)
  BY DEF UpdateStatus, serverVars, diskVars
<1>2. ASSUME Accepted, Commit(WithStatus(server, catalog.status))
      PROVE  /\ server = existing /\ server' \in Object
             /\ SameMeta(server', server) /\ server'.status = catalog.status
  <2>1. catalog.status \in Status
    BY DEF TypeOK, Object
  <2>2. server = existing
    BY <1>1, <1>2 DEF Accepted, WatchInv, ReadInv
  <2> QED
    BY <1>2, <2>1, <2>2, CommitFields, WithStatusFields DEF TypeOK, SameMeta
<1> QED
  BY <1>1, <1>2

\* LocalInv is preserved.
LEMMA LocalNext ==
    TypeOK /\ WatchInv /\ ReadInv /\ LocalInv /\ [Next]_vars => LocalInv'
<1> SUFFICES ASSUME TypeOK, WatchInv, ReadInv, LocalInv, [Next]_vars
             PROVE  LocalInv'
  OBVIOUS
<1>1. CASE OutsideStep
  BY <1>1, OutsideSteps DEF LocalInv, DeletesCache, Finalized
<1>2. CASE Get
  BY <1>2 DEF Get, workerVars, LocalInv
<1>3. CASE InternalStep
  BY <1>3, InternalStatus
<1>4. CASE UpdateStatus
  <2>1. catalog.finalizers \in FinalizerSets
    BY DEF TypeOK, Object, FinalizerSets
  <2>2. /\ catalog'.exists = existing'.exists /\ catalog'.spec = existing'.spec
        /\ catalog'.generation = existing'.generation
        /\ catalog'.deleting = existing'.deleting
    BY SMTT(30), <1>4, <2>1, StatusWrite, WithFinalizersFields DEF LocalInv, SameMeta
  <2> QED
    BY <1>4, <2>2, StatusWrite DEF LocalInv
<1>5. CASE UpdateFinalizers \/ Restart
  BY Zenon, <1>5 DEF UpdateFinalizers, Restart, Return, Leave, LocalInv
<1>6. CASE UNCHANGED vars
  BY <1>6 DEF vars, workerVars, diskVars, LocalInv, DeletesCache, Finalized
<1> QED
  BY Zenon, <1>1, <1>2, <1>3, <1>4, <1>5, <1>6 DEF Next, OutsideStep, Reconcile, InternalStep

\* StoredInv is preserved.
LEMMA StoredNext ==
    TypeOK /\ WatchInv /\ ReadInv /\ LocalInv /\ StoredInv /\ [Next]_vars => StoredInv'
<1> SUFFICES ASSUME TypeOK, WatchInv, ReadInv, LocalInv, StoredInv, [Next]_vars
             PROVE  StoredInv'
  OBVIOUS
<1>1. CASE OutsideStep
  BY <1>1, OutsideSteps DEF StoredInv
<1>2. CASE Get
  BY <1>2 DEF Get, workerVars, StoredInv
<1>3. CASE InternalStep
  BY <1>3, InternalStatus
<1>4. CASE UpdateStatus
  BY <1>4 DEF UpdateStatus, StoredInv
<1>5. CASE UpdateFinalizers \/ Restart
  BY Zenon, <1>5 DEF UpdateFinalizers, Restart, Return, Leave, StoredInv
<1>6. CASE UNCHANGED vars
  BY <1>6 DEF vars, workerVars, diskVars, StoredInv
<1> QED
  BY Zenon, <1>1, <1>2, <1>3, <1>4, <1>5, <1>6 DEF Next, OutsideStep, Reconcile, InternalStep

\* A status the API server has or gets is not ahead of its object, and a step
\* takes it to no older generation.
LEMMA GenerationsNext ==
    ASSUME TypeOK, WatchInv, ReadInv, LocalInv, GenerationsInv, [Next]_vars
    PROVE  /\ GenerationsInv'
           /\ server.exists /\ server'.exists =>
                /\ server.status.servingGen <= server'.status.servingGen
                /\ server.status.progressingGen <= server'.status.progressingGen
<1>0. /\ \A o \in Object : /\ o.generation \in Nat /\ o.status.servingGen \in Nat
                            /\ o.status.progressingGen \in Nat
      /\ server \in Object /\ existing \in Object /\ catalog \in Object
  BY DEF TypeOK, Object, Status
<1>1. ASSUME UNCHANGED server,
             pc' \in {"cleanup", "status"} =>
                /\ catalog'.status.servingGen \in
                       {existing'.status.servingGen, existing'.generation}
                /\ catalog'.status.progressingGen \in
                       {existing'.status.progressingGen, existing'.generation}
      PROVE  /\ GenerationsInv'
             /\ server.status.servingGen <= server'.status.servingGen
             /\ server.status.progressingGen <= server'.status.progressingGen
  BY <1>0, <1>1 DEF GenerationsInv
<1>2. ASSUME NEW o \in Object, Commit(o),
             \/ pc' \in {"idle", "finalizers"}
             \/ UNCHANGED <<pc, catalog, existing>>,
             \/ o.status = EmptyStatus /\ (server.exists => ~o.exists)
             \/ o.status = server.status /\ o.generation >= server.generation
      PROVE  /\ GenerationsInv'
             /\ server.exists /\ server'.exists =>
                  /\ server.status.servingGen <= server'.status.servingGen
                  /\ server.status.progressingGen <= server'.status.progressingGen
  <2>1. /\ server'.status = o.status /\ server'.generation = o.generation
        /\ server'.exists = o.exists
    BY <1>2, CommitFields
  <2>2. EmptyStatus.servingGen = 0 /\ EmptyStatus.progressingGen = 0
    BY Objects
  <2>3. /\ server'.status.servingGen <= server'.generation
        /\ server'.status.progressingGen <= server'.generation
    BY <1>0, <1>2, <2>1, <2>2 DEF GenerationsInv
  <2>4. GenerationsInv'
    BY <1>2, <2>3 DEF GenerationsInv
  <2> QED
    BY <1>0, <1>2, <2>1, <2>4
<1>3. CASE OutsideStep
  <2>1. UNCHANGED <<pc, catalog, existing>>
    BY Zenon, <1>3, OutsideSteps
  <2>2. CASE DeliverEvent \/ UNCHANGED server
    BY Zenon, <1>1, <2>1, <2>2 DEF DeliverEvent, GenerationsInv
  <2> QED
    BY <1>2, <1>3, <2>1, <2>2, OutsideSteps
<1>4. CASE Get
  BY <1>1, <1>4 DEF Get, serverVars, workerVars
<1>5. CASE InternalStep
  <2>1. UNCHANGED <<server, existing>> /\ pc \in {"reconcile", "cleanup", "store"}
    BY Zenon, <1>5, InternalSteps
  <2>2. /\ catalog.generation = existing.generation
        /\ catalog.status.servingGen \in {existing.status.servingGen, existing.generation}
        /\ catalog.status.progressingGen \in
              {existing.status.progressingGen, existing.generation}
    BY Zenon, <2>1 DEF LocalInv, GenerationsInv
  <2> QED
    BY <1>1, <1>5, <2>1, <2>2, InternalStatus
<1>6. CASE UpdateStatus
  <2>1. CASE UNCHANGED server
    BY Zenon, <1>1, <1>6, <2>1, StatusWrite
  <2>2. CASE /\ server = existing /\ server'.status = catalog.status
             /\ SameMeta(server', server)
    BY SMTT(30), <1>0, <1>6, <2>2, StatusWrite DEF GenerationsInv, SameMeta
  <2> QED
    BY <1>6, <2>1, <2>2, StatusWrite
<1>7. CASE UpdateFinalizers
  <2>1. pc' = "idle"
    BY <1>7 DEF UpdateFinalizers, Return, Leave
  <2>2. CASE UNCHANGED server
    BY ZenonT(60), <1>1, <2>1, <2>2
  <2>3. CASE CommitFinalizers(catalog.finalizers)
    <3>1. CASE Commit(NoObject)
      BY <1>2, <2>1, <3>1, Objects
    <3>2. CASE Commit(WithFinalizers(server, catalog.finalizers))
      <4>1. catalog.finalizers \in FinalizerSets
        BY DEF TypeOK, Object, FinalizerSets
      <4> DEFINE o == WithFinalizers(server, catalog.finalizers)
      <4>2. /\ o \in Object /\ o.status = server.status /\ o.generation >= server.generation
        BY <1>0, <4>1, WithFinalizersFields
      <4>3. Commit(o)
        BY <3>2
      <4> HIDE DEF o
      <4> QED
        BY <1>2, <2>1, <4>2, <4>3
    <3> QED
      BY <2>3, <3>1, <3>2 DEF CommitFinalizers
  <2> QED
    BY Zenon, <1>7, <2>2, <2>3 DEF UpdateFinalizers, serverVars
<1>8. CASE Restart
  BY ZenonT(60), <1>1, <1>8 DEF Restart, Leave
<1>9. CASE UNCHANGED vars
  BY <1>1, <1>9 DEF vars, serverVars, workerVars, GenerationsInv
<1> QED
  BY Zenon, <1>3, <1>4, <1>5, <1>6, <1>7, <1>8, <1>9 DEF Next, OutsideStep, Reconcile, InternalStep

-------------------------------------------------------------------------------
(* Theorems.                                                                 *)

\* BaseInv is inductive.
LEMMA BaseInvariant == Spec => []BaseInv
<1>1. Init => BaseInv
  <2> SUFFICES ASSUME Init
               PROVE  BaseInv
    BY SMTT(30)
  <2>1. TypeOK
    BY Zenon, Objects DEF Init, TypeOK, Errors
  <2>2. WatchInv /\ ReadInv /\ LocalInv /\ StoredInv
    BY ZenonT(60) DEF Init, WatchInv, ReadInv, LocalInv, StoredInv, Versions
  <2>3. GenerationsInv
    <3>1. NoObject.generation \in Nat
      BY Objects DEF Object
    <3> QED
      BY <3>1, Objects DEF Init, GenerationsInv
  <2> QED
    BY <2>1, <2>2, <2>3 DEF BaseInv
<1>2. BaseInv /\ [Next]_vars => BaseInv'
  BY TypeNext, WatchNext, ReadNext, LocalNext, GenerationsNext, StoredNext DEF BaseInv
<1> QED
  BY <1>1, <1>2, PTL DEF Spec

\* A status in the API server never goes back to an older generation and never
\* names a generation its object has not reached, because a status computed
\* from a stale read is refused.
THEOREM GenerationsNeverGoBack == Spec => GenerationsAdvance
<1>1. ASSUME BaseInv, [Next]_vars
      PROVE  [server.exists /\ server'.exists =>
                /\ server.status.servingGen <= server'.status.servingGen
                /\ server.status.progressingGen <= server'.status.progressingGen
                /\ server'.status.servingGen <= server'.generation]_vars
  BY <1>1, GenerationsNext DEF BaseInv, GenerationsInv
<1> QED
  BY <1>1, BaseInvariant, PTL DEF Spec, GenerationsAdvance

\* The write that makes a catalog Succeeded and Available describes the content
\* that is on disk at that moment.
THEOREM SucceededStatusIsStored == Spec => SucceededIsStored
<1>1. ASSUME BaseInv, [Next]_vars
      PROVE  [server'.status # server.status =>
                (server'.status.progressing = "Succeeded" /\ server'.status.serving = "Available"
                    => server'.status.resolved = content /\ content # None)]_vars
  <2> SUFFICES ASSUME server'.status # server.status,
                      server'.status.progressing = "Succeeded",
                      server'.status.serving = "Available"
               PROVE  server'.status.resolved = content /\ content # None
    OBVIOUS
  <2> USE DEF BaseInv
  <2>1. CASE UpdateStatus
    BY <1>1, <2>1, StatusWrite DEF StoredInv
  <2>2. ASSUME NEW o \in Object, Commit(o)
        PROVE  o.status # EmptyStatus
    BY <1>1, <2>2, CommitFields, Objects
  <2>3. CASE OutsideStep
    <3>1. CASE UNCHANGED server \/ DeliverEvent
      BY <3>1 DEF DeliverEvent
    <3>2. ASSUME NEW o \in Object, Commit(o)
          PROVE  o.status # server.status
      BY <1>1, <3>2, CommitFields
    <3> QED
      BY <1>1, <2>2, <2>3, <3>1, <3>2, OutsideSteps
  <2>4. CASE UpdateFinalizers
    <3>1. catalog.finalizers \in FinalizerSets
      BY Zenon, <1>1 DEF TypeOK, Object, FinalizerSets
    <3> DEFINE o == WithFinalizers(server, catalog.finalizers)
    <3>2. o \in Object /\ o.status = server.status
      BY ZenonT(60), <1>1, <3>1, WithFinalizersFields DEF TypeOK
    <3>3. UNCHANGED server \/ Commit(NoObject) \/ Commit(o)
      BY <2>4 DEF UpdateFinalizers, CommitFinalizers, serverVars
    <3> HIDE DEF o
    <3> QED
      BY Zenon, <1>1, <2>2, <3>2, <3>3, CommitFields, Objects
  <2>5. CASE Get \/ InternalStep \/ Restart \/ UNCHANGED vars
    BY Zenon, <1>1, <2>5, InternalSteps DEF Get, Restart, vars, serverVars
  <2> QED
    BY <1>1, <2>1, <2>3, <2>4, <2>5 DEF Next, OutsideStep, Reconcile, InternalStep
<1> QED
  BY <1>1, BaseInvariant, PTL DEF Spec, SucceededIsStored

-------------------------------------------------------------------------------
(* The statuses reconcile computes.                                          *)

\* A status is determined by its fields.
LEMMA StatusRecord ==
    \A s \in Status :
        s = [progressing |-> s.progressing, progressingGen |-> s.progressingGen,
             resolved |-> s.resolved, serving |-> s.serving, servingGen |-> s.servingGen]
  BY SMTT(30) DEF Status

\* The status of a catalog that is served, in the order in which Store and in the
\* order in which getCurrentState computes it.
LEMMA ServedStatus ==
    \A s \in Status, o \in Object, r \in Results :
        LET served == [progressing |-> "Succeeded", progressingGen |-> o.generation,
                       resolved |-> r, serving |-> "Available", servingGen |-> o.generation]
        IN  /\ updateStatusServing(updateStatusProgressing(s, o.generation, "none"),
                                   r, o.generation) = served
            /\ updateStatusProgressing(updateStatusServing(s, r, o.generation),
                                       o.generation, "none") = served
<1> TAKE s \in Status, o \in Object, r \in Results
<1>1. ASSUME NEW t \in Status
      PROVE  /\ updateStatusProgressing(t, o.generation, "none").progressing = "Succeeded"
             /\ updateStatusProgressing(t, o.generation, "none").resolved = t.resolved
             /\ updateStatusServing(t, r, o.generation).serving = "Available"
             /\ updateStatusServing(t, r, o.generation).progressing = t.progressing
  BY SMTT(30) DEF Status, updateStatusServing, updateStatusProgressing
<1> DEFINE p == updateStatusProgressing(s, o.generation, "none")
           ps == updateStatusServing(p, r, o.generation)
           v == updateStatusServing(s, r, o.generation)
           vs == updateStatusProgressing(v, o.generation, "none")
<1>2. "none" \in Errors
  BY ZenonT(60) DEF Errors
<1>3. p \in Status /\ v \in Status
  BY <1>2, ProgressingStatus, ServingStatus
<1>4. /\ p.progressing = "Succeeded" /\ p.progressingGen = o.generation
      /\ v.resolved = r /\ v.serving = "Available" /\ v.servingGen = o.generation
  BY <1>1, <1>2, ProgressingStatus, ServingStatus
<1> HIDE DEF p, v
<1>5. /\ ps \in Status /\ ps.progressing = "Succeeded" /\ ps.progressingGen = o.generation
      /\ ps.resolved = r /\ ps.serving = "Available" /\ ps.servingGen = o.generation
  BY <1>1, <1>3, <1>4, ServingStatus
<1>6. /\ vs \in Status /\ vs.progressing = "Succeeded" /\ vs.progressingGen = o.generation
      /\ vs.resolved = r /\ vs.serving = "Available" /\ vs.servingGen = o.generation
  BY <1>1, <1>2, <1>3, <1>4, ProgressingStatus
<1> HIDE DEF ps, vs
<1> DEFINE served == [progressing |-> "Succeeded", progressingGen |-> o.generation,
                      resolved |-> r, serving |-> "Available", servingGen |-> o.generation]
<1>7. ps = served
  BY <1>5, StatusRecord
<1>8. vs = served
  BY <1>6, StatusRecord
<1> QED
  BY Zenon, <1>7, <1>8 DEF ps, vs, p, v

\* The status of a disabled catalog.
LEMMA DisabledRecord ==
    \A s \in Status, o \in Object :
        s.resolved = None =>
            updateStatusProgressingUserSpecifiedUnavailable(s, o.generation) =
                [progressing |-> "Disabled", progressingGen |-> o.generation,
                 resolved |-> None,
                 serving |-> "UserSpecifiedUnavailable", servingGen |-> o.generation]
<1> TAKE s \in Status, o \in Object
<1> HAVE s.resolved = None
<1> DEFINE d == updateStatusProgressingUserSpecifiedUnavailable(s, o.generation)
<1>1. /\ d \in Status /\ d.servingGen = o.generation /\ d.progressingGen = o.generation
  BY DisabledStatus
<1>2. /\ d.progressing = "Disabled" /\ d.resolved = s.resolved
      /\ d.serving = "UserSpecifiedUnavailable"
  BY SMTT(30) DEF Status, updateStatusProgressingUserSpecifiedUnavailable
<1> HIDE DEF d
<1>3. d = [progressing |-> "Disabled", progressingGen |-> o.generation, resolved |-> None,
           serving |-> "UserSpecifiedUnavailable", servingGen |-> o.generation]
  BY <1>1, <1>2, StatusRecord
<1> QED
  BY Zenon, <1>3 DEF d

\* The status after the content has been removed, and after a terminal error.
LEMMA NotServedStatus ==
    \A s \in Status, o \in Object :
        /\ updateStatusNotServing(s, o.generation).resolved = None
        /\ updateStatusProgressing(s, o.generation, "terminal").progressing = "Blocked"
  BY ZenonT(60) DEF Status, Object, updateStatusNotServing, updateStatusProgressing

\* Nobody but the controller touches its memory; images named by digest do not
\* move; a new version is queued when it arrives.
LEMMA OutsideRest ==
    ASSUME TypeOK, OutsideStep
    PROVE  /\ UNCHANGED <<pc, existing, catalog, unpackResult, err, storedCatalog, unreported>>
           /\ UNCHANGED <<content, unpackDir>>
           /\ \A ref \in CanonicalRefs : registry'[ref] = registry[ref]
           /\ UNCHANGED <<cache, queued>> \/ queued'
<1>1. CASE Create \/ EditSpec \/ Delete
  <2>1. UNCHANGED <<cache, queueVars, workerVars, storedCatalog, diskVars, registry, faults>>
    BY Zenon, <1>1 DEF Create, EditSpec, Delete
  <2> QED
    BY Zenon, <2>1 DEF workerVars, diskVars, queueVars
<1>2. CASE RemoveForegroundFinalizer
  <2>1. UNCHANGED <<cache, queueVars, workerVars, storedCatalog, diskVars, registry, faults>>
    BY Zenon, <1>2 DEF RemoveForegroundFinalizer, envVars
  <2> QED
    BY Zenon, <2>1 DEF workerVars, diskVars, queueVars
<1>3. CASE Push
  <2>1. \A ref \in CanonicalRefs : registry'[ref] = registry[ref]
    BY <1>3, ControllerAssumption DEF Push, TypeOK
  <2> QED
    BY Zenon, <1>3, <2>1 DEF Push, workerVars, diskVars, queueVars
<1>4. CASE DeliverEvent \/ Resync \/ PollTimer
  BY Zenon, <1>4 DEF DeliverEvent, Resync, PollTimer, workerVars, diskVars, envVars
<1> QED
  BY <1>1, <1>2, <1>3, <1>4 DEF OutsideStep, Users

===============================================================================

-------------------------- MODULE UnpackCacheProofs --------------------------
(***************************************************************************)
(* What the cache of unpacked catalogs loses and what it takes in: the     *)
(* theorems about GarbageCollector, and then those about LayerFilter.      *)
(*                                                                         *)
(* ServedComplete for any number of catalogs, layers and failures: a       *)
(* catalog that exists and is not raced is safe from the pass under way    *)
(* because the pass has listed it, because the pass does not look at its   *)
(* name again, because its image is whole, and so read-only, or because it *)
(* is being deleted and has none (Spared). A catalog that does not exist   *)
(* and is not raced is not worked on: the pass finds a whole image or none.*)
(*                                                                         *)
(* KeepsSubtree for labels and names of any length: path.Clean leaves a    *)
(* normal form that leads where the path leads, element by element, and    *)
(* filepath.Rel of two normal forms begins with Up exactly when the one is *)
(* not below the other. The inductions over the elements are inductions    *)
(* over numbers, which come from the least element of a set (Least,        *)
(* Ascend, Iterate).                                                       *)
(***************************************************************************)
EXTENDS GarbageCollector, LayerFilter,
        SequenceTheorems, WellFoundedInduction, TLAPS

-------------------------------------------------------------------------------
(* The garbage collector.                                                    *)

WholeDir == [layers |-> 1 .. Layers, readOnly |-> TRUE]

\* The directory of n is missing, whole, to be discarded, or it holds the layers
\* the reconciler has applied so far.
ImageOK(n) ==
    \/ image[n] = None \/ image[n] = WholeDir
    \/ /\ WorkingOn(n)
       /\ \/ work.step = "discard"
          \/ /\ work.step = "layers"
             /\ image[n] = [layers |-> 1 .. (work.next - 1), readOnly |-> FALSE]

\* The pass under way leaves n alone.
Spared(n) ==
    \/ n \notin exists \/ gc = "wait" \/ n \in expected \/ ~Overlooked(n)
    \/ image[n] = WholeDir /\ (WorkingOn(n) => work.step \in {"store", "finalizer"})
    \/ image[n] = None /\ n \in deleting

\* A directory is read-only unless the reconciler is filling or discarding it.
ReadOnlyInv(n) ==
    image[n] # None => \/ image[n].readOnly
                       \/ WorkingOn(n) /\ work.step \in {"layers", "discard"}

NameInv(n) ==
    n \notin raced =>
        /\ content[n] \in {None, 1 .. Layers}
        /\ ImageOK(n)
        /\ WorkingOn(n) => n \in exists
        /\ Spared(n)

Inv == TypeOK /\ \A n \in Names : ReadOnlyInv(n) /\ NameInv(n)

\* A whole directory can be neither emptied nor removed by RemoveAll.
LEMMA WholeIsKept == WholeDir \in Dir /\ WholeDir # None /\ WholeDir.readOnly /\ WholeDir.layers # {}
<1>1. WholeDir \in Dir /\ WholeDir.readOnly
  BY DEF WholeDir, Dir
<1>2. WholeDir.layers = 1 .. Layers /\ 1 \in 1 .. Layers
  BY GarbageCollectorAssumption DEF WholeDir
<1> QED
  BY <1>1, <1>2, GarbageCollectorAssumption

\* Changing the layers of a directory.
LEMMA WithLayers ==
    ASSUME NEW d \in Dir, NEW t
    PROVE  [d EXCEPT !.layers = t] = [layers |-> t, readOnly |-> d.readOnly]
  BY DEF Dir

\* Every step of the cluster, of the reconciler and of the collector preserves
\* the type invariant.
LEMMA TypeNext == TypeOK /\ [Next]_vars => TypeOK'
<1> SUFFICES ASSUME TypeOK, [Next]_vars
             PROVE  TypeOK'
  OBVIOUS
<1> USE GarbageCollectorAssumption
<1>0. ASSUME NEW f, Fault(f)
      PROVE  faults' \in 0 .. MaxFaults
  BY <1>0 DEF TypeOK, Fault
<1>1. ASSUME NEW n \in Names, Create(n) \/ Delete(n) \/ Orphan(n)
      PROVE  TypeOK'
  <2>1. creates' \in 0 .. MaxCreates /\ faults' \in 0 .. MaxFaults
    BY <1>0, <1>1 DEF TypeOK, Create, Delete, Orphan
  <2>3. work' \in Work \cup {None}
    BY Zenon, <1>1 DEF TypeOK, Create, Delete, Orphan
  <2>2. exists' \subseteq Names /\ deleting' \subseteq exists' /\ raced' \subseteq Names
    BY Zenon, <1>1 DEF TypeOK, Create, Delete, Orphan
  <2> QED
    BY Zenon, <1>1, <2>1, <2>2, <2>3 DEF TypeOK, Create, Delete, Orphan, diskVars, gcVars
<1>2. ASSUME NEW n \in Names, Finalize(n)
      PROVE  TypeOK'
  <2>1. work' \in Work \cup {None}
    <3>1. [name |-> n, step |-> "finalizer", next |-> 1] \in Work
      BY DEF Work
    <3> QED
      BY Zenon, <1>2, <3>1 DEF TypeOK, Finalize
  <2>2. /\ image' \in [Names -> Dir \cup {None}]
        /\ content' \in [Names -> (SUBSET (1 .. Layers)) \cup {None}]
    BY Zenon, <1>2 DEF TypeOK, Finalize
  <2>3. faults' \in 0 .. MaxFaults /\ raced' \subseteq Names
    BY Zenon, <1>0, <1>2 DEF TypeOK, Finalize
  <2> QED
    BY Zenon, <1>2, <2>1, <2>2, <2>3 DEF TypeOK, Finalize, gcVars
<1>3. ASSUME NEW n \in Names, BeginUnpack(n)
      PROVE  TypeOK'
  <2>1. work' \in Work
    BY <1>3 DEF BeginUnpack, Work
  <2>2. image' \in [Names -> Dir \cup {None}]
    BY <1>3 DEF BeginUnpack, TypeOK, Dir
  <2> QED
    BY <1>3, <2>1, <2>2 DEF TypeOK, BeginUnpack, clusterVars, gcVars
<1>4. CASE ApplyLayer
  <2>1. work \in Work
    BY <1>4 DEF ApplyLayer, TypeOK
  <2>2. work' \in Work
    BY <1>4, <2>1 DEF ApplyLayer, Work
  <2>3. image' \in [Names -> Dir \cup {None}]
    <3>1. CASE image[work.name] # None
               /\ image' = [image EXCEPT ![work.name].layers = @ \cup {work.next}]
      <4>1. image[work.name] \in Dir /\ work.name \in Names /\ work.next \in 1 .. Layers
        BY <1>4, <2>1, <3>1 DEF ApplyLayer, TypeOK, Work
      <4>2. [image[work.name] EXCEPT !.layers = @ \cup {work.next}] \in Dir
        BY <4>1 DEF Dir
      <4> QED
        BY <3>1, <4>1, <4>2 DEF TypeOK
    <3>2. CASE UNCHANGED image
      BY <3>2 DEF TypeOK
    <3> QED
      BY <1>4, <3>1, <3>2 DEF ApplyLayer
  <2> QED
    BY <1>4, <2>2, <2>3 DEF TypeOK, ApplyLayer, Fault, clusterVars, gcVars
<1>5. CASE SetReadOnlyRecursive
  <2>1. work \in Work
    BY <1>5 DEF SetReadOnlyRecursive, TypeOK
  <2>2. work' \in Work
    BY <1>5, <2>1 DEF SetReadOnlyRecursive, Work
  <2>3. image' \in [Names -> Dir \cup {None}]
    <3>1. CASE image[work.name] # None
               /\ image' = [image EXCEPT ![work.name].readOnly = TRUE]
      <4>1. image[work.name] \in Dir /\ work.name \in Names
        BY <2>1, <3>1 DEF TypeOK, Work
      <4>2. [image[work.name] EXCEPT !.readOnly = TRUE] \in Dir
        BY Zenon, <4>1 DEF Dir
      <4> QED
        BY <3>1, <4>1, <4>2 DEF TypeOK
    <3>2. CASE UNCHANGED image
      BY <3>2 DEF TypeOK
    <3> QED
      BY <1>5, <3>1, <3>2 DEF SetReadOnlyRecursive
  <2> QED
    BY <1>5, <2>2, <2>3 DEF TypeOK, SetReadOnlyRecursive, clusterVars, gcVars
<1>6. CASE Discard
  BY Zenon, <1>6 DEF TypeOK, Discard, clusterVars, gcVars
<1>7. CASE Store
  <2>1. content' \in [Names -> (SUBSET (1 .. Layers)) \cup {None}]
    BY Zenon, <1>7 DEF Store, TypeOK, Dir, Work
  <2> QED
    BY Zenon, <1>7, <2>1 DEF TypeOK, Store, gcVars
<1>8. CASE List
  <2>1. faults' \in 0 .. MaxFaults
    BY Zenon, <1>0, <1>8 DEF List, TypeOK
  <2> QED
    BY Zenon, <1>8, <2>1 DEF TypeOK, List, clusterVars, diskVars
<1>9. CASE ReadDir
  <2>1. faults' \in 0 .. MaxFaults
    BY Zenon, <1>0, <1>9 DEF ReadDir, TypeOK
  <2> QED
    BY Zenon, <1>9, <2>1 DEF TypeOK, ReadDir, EndPass, Present, clusterVars, diskVars
<1>10. ASSUME NEW n \in Names, NextEntry(n)
       PROVE  TypeOK'
  BY Zenon, <1>10 DEF TypeOK, NextEntry, First, Dir, clusterVars, diskVars
<1>11. CASE EndLoop
  BY <1>11 DEF TypeOK, EndLoop, EndPass, clusterVars, diskVars
<1>12. CASE Unlink
  <2>1. PICK l \in listed : image' = [image EXCEPT ![victim].layers = @ \ {l}]
                            /\ listed' = listed \ {l}
    BY Zenon, <1>12 DEF Unlink
  <2>2. victim \in Names /\ image[victim] \in Dir
    BY <1>12 DEF Unlink, TypeOK
  <2>3. [image[victim] EXCEPT !.layers = @ \ {l}] \in Dir
    BY Zenon, <2>2 DEF Dir
  <2>4. image' \in [Names -> Dir \cup {None}]
    BY Zenon, <2>1, <2>2, <2>3 DEF TypeOK
  <2> QED
    BY Zenon, <1>12, <2>1, <2>4 DEF TypeOK, Unlink, clusterVars
<1>13. CASE Rmdir
  BY Zenon, <1>13 DEF TypeOK, Rmdir, EndPass, clusterVars
<1>14. CASE UNCHANGED vars
  BY <1>14 DEF TypeOK, vars, clusterVars, diskVars, gcVars
<1>15. CASE RemoveFinalizer
  <2>1. faults' \in 0 .. MaxFaults
    BY Zenon, <1>0, <1>15 DEF RemoveFinalizer, TypeOK
  <2> QED
    BY Zenon, <1>15, <2>1 DEF TypeOK, RemoveFinalizer, diskVars, gcVars
<1> QED
  BY ZenonT(60), <1>1, <1>2, <1>3, <1>4, <1>5, <1>6, <1>7, <1>8, <1>9, <1>10, <1>11, <1>12, <1>13,
     <1>14, <1>15 DEF Next, Reconciler, Collector

\* The reconciler's own steps leave n spared: unpacking starts from no directory.
LEMMA SparedStill ==
    ASSUME NEW n \in Names, Spared(n),
           UNCHANGED <<exists, deleting, gc, expected, entries, victim>>,
           \/ image'[n] = image[n] /\ (WorkingOn(n)' => work'.step \in {"store", "finalizer"})
           \/ /\ WorkingOn(n) /\ work.step \in {"layers", "discard"}
              /\ image[n] = None => image'[n] = None
    PROVE  Spared(n)'
<1>1. CASE n \notin exists \/ gc = "wait" \/ n \in expected \/ ~Overlooked(n)
  BY Zenon, <1>1 DEF Spared, Overlooked
<1>2. CASE image[n] = WholeDir /\ (WorkingOn(n) => work.step \in {"store", "finalizer"})
  BY <1>2 DEF Spared
<1>3. CASE image[n] = None /\ n \in deleting
  BY Zenon, <1>3 DEF Spared
<1> QED
  BY Zenon, <1>1, <1>2, <1>3 DEF Spared

\* What RemoveAll finds of a catalog that is not raced is whole or missing.
LEMMA SparedOrWhole ==
    ASSUME NEW n \in Names, NameInv(n), n \notin raced,
           gc = "removeAll", n = victim, n \notin expected
    PROVE  image[n] = None \/ image[n] = WholeDir
  BY Zenon DEF NameInv, ImageOK, Spared, Overlooked

\* The collector takes nothing from a catalog that is not raced, unless it
\* removes an empty directory: a whole one is neither empty nor writable.
LEMMA CollectorSpares ==
    ASSUME TypeOK, NEW n \in Names, NameInv(n), n \notin raced, Collector
    PROVE  image'[n] = image[n]
<1> USE GarbageCollectorAssumption
<1>1. CASE Unlink \/ Rmdir
  <2>1. victim \in Names \ expected /\ gc = "removeAll"
    BY <1>1 DEF Unlink, Rmdir, TypeOK
  <2>2. CASE n # victim
    BY <1>1, <2>2 DEF Unlink, Rmdir, TypeOK
  <2>3. CASE n = victim
    <3>1. image[n] = None \/ image[n] = WholeDir
      BY <2>1, <2>3, SparedOrWhole
    <3>2. WholeDir.readOnly /\ WholeDir.layers # {}
      BY WholeIsKept
    <3>3. CASE Unlink
      BY Zenon, <2>3, <3>1, <3>2, <3>3 DEF Unlink
    <3>4. CASE Rmdir
      BY Zenon, <2>3, <3>1, <3>2, <3>4 DEF Rmdir
    <3> QED
      BY <1>1, <3>3, <3>4
  <2> QED
    BY Zenon, <2>2, <2>3
<1>2. CASE ~(Unlink \/ Rmdir)
  BY Zenon, <1>2 DEF Collector, List, ReadDir, EndLoop, NextEntry, diskVars
<1> QED
  BY <1>1, <1>2

\* Only the reconciler fills directories, and it makes them read-only at the end.
LEMMA ReadOnlyNext ==
    ASSUME TypeOK, [Next]_vars, NEW n \in Names, ReadOnlyInv(n)
    PROVE  ReadOnlyInv(n)'
<1> USE GarbageCollectorAssumption
<1>1. ASSUME NEW m \in Names, Create(m) \/ Delete(m) \/ Orphan(m)
      PROVE  ReadOnlyInv(n)'
  <2>1. image' = image /\ (work' = work \/ (work' = None /\ Finalizing(m)))
    BY Zenon, <1>1 DEF Create, Delete, Orphan, diskVars
  <2> QED
    BY <2>1 DEF ReadOnlyInv, WorkingOn, Finalizing
<1>2. ASSUME NEW m \in Names, Finalize(m)
      PROVE  ReadOnlyInv(n)'
  <2>1. work = None /\ (image' = image \/ image' = [image EXCEPT ![m] = None])
    BY Zenon, <1>2 DEF Finalize
  <2>2. image'[n] \in {image[n], None}
    BY <2>1 DEF TypeOK
  <2> QED
    BY Zenon, <2>1, <2>2 DEF ReadOnlyInv, WorkingOn
<1>3. ASSUME NEW m \in Names, BeginUnpack(m)
      PROVE  ReadOnlyInv(n)'
  <2>1. work = None /\ work' \in Work
    BY <1>3 DEF BeginUnpack, Work
  <2>2. CASE image'[n] = image[n]
    BY Zenon, <2>1, <2>2 DEF ReadOnlyInv, WorkingOn
  <2>3. CASE image'[n] # image[n]
    <3>1. n = m /\ image[n] = None
      BY Zenon, <1>3, <2>3 DEF BeginUnpack, TypeOK
    <3>2. work'.name = n /\ work'.step = "layers"
      BY <1>3, <3>1 DEF BeginUnpack
    <3> QED
      BY <2>1, <3>2 DEF ReadOnlyInv, WorkingOn
  <2> QED
    BY Zenon, <2>2, <2>3
<1>4. CASE ApplyLayer \/ SetReadOnlyRecursive
  <2>1. work \in Work /\ work' \in Work /\ work'.name = work.name
    BY <1>4 DEF ApplyLayer, SetReadOnlyRecursive, TypeOK, Work
  <2>2. CASE n # work.name
    BY <1>4, <2>1, <2>2 DEF ApplyLayer, SetReadOnlyRecursive, ReadOnlyInv, WorkingOn, TypeOK, Work
  <2>3. CASE n = work.name
    <3>1. work'.step \in {"layers", "discard"} \/ (image'[n] # None => image'[n].readOnly)
      <4>1. CASE ApplyLayer
        BY <2>1, <4>1 DEF ApplyLayer, Work
      <4>2. CASE SetReadOnlyRecursive /\ image[n] # None
        <5>1. image[n] \in Dir /\ image'[n] = [image[n] EXCEPT !.readOnly = TRUE]
          BY <2>3, <4>2 DEF SetReadOnlyRecursive, TypeOK
        <5> QED
          BY <5>1 DEF Dir
      <4>3. CASE SetReadOnlyRecursive /\ image[n] = None
        BY <2>1, <2>3, <4>3 DEF SetReadOnlyRecursive, Work
      <4> QED
        BY <1>4, <4>1, <4>2, <4>3
    <3>2. work' # None
      BY <2>1
    <3> QED
      BY Zenon, <2>1, <2>3, <3>1, <3>2 DEF ReadOnlyInv, WorkingOn
  <2> QED
    BY <2>2, <2>3
<1>5. CASE Discard
  BY Zenon, <1>5 DEF ReadOnlyInv, WorkingOn, Discard, TypeOK
<1>6. CASE Store \/ RemoveFinalizer
  <2>1. image' = image /\ work # None /\ work.step \in {"store", "finalizer"}
    BY Zenon, <1>6 DEF Store, RemoveFinalizer, diskVars
  <2> QED
    BY <2>1 DEF ReadOnlyInv, WorkingOn
<1>7. CASE Unlink
  <2>1. victim \in Names /\ image[victim] \in Dir /\ work' = work
    BY <1>7 DEF Unlink, TypeOK
  <2>2. PICK l \in listed : image' = [image EXCEPT ![victim].layers = @ \ {l}]
    BY Zenon, <1>7 DEF Unlink
  <2>3. \/ image[n] # None /\ (image'[n] # None => image'[n].readOnly = image[n].readOnly)
        \/ image'[n] = image[n]
    <3>1. CASE n = victim
      <4> DEFINE t == image[victim].layers \ {l}
      <4>1. image'[n] = [image[victim] EXCEPT !.layers = t]
        BY Zenon, <2>1, <2>2, <3>1 DEF TypeOK
      <4> HIDE DEF t
      <4>2. image'[n] = [layers |-> t, readOnly |-> image[victim].readOnly]
        BY Zenon, <2>1, <4>1, WithLayers
      <4> QED
        BY <2>1, <3>1, <4>2
    <3>2. CASE n # victim
      BY Zenon, <2>1, <2>2, <3>2 DEF TypeOK
    <3> QED
      BY <3>1, <3>2
  <2> QED
    BY Zenon, <2>1, <2>3 DEF ReadOnlyInv, WorkingOn
<1>8. CASE Rmdir
  BY Zenon, <1>8 DEF ReadOnlyInv, WorkingOn, Rmdir, TypeOK
<1>9. CASE List \/ ReadDir \/ EndLoop \/ (\E m \in Names : NextEntry(m)) \/ UNCHANGED vars
  BY Zenon, <1>9 DEF ReadOnlyInv, WorkingOn, List, ReadDir, EndLoop, NextEntry, vars, diskVars
<1> QED
  BY ZenonT(60), <1>1, <1>2, <1>3, <1>4, <1>5, <1>6, <1>7, <1>8, <1>9
     DEF Next, Reconciler, Collector

\* Every step preserves the invariant of a name.
LEMMA NameNext ==
    ASSUME TypeOK, [Next]_vars, NEW n \in Names, ReadOnlyInv(n), NameInv(n)
    PROVE  NameInv(n)'
<1> USE GarbageCollectorAssumption
<1> SUFFICES ASSUME n \notin raced'
             PROVE  /\ content'[n] \in {None, 1 .. Layers}
                    /\ ImageOK(n)'
                    /\ WorkingOn(n)' => n \in exists'
                    /\ Spared(n)'
  BY Zenon DEF NameInv
<1>1. ASSUME NEW m \in Names, Create(m) \/ Delete(m)
      PROVE  NameInv(n)'
  <2>1. n \notin raced /\ UNCHANGED <<image, content, work, gc, expected, entries, victim>>
    BY Zenon, <1>1 DEF Create, Delete, diskVars, gcVars
  <2>2. exists \subseteq exists' /\ deleting \subseteq deleting'
    BY Zenon, <1>1 DEF Create, Delete
  <2>3. n \in exists' => n \in exists \/ ~Overlooked(n)
    BY Zenon, <1>1 DEF Create, Delete
  <2>4. Spared(n)'
    BY Zenon, <2>1, <2>2, <2>3 DEF NameInv, Spared, Overlooked, WorkingOn
  <2> QED
    BY Zenon, <2>1, <2>2, <2>4 DEF NameInv, ImageOK, WorkingOn
<1>10. ASSUME NEW m \in Names, Orphan(m)
       PROVE  NameInv(n)'
  <2>1. n \notin raced /\ UNCHANGED <<image, content, gc, expected, entries, victim>>
    BY Zenon, <1>10 DEF Orphan, diskVars, gcVars
  <2>2. exists' = exists \ {m} /\ deleting' = deleting \ {m}
    BY Zenon, <1>10 DEF Orphan
  <2>3. CASE work' = work /\ (n = m => ~WorkingOn(n))
    BY Zenon, <2>1, <2>2, <2>3 DEF NameInv, ImageOK, WorkingOn, Spared, Overlooked
  <2>4. CASE work' = None /\ Finalizing(m)
    <3>1. ~WorkingOn(n)' /\ work.step = "finalizer"
      BY Zenon, <2>4 DEF WorkingOn, Finalizing
    <3>2. ImageOK(n)'
      BY <2>1, <3>1 DEF NameInv, ImageOK
    <3> QED
      BY Zenon, <2>1, <2>2, <3>1, <3>2 DEF NameInv, Spared, Overlooked
  <2> QED
    BY Zenon, <1>10, <2>1, <2>3, <2>4 DEF Orphan
<1>2. ASSUME NEW m \in Names, Finalize(m)
      PROVE  NameInv(n)'
  <2>1. work = None /\ m \in exists /\ m \in deleting
    BY Zenon, <1>2 DEF Finalize, TypeOK
  <2>2. UNCHANGED <<exists, deleting, gc, expected, entries, victim>>
    BY Zenon, <1>2 DEF Finalize, gcVars
  <2>3. CASE n = m /\ image'[n] = None /\ content'[n] = None
    BY Zenon, <2>1, <2>2, <2>3 DEF NameInv, ImageOK, Spared
  <2>4. CASE /\ n # m /\ n \notin raced /\ image'[n] = image[n] /\ content'[n] = content[n]
             /\ work' = [name |-> m, step |-> "finalizer", next |-> 1]
    <3>1. ~WorkingOn(n)' /\ ~WorkingOn(n)
      BY <2>1, <2>4 DEF WorkingOn
    <3> QED
      BY Zenon, <2>2, <2>4, <3>1 DEF NameInv, ImageOK, Spared, Overlooked
  <2>5. CASE /\ n \notin raced /\ image' = image /\ work' = work
             /\ content'[n] \in {content[n], None}
    BY Zenon, <2>2, <2>5 DEF NameInv, ImageOK, Spared, Overlooked, WorkingOn
  <2> QED
    BY Zenon, <1>2, <2>3, <2>4, <2>5 DEF Finalize, TypeOK
<1>3. ASSUME NEW m \in Names, BeginUnpack(m)
      PROVE  NameInv(n)'
  <2>1. /\ n \notin raced /\ UNCHANGED <<exists, deleting, content>>
        /\ UNCHANGED <<gc, expected, entries, victim>>
    BY <1>3 DEF BeginUnpack, clusterVars, gcVars
  <2>2. WorkingOn(n)' => n = m /\ n \in exists /\ n \notin deleting
    BY <1>3 DEF BeginUnpack, WorkingOn
  <2>3. ~WorkingOn(n)
    BY <1>3 DEF BeginUnpack, WorkingOn
  <2>4. image[n] = None \/ image[n] = WholeDir
    BY Zenon, <2>1, <2>3 DEF NameInv, ImageOK
  <2>5. CASE image'[n] = image[n] /\ (n = m => work'.step = "store")
    <3>1. Spared(n)'
      BY Zenon, <2>1, <2>2, <2>5, SparedStill DEF NameInv
    <3> QED
      BY Zenon, <2>1, <2>2, <2>4, <2>5, <3>1 DEF NameInv, ImageOK
  <2>6. CASE /\ n = m /\ work' = [name |-> n, next |-> 1, step |-> "layers"]
             /\ image'[n] = [layers |-> {}, readOnly |-> FALSE]
    <3>1. 1 .. (work'.next - 1) = {} /\ work'.step = "layers"
      BY <2>6
    <3>2. WorkingOn(n)'
      <4>1. work' \in Work
        BY <2>6 DEF Work
      <4> QED
        BY Zenon, <2>6, <4>1 DEF WorkingOn
    <3>3. image[n] = None
      BY <1>3, <2>6 DEF BeginUnpack
    <3>4. Spared(n)'
      BY Zenon, <2>1, <2>2, <3>2, <3>3, WholeIsKept DEF NameInv, Spared, Overlooked
    <3> QED
      BY <2>1, <2>2, <2>6, <3>1, <3>2, <3>4, Zenon DEF NameInv, ImageOK
  <2> QED
    BY Zenon, <1>3, <2>5, <2>6 DEF BeginUnpack, TypeOK
<1>4. CASE ApplyLayer
  <2>1. /\ n \notin raced /\ UNCHANGED <<exists, deleting, content>> /\ work \in Work
        /\ UNCHANGED <<gc, expected, entries, victim>>
    BY <1>4 DEF ApplyLayer, clusterVars, gcVars, TypeOK
  <2>2. work'.name = work.name /\ work' # None
    BY <1>4, <2>1 DEF ApplyLayer, Work
  <2>3. WorkingOn(n)' <=> WorkingOn(n)
    BY <1>4, <2>2 DEF ApplyLayer, WorkingOn
  <2>4. ImageOK(n)'
    <3>1. CASE work.name # n
      <4>1. image'[n] = image[n]
        BY <1>4, <2>1, <3>1 DEF ApplyLayer, TypeOK, Work
      <4> QED
        BY Zenon, <2>1, <3>1, <4>1 DEF NameInv, ImageOK, WorkingOn
    <3>2. CASE work.name = n /\ work' = [work EXCEPT !.step = "discard"]
      BY <2>1, <2>2, <3>2 DEF ImageOK, WorkingOn, Work
    <3>3. CASE /\ work.name = n /\ image[n] # None
               /\ image' = [image EXCEPT ![work.name].layers = @ \cup {work.next}]
               /\ work' = [work EXCEPT !.next = @ + 1]
      <4>1. work.step = "layers" /\ work'.step = "layers" /\ work'.next = work.next + 1
            /\ work.next \in 1 .. Layers
        BY <1>4, <2>1, <3>3 DEF ApplyLayer, Work
      <4>2. CASE image[n] = [layers |-> 1 .. (work.next - 1), readOnly |-> FALSE]
        <5>1. (1 .. (work.next - 1)) \cup {work.next} = 1 .. (work'.next - 1)
          BY <4>1
        <5>2. image'[n] = [image[n] EXCEPT !.layers = image[n].layers \cup {work.next}]
          BY <3>3 DEF TypeOK
        <5>3. image'[n] = [layers |-> (1 .. (work.next - 1)) \cup {work.next}, readOnly |-> FALSE]
          <6>1. image[n].layers = 1 .. (work.next - 1)
            BY <4>2
          <6> DEFINE t == image[n].layers \cup {work.next}
          <6>2. image'[n] = [image[n] EXCEPT !.layers = t]
            BY <5>2
          <6>3. t = (1 .. (work.next - 1)) \cup {work.next}
            BY <6>1
          <6> HIDE DEF t
          <6>4. [image[n] EXCEPT !.layers = t] = [layers |-> t, readOnly |-> FALSE]
            <7>1. image[n] \in Dir
              BY <3>3 DEF TypeOK
            <7>2. image[n].readOnly = FALSE
              BY <4>2
            <7> QED
              BY <7>1, <7>2, WithLayers, Zenon
          <6> QED
            BY <6>2, <6>3, <6>4, Zenon
        <5> QED
          BY <2>2, <3>3, <4>1, <5>1, <5>3, Zenon DEF ImageOK, WorkingOn
      <4>3. CASE image[n] = WholeDir
        <5>1. (1 .. Layers) \cup {work.next} = 1 .. Layers
          BY <4>1
        <5>2. image'[n] = [image[n] EXCEPT !.layers = image[n].layers \cup {work.next}]
          BY <3>3 DEF TypeOK
        <5>3. image'[n] = WholeDir
          <6>1. image[n].layers = 1 .. Layers
            BY <4>3 DEF WholeDir
          <6> DEFINE t == image[n].layers \cup {work.next}
          <6>2. image'[n] = [image[n] EXCEPT !.layers = t]
            BY <5>2
          <6>3. t = 1 .. Layers
            BY <5>1, <6>1
          <6> HIDE DEF t
          <6>4. [image[n] EXCEPT !.layers = t] = [layers |-> t, readOnly |-> TRUE]
            <7>1. image[n] \in Dir
              BY <3>3 DEF TypeOK
            <7>2. image[n].readOnly = TRUE
              BY <4>3 DEF WholeDir
            <7> QED
              BY <7>1, <7>2, WithLayers, Zenon
          <6> QED
            BY <6>2, <6>3, <6>4, Zenon DEF WholeDir
        <5> QED
          BY <5>3 DEF ImageOK
      <4> QED
        BY ZenonT(60), <2>1, <3>3, <4>1, <4>2, <4>3 DEF NameInv, ImageOK
    <3> QED
      BY Zenon, <1>4, <3>1, <3>2, <3>3 DEF ApplyLayer
  <2>5. Spared(n)'
    <3>1. CASE WorkingOn(n)
      <4>1. work.step = "layers" /\ (image[n] = None => image'[n] = None)
        BY Zenon, <1>4, <2>1, <3>1 DEF ApplyLayer, WorkingOn, Work
      <4> QED
        BY Zenon, <2>1, <3>1, <4>1, SparedStill DEF NameInv
    <3>2. CASE ~WorkingOn(n)
      <4>1. image'[n] = image[n]
        BY <1>4, <2>1, <3>2 DEF ApplyLayer, WorkingOn, TypeOK, Work
      <4> QED
        BY Zenon, <2>1, <2>3, <3>2, <4>1, SparedStill DEF NameInv
    <3> QED
      BY <3>1, <3>2
  <2> QED
    BY Zenon, <2>1, <2>3, <2>4, <2>5 DEF NameInv
<1>5. CASE SetReadOnlyRecursive
  <2>1. /\ n \notin raced /\ UNCHANGED <<exists, deleting, content>> /\ work \in Work
        /\ UNCHANGED <<gc, expected, entries, victim>>
    BY <1>5 DEF SetReadOnlyRecursive, clusterVars, gcVars, TypeOK
  <2>2. work'.name = work.name /\ work' # None
    BY <1>5, <2>1 DEF SetReadOnlyRecursive, Work
  <2>3. WorkingOn(n)' <=> WorkingOn(n)
    BY Zenon, <1>5, <2>2 DEF SetReadOnlyRecursive, WorkingOn
  <2>4. ImageOK(n)'
    <3>1. CASE image'[n] = image[n] /\ (work.name # n \/ image[n] = None)
      BY <2>1, <3>1 DEF NameInv, ImageOK, WorkingOn
    <3>2. CASE /\ work.name = n /\ image[n] # None
               /\ image' = [image EXCEPT ![work.name].readOnly = TRUE]
      <4>1. image[n].layers = 1 .. Layers /\ image[n] \in Dir
        <5>1. work.step = "layers" /\ work.next - 1 = Layers
          BY <1>5 DEF SetReadOnlyRecursive
        <5> QED
          BY <2>1, <3>2, <5>1 DEF NameInv, ImageOK, WholeDir, TypeOK
      <4>2. image'[n] = WholeDir
        BY Zenon, <3>2, <4>1 DEF TypeOK, WholeDir, Dir
      <4> QED
        BY <4>2 DEF ImageOK
    <3> QED
      BY Zenon, <1>5, <2>1, <3>1, <3>2 DEF SetReadOnlyRecursive, TypeOK, Work
  <2>5. Spared(n)'
    <3>1. CASE WorkingOn(n)
      <4>1. work.step = "layers" /\ (image[n] = None => image'[n] = None)
        BY Zenon, <1>5, <2>1, <3>1 DEF SetReadOnlyRecursive, WorkingOn, Work
      <4> QED
        BY Zenon, <2>1, <3>1, <4>1, SparedStill DEF NameInv
    <3>2. CASE ~WorkingOn(n)
      <4>1. image'[n] = image[n]
        BY <1>5, <2>1, <3>2 DEF SetReadOnlyRecursive, WorkingOn, TypeOK, Work
      <4> QED
        BY Zenon, <2>1, <2>3, <3>2, <4>1, SparedStill DEF NameInv
    <3> QED
      BY <3>1, <3>2
  <2> QED
    BY Zenon, <2>1, <2>3, <2>4, <2>5 DEF NameInv
<1>6. CASE Discard
  <2>1. /\ n \notin raced /\ UNCHANGED <<exists, deleting, content>>
        /\ UNCHANGED <<gc, expected, entries, victim>>
    BY Zenon, <1>6 DEF Discard, clusterVars, gcVars
  <2>2. work' = None /\ ~WorkingOn(n)'
    BY Zenon, <1>6 DEF Discard, WorkingOn
  <2>3. CASE WorkingOn(n)
    <3>1. image'[n] = None /\ work.step = "discard"
      BY Zenon, <1>6, <2>3 DEF Discard, WorkingOn, TypeOK
    <3>2. Spared(n)'
      BY Zenon, <2>1, <2>3, <3>1, SparedStill DEF NameInv
    <3> QED
      BY Zenon, <2>1, <2>2, <3>1, <3>2 DEF NameInv, ImageOK
  <2>4. CASE ~WorkingOn(n)
    <3>1. image'[n] = image[n]
      BY Zenon, <1>6, <2>4 DEF Discard, WorkingOn, TypeOK
    <3>2. Spared(n)'
      BY Zenon, <2>1, <2>2, <3>1, SparedStill DEF NameInv
    <3> QED
      BY Zenon, <2>1, <2>2, <2>4, <3>1, <3>2 DEF NameInv, ImageOK
  <2> QED
    BY <2>3, <2>4
<1>7. CASE Store
  <2>1. /\ UNCHANGED <<exists, deleting, image>> /\ work \in Work /\ work.step = "store"
        /\ UNCHANGED <<gc, expected, entries, victim>>
    BY Zenon, <1>7 DEF Store, gcVars, TypeOK
  <2>2. work' = None /\ ~WorkingOn(n)'
    BY Zenon, <1>7 DEF Store, WorkingOn
  <2>3. CASE n \notin raced
    <3>1. image[n] = None \/ image[n] = WholeDir
      BY <2>1, <2>3 DEF NameInv, ImageOK, WorkingOn
    <3>2. content'[n] \in {content[n], 1 .. Layers}
      <4>1. image[n] # None => image[n].layers = 1 .. Layers
        BY <3>1 DEF WholeDir
      <4> QED
        BY Zenon, <1>7, <2>1, <4>1 DEF Store, TypeOK
    <3>3. Spared(n)'
      BY Zenon, <2>1, <2>2, <2>3, SparedStill DEF NameInv
    <3> QED
      BY Zenon, <2>1, <2>2, <2>3, <3>1, <3>2, <3>3 DEF NameInv, ImageOK
  <2>4. CASE n \in raced
    <3>1. n = work.name /\ image[n] # None /\ image[n].layers = 1 .. Layers
      BY Zenon, <1>7, <2>4 DEF Store
    <3>2. image[n] = WholeDir
      <4>1. image[n] \in Dir /\ image[n].readOnly
        BY <2>1, <3>1 DEF ReadOnlyInv, TypeOK
      <4> QED
        BY <3>1, <4>1 DEF Dir, WholeDir
    <3>3. content'[n] = 1 .. Layers
      BY Zenon, <1>7, <3>1 DEF Store, TypeOK
    <3> QED
      BY Zenon, <2>1, <2>2, <3>2, <3>3 DEF NameInv, ImageOK, Spared
  <2> QED
    BY <2>3, <2>4
<1>8. CASE Collector
  <2>1. n \notin raced /\ UNCHANGED <<exists, deleting, raced, content, work>>
    BY ZenonT(60), <1>8 DEF Collector, List, ReadDir, EndLoop, Unlink, Rmdir, NextEntry, clusterVars, diskVars
  <2>2. image'[n] = image[n]
    BY Zenon, <1>8, <2>1, CollectorSpares
  <2>3. Spared(n)'
    <3>1. CASE List
      BY Zenon, <2>1, <2>2, <3>1 DEF List, Spared, NameInv, Overlooked, WorkingOn
    <3>2. CASE ReadDir
      BY Zenon, <2>1, <2>2, <3>2 DEF ReadDir, EndPass, Spared, NameInv, Overlooked, WorkingOn
    <3>3. CASE EndLoop \/ Rmdir
      <4>1. /\ expected' = expected /\ (gc' = "wait" \/ gc' = "loop")
            /\ entries' \subseteq entries /\ victim' = None
        BY Zenon, <3>3 DEF EndLoop, Rmdir, EndPass
      <4>2. gc # "wait"
        BY <3>3 DEF EndLoop, Rmdir
      <4>3. n # None
        BY GarbageCollectorAssumption
      <4> QED
        BY Zenon, <2>1, <2>2, <4>1, <4>2, <4>3 DEF Spared, NameInv, Overlooked, WorkingOn
    <3>4. CASE Unlink
      BY Zenon, <2>1, <2>2, <3>4 DEF Unlink, Spared, NameInv, Overlooked, WorkingOn
    <3>5. ASSUME NEW m \in Names, NextEntry(m)
          PROVE  Spared(n)'
      <4>1. /\ expected' = expected /\ gc = "loop" /\ gc' \in {"loop", "removeAll"}
            /\ m \in entries /\ entries' = entries \ {m} /\ victim' \in {m, victim}
        BY Zenon, <3>5 DEF NextEntry, First
      <4>2. gc' # "readDir" /\ (gc' # "wait")
        BY <4>1
      <4> QED
        BY Zenon, <2>1, <2>2, <4>1, <4>2 DEF Spared, NameInv, Overlooked, WorkingOn
    <3> QED
      BY Zenon, <1>8, <3>1, <3>2, <3>3, <3>4, <3>5 DEF Collector
  <2> QED
    BY ZenonT(60), <2>1, <2>2, <2>3 DEF NameInv, ImageOK, WorkingOn
<1>9. CASE UNCHANGED vars
  BY Zenon, <1>9 DEF NameInv, ImageOK, WorkingOn, Spared, Overlooked, vars, clusterVars, diskVars, gcVars
<1>11. CASE RemoveFinalizer
  <2>1. /\ n \notin raced /\ UNCHANGED <<image, content, gc, expected, entries, victim>>
        /\ work' = None /\ work # None /\ work.step = "finalizer"
    BY Zenon, <1>11 DEF RemoveFinalizer, diskVars, gcVars
  <2>2. ImageOK(n)' /\ ~WorkingOn(n)'
    BY <2>1 DEF NameInv, ImageOK, WorkingOn
  <2>3. /\ n \in exists' => n \in exists
        /\ n \in exists' /\ n \in deleting => n \in deleting'
    BY Zenon, <1>11 DEF RemoveFinalizer
  <2> QED
    BY Zenon, <2>1, <2>2, <2>3 DEF NameInv, Spared, Overlooked
<1> QED
  BY ZenonT(60), <1>1, <1>2, <1>3, <1>4, <1>5, <1>6, <1>7, <1>8, <1>9, <1>10, <1>11
     DEF Next, Reconciler, NameInv

\* The invariant holds in every state.
LEMMA Invariant == Spec => []Inv
<1>1. Init => Inv
  BY GarbageCollectorAssumption DEF Init, Inv, TypeOK, NameInv, ImageOK, WorkingOn, Spared, ReadOnlyInv
<1>2. Inv /\ [Next]_vars => Inv'
  BY TypeNext, NameNext, ReadOnlyNext, Zenon DEF Inv
<1> QED
  BY <1>1, <1>2, PTL DEF Spec

\* The reconciler, the garbage collector and their directories keep their types.
THEOREM GarbageCollectorTypeCorrect == Spec => []TypeOK
<1>1. Inv => TypeOK
  BY DEF Inv
<1> QED
  BY <1>1, Invariant, PTL

\* Only a catalog that was created before a pass under way came to a directory of its
\* name, or orphaned while it was being unpacked, can be served incomplete.
THEOREM ServedCompleteAlways == Spec => []ServedComplete
<1>1. Inv => ServedComplete
  BY DEF Inv, NameInv, ServedComplete
<1> QED
  BY <1>1, Invariant, PTL

-------------------------------------------------------------------------------
(* The layer filter: induction.                                              *)

\* A set of numbers that is not empty has a least one.
LEMMA Least ==
    ASSUME NEW T, T \subseteq Nat, T # {}
    PROVE  \E n \in T : \A m \in T : n <= m
<1> DEFINE R == OpToRel(<, Nat)
<1>1. IsWellFoundedOn(R, Nat)
  BY Zenon, NatLessThanWellFounded
<1>2. \A x, y \in Nat : x < y => <<x, y>> \in R
  BY DEF OpToRel
<1> HIDE DEF R
<1>3. PICK x \in T : \A y \in T : ~(<<y, x>> \in R)
  BY Zenon, <1>1, WFMin
<1>4. \A y \in T : ~(y < x)
  BY Zenon, <1>2, <1>3
<1> QED
  BY <1>4

\* Induction: what holds of 0 and goes from i - 1 to i holds up to n.
LEMMA Ascend ==
    ASSUME NEW n \in Nat, NEW S, 0 \in S, \A i \in 1 .. n : i - 1 \in S => i \in S
    PROVE  \A i \in 0 .. n : i \in S
<1> DEFINE T == (0 .. n) \ S
<1> SUFFICES ASSUME T # {}
             PROVE  FALSE
  OBVIOUS
<1>1. PICK i \in T : \A m \in T : i <= m
  <2>1. T \subseteq Nat
    OBVIOUS
  <2> HIDE DEF T
  <2> QED
    BY Zenon, <2>1, Least
<1>2. i \in 1 .. n /\ i - 1 \in 0 .. n /\ i - 1 \notin T
  BY <1>1
<1> QED
  BY <1>2

\* A value can be carried through n steps F[1], ..., F[n].
LEMMA Iterate ==
    ASSUME NEW X, NEW x0 \in X, NEW n \in Nat, NEW F \in [1 .. n -> [X -> X]]
    PROVE  \E f \in [0 .. n -> X] : f[0] = x0 /\ \A i \in 1 .. n : f[i] = F[i][f[i - 1]]
<1> DEFINE Upto(m) == {f \in [0 .. m -> X] :
                          f[0] = x0 /\ \A i \in 1 .. m : f[i] = F[i][f[i - 1]]}
           S == {m \in 0 .. n : Upto(m) # {}}
<1>1. 0 \in S
  <2> DEFINE g == [i \in 0 .. 0 |-> x0]
  <2>1. g \in Upto(0)
    OBVIOUS
  <2> QED
    BY <2>1
<1>2. ASSUME NEW m \in 1 .. n, m - 1 \in S
      PROVE  m \in S
  <2>1. PICK f \in Upto(m - 1) : TRUE
    BY <1>2
  <2> DEFINE g == [i \in 0 .. m |-> IF i = m THEN F[m][f[m - 1]] ELSE f[i]]
  <2>2. f[m - 1] \in X /\ F[m] \in [X -> X]
    BY <2>1
  <2>3. g \in [0 .. m -> X]
    BY <2>1, <2>2
  <2>4. g[0] = x0
    BY SMTT(30), <2>1
  <2>5. ASSUME NEW i \in 1 .. m
        PROVE  g[i] = F[i][g[i - 1]]
    <3>1. CASE i = m
      BY <3>1
    <3>2. CASE i # m
      <4>1. i \in 1 .. (m - 1)
        BY <3>2
      <4>2. g[i] = f[i] /\ g[i - 1] = f[i - 1]
        BY <4>1
      <4> QED
        BY <2>1, <4>1, <4>2
    <3> QED
      BY Zenon, <3>1, <3>2
  <2> HIDE DEF g
  <2>6. g \in Upto(m)
    BY <2>3, <2>4, <2>5
  <2> QED
    BY SMTT(30), <2>6
<1>3. n \in S
  <2> HIDE DEF S
  <2>1. \A i \in 0 .. n : i \in S
    BY Zenon, <1>1, <1>2, Ascend
  <2> QED
    BY <2>1
<1> QED
  BY <1>3

\* The same with quantifiers, the form in which the provers can instantiate it.
Iterates(X) ==
    \A x0 \in X : \A n \in Nat : \A F \in [1 .. n -> [X -> X]] :
        \E f \in [0 .. n -> X] : f[0] = x0 /\ \A i \in 1 .. n : f[i] = F[i][f[i - 1]]

\* Every set of values can be carried along.
LEMMA IteratesIn ==
    ASSUME NEW X
    PROVE  Iterates(X)
BY SMTT(30), Iterate DEF Iterates

-------------------------------------------------------------------------------
(* The two ways through a path.                                              *)

Elements == Files \cup {Up, Dot, Empty}

Cleaned == Seq(Files \cup {Up})

Places == [dir : Seq(Files), left : BOOLEAN]

Root == [dir |-> <<>>, left |-> FALSE]

\* A step of path.Clean leaves names and "..".
LEMMA CleanStepType ==
    ASSUME NEW out \in Cleaned, NEW e \in Elements
    PROVE  CleanStep(FALSE, out, e) \in Cleaned
<1>1. CASE e \in {Dot, Empty}
  BY <1>1, LayerFilterAssumption DEF CleanStep
<1>2. CASE e \notin {Dot, Empty}
  <2>1. Append(out, e) \in Cleaned
    BY <1>2 DEF Cleaned, Elements
  <2>2. out # <<>> => DropLast(out) \in Cleaned
    BY DEF Cleaned, DropLast
  <2> QED
    BY <1>2, <2>1, <2>2 DEF CleanStep
<1> QED
  BY Zenon, <1>1, <1>2

\* A step along a path ends in a directory.
LEMMA FollowStepType ==
    ASSUME NEW at \in Places, NEW e \in Elements
    PROVE  FollowStep(at, e) \in Places
<1>1. CASE e \in {Dot, Empty}
  BY <1>1, LayerFilterAssumption DEF FollowStep
<1>2. CASE e = Up /\ e \notin {Dot, Empty}
  <2>1. at.dir # <<>> => DropLast(at.dir) \in Seq(Files)
    BY DEF Places, DropLast
  <2> QED
    BY Zenon, <1>2, <2>1 DEF FollowStep, Places
<1>3. CASE e \notin {Dot, Empty, Up}
  <2>1. Append(at.dir, e) \in Seq(Files)
    BY <1>3 DEF Places, Elements
  <2> QED
    BY Zenon, <1>3, <2>1 DEF FollowStep, Places
<1> QED
  BY <1>1, <1>2, <1>3

\* path.Clean can be carried along the elements of a path.
LEMMA CleanRun ==
    ASSUME NEW n \in Nat, NEW p \in [1 .. n -> Elements]
    PROVE  \E f \in [0 .. n -> Cleaned] :
              f[0] = <<>> /\ \A i \in 1 .. n : f[i] = CleanStep(FALSE, f[i - 1], p[i])
<1>1. <<>> \in Cleaned
  BY DEF Cleaned
<1>2. PICK F \in [1 .. n -> [Cleaned -> Cleaned]] :
          \A i \in 1 .. n : \A x \in Cleaned : F[i][x] = CleanStep(FALSE, x, p[i])
  <2> DEFINE G == [i \in 1 .. n |-> [x \in Cleaned |-> CleanStep(FALSE, x, p[i])]]
  <2>1. G \in [1 .. n -> [Cleaned -> Cleaned]]
    BY Zenon, CleanStepType
  <2> QED
    BY Zenon, <2>1
<1>3. PICK f \in [0 .. n -> Cleaned] :
          f[0] = <<>> /\ \A i \in 1 .. n : f[i] = F[i][f[i - 1]]
  <2>1. Iterates(Cleaned)
    BY IteratesIn
  <2>2. F \in [1 .. n -> [Cleaned -> Cleaned]]
    BY <1>2, Zenon
  <2> QED
    BY ZenonT(60), <1>1, <2>1, <2>2 DEF Iterates
<1>4. ASSUME NEW i \in 1 .. n
      PROVE  f[i] = CleanStep(FALSE, f[i - 1], p[i])
  <2>1. f[i - 1] \in Cleaned /\ f[i] = F[i][f[i - 1]]
    BY <1>3
  <2> QED
    BY Zenon, <1>2, <2>1
<1> QED
  BY Zenon, <1>1, <1>3, <1>4

\* The recursion that defines CleanSteps.
CleanDef(n, p, c) ==
    c = [i \in 0 .. n |-> IF i = 0 THEN <<>> ELSE CleanStep(FALSE, c[i - 1], p[i])]

\* The recursion of CleanSteps has only names and ".." in its values.
LEMMA CleanRecursion ==
    ASSUME NEW n \in Nat, NEW p \in [1 .. n -> Elements],
           NEW c, CleanDef(n, p, c)
    PROVE  /\ c \in [0 .. n -> Cleaned]
           /\ c[0] = <<>>
           /\ \A i \in 1 .. n : c[i] = CleanStep(FALSE, c[i - 1], p[i])
<1> DEFINE S == {i \in 0 .. n : c[i] \in Cleaned}
<1>1. c[0] = <<>>
  BY DEF CleanDef
<1>2. ASSUME NEW i \in 1 .. n
      PROVE  c[i] = CleanStep(FALSE, c[i - 1], p[i])
  BY DEF CleanDef
<1>3. 0 \in S
  <2>1. <<>> \in Cleaned
    BY DEF Cleaned
  <2>2. 0 \in 0 .. n
    OBVIOUS
  <2> QED
    BY <1>1, <2>1, <2>2, Zenon
<1>4. ASSUME NEW i \in 1 .. n, i - 1 \in S
      PROVE  i \in S
  <2>1. c[i - 1] \in Cleaned /\ p[i] \in Elements
    BY <1>4
  <2>2. CleanStep(FALSE, c[i - 1], p[i]) \in Cleaned
    BY Zenon, <2>1, CleanStepType
  <2>3. i \in 0 .. n
    OBVIOUS
  <2>4. c[i] = CleanStep(FALSE, c[i - 1], p[i])
    BY <1>2, Zenon
  <2> QED
    BY <2>2, <2>3, <2>4, Zenon
<1>5. \A i \in 0 .. n : i \in S
  <2> HIDE DEF S
  <2> QED
    BY Zenon, <1>3, <1>4, Ascend
<1> QED
  BY <1>1, <1>2, <1>5 DEF CleanDef

\* The output of path.Clean is computed element by element.
LEMMA CleanStepsDef ==
    ASSUME NEW p \in Seq(Elements)
    PROVE  /\ CleanSteps(FALSE, p) \in [0 .. Len(p) -> Cleaned]
           /\ CleanSteps(FALSE, p)[0] = <<>>
           /\ \A i \in 1 .. Len(p) :
                CleanSteps(FALSE, p)[i] = CleanStep(FALSE, CleanSteps(FALSE, p)[i - 1], p[i])
<1>1. Len(p) \in Nat /\ p \in [1 .. Len(p) -> Elements]
  OBVIOUS
<1>2. \E f : CleanDef(Len(p), p, f)
  <2>1. PICK f \in [0 .. Len(p) -> Cleaned] :
            f[0] = <<>> /\ \A i \in 1 .. Len(p) : f[i] = CleanStep(FALSE, f[i - 1], p[i])
    BY Zenon, <1>1, CleanRun
  <2> QED
    BY <1>1, <2>1 DEF CleanDef
<1>3. CleanSteps(FALSE, p) = CHOOSE g : CleanDef(Len(p), p, g)
  BY DEF CleanSteps, CleanDef
<1>4. CleanDef(Len(p), p, CleanSteps(FALSE, p))
  BY <1>2, <1>3, Zenon
<1> QED
  BY <1>1, <1>4, CleanRecursion, Zenon

\* A path can be followed along its elements.
LEMMA FollowRun ==
    ASSUME NEW n \in Nat, NEW p \in [1 .. n -> Elements]
    PROVE  \E f \in [0 .. n -> Places] :
              f[0] = Root /\ \A i \in 1 .. n : f[i] = FollowStep(f[i - 1], p[i])
<1>1. Root \in Places
  BY DEF Places, Root
<1>2. PICK F \in [1 .. n -> [Places -> Places]] :
          \A i \in 1 .. n : \A x \in Places : F[i][x] = FollowStep(x, p[i])
  <2> DEFINE G == [i \in 1 .. n |-> [x \in Places |-> FollowStep(x, p[i])]]
  <2>1. G \in [1 .. n -> [Places -> Places]]
    BY FollowStepType
  <2> QED
    BY Zenon, <2>1
<1>3. PICK f \in [0 .. n -> Places] :
          f[0] = Root /\ \A i \in 1 .. n : f[i] = F[i][f[i - 1]]
  <2>1. Iterates(Places)
    BY IteratesIn
  <2>2. F \in [1 .. n -> [Places -> Places]]
    BY <1>2, Zenon
  <2> QED
    BY ZenonT(60), <1>1, <2>1, <2>2 DEF Iterates
<1>4. ASSUME NEW i \in 1 .. n
      PROVE  f[i] = FollowStep(f[i - 1], p[i])
  <2>1. f[i - 1] \in Places /\ f[i] = F[i][f[i - 1]]
    BY <1>3
  <2> QED
    BY <1>2, <2>1
<1> QED
  BY ZenonT(60), <1>1, <1>3, <1>4

\* The recursion that defines FollowSteps.
FollowDef(n, p, c) ==
    c = [i \in 0 .. n |-> IF i = 0 THEN Root ELSE FollowStep(c[i - 1], p[i])]

\* The recursion of FollowSteps ends in directories.
LEMMA FollowRecursion ==
    ASSUME NEW n \in Nat, NEW p \in [1 .. n -> Elements],
           NEW c, FollowDef(n, p, c)
    PROVE  /\ c \in [0 .. n -> Places]
           /\ c[0] = Root
           /\ \A i \in 1 .. n : c[i] = FollowStep(c[i - 1], p[i])
<1> DEFINE S == {i \in 0 .. n : c[i] \in Places}
<1>1. c[0] = Root
  BY DEF FollowDef
<1>2. ASSUME NEW i \in 1 .. n
      PROVE  c[i] = FollowStep(c[i - 1], p[i])
  BY DEF FollowDef
<1>3. 0 \in S
  <2>1. Root \in Places
    BY DEF Places, Root
  <2>2. 0 \in 0 .. n
    OBVIOUS
  <2> QED
    BY <1>1, <2>1, <2>2, Zenon
<1>4. ASSUME NEW i \in 1 .. n, i - 1 \in S
      PROVE  i \in S
  <2>1. c[i - 1] \in Places /\ p[i] \in Elements
    BY <1>4
  <2>2. FollowStep(c[i - 1], p[i]) \in Places
    BY <2>1, FollowStepType
  <2>3. i \in 0 .. n
    OBVIOUS
  <2>4. c[i] = FollowStep(c[i - 1], p[i])
    BY <1>2, Zenon
  <2> QED
    BY <2>2, <2>3, <2>4, Zenon
<1>5. \A i \in 0 .. n : i \in S
  <2> HIDE DEF S
  <2> QED
    BY Zenon, <1>3, <1>4, Ascend
<1> QED
  BY <1>1, <1>2, <1>5 DEF FollowDef

\* A path is followed element by element.
LEMMA FollowStepsDef ==
    ASSUME NEW p \in Seq(Elements)
    PROVE  /\ FollowSteps(p) \in [0 .. Len(p) -> Places]
           /\ FollowSteps(p)[0] = Root
           /\ \A i \in 1 .. Len(p) :
                FollowSteps(p)[i] = FollowStep(FollowSteps(p)[i - 1], p[i])
<1>1. Len(p) \in Nat /\ p \in [1 .. Len(p) -> Elements]
  OBVIOUS
<1>2. \E f : FollowDef(Len(p), p, f)
  <2>1. PICK f \in [0 .. Len(p) -> Places] :
            f[0] = Root /\ \A i \in 1 .. Len(p) : f[i] = FollowStep(f[i - 1], p[i])
    BY ZenonT(60), <1>1, FollowRun
  <2> QED
    BY <1>1, <2>1 DEF FollowDef
<1>3. FollowSteps(p) = CHOOSE g : FollowDef(Len(p), p, g)
  BY DEF FollowSteps, FollowDef, Root
<1>4. FollowDef(Len(p), p, FollowSteps(p))
  BY <1>2, <1>3, Zenon
<1> QED
  BY <1>1, <1>4, FollowRecursion, Zenon

-------------------------------------------------------------------------------
(* path.Clean and the walk agree.                                            *)

\* The cleaned path out leads to at: ".." once for every directory above the
\* root, and then the names of the directory.
Shape(l, out, d, dir, left) ==
    /\ d <= l
    /\ \A i \in 1 .. l : out[i] = IF i <= l - d THEN Up ELSE dir[i - (l - d)]
    /\ left <=> d < l

Normal(out, at) == Shape(Len(out), out, Len(at.dir), at.dir, at.left)

\* The last name is dropped.
LEMMA ShapeDrop ==
    ASSUME NEW l \in Nat, NEW d \in Nat, d > 0, NEW out, NEW dir, NEW left,
           Shape(l, out, d, dir, left),
           NEW out2, \A i \in 1 .. l - 1 : out2[i] = out[i],
           NEW dir2, \A i \in 1 .. d - 1 : dir2[i] = dir[i]
    PROVE  Shape(l - 1, out2, d - 1, dir2, left)
<1>1. l - 1 \in Nat /\ d - 1 \in Nat /\ (l - 1) - (d - 1) = l - d
  BY DEF Shape
<1>2. ASSUME NEW i \in 1 .. l - 1
      PROVE  out2[i] = IF i <= l - d THEN Up ELSE dir2[i - (l - d)]
  <2>1. out2[i] = IF i <= l - d THEN Up ELSE dir[i - (l - d)]
    BY <1>1 DEF Shape
  <2>2. i > l - d => i - (l - d) \in 1 .. d - 1
    BY <1>1 DEF Shape
  <2> QED
    BY <1>1, <2>1, <2>2 DEF Shape
<1> QED
  BY <1>1, <1>2 DEF Shape

\* The path goes above the root.
LEMMA ShapeUp ==
    ASSUME NEW l \in Nat, NEW out, NEW dir, NEW left, Shape(l, out, 0, dir, left),
           NEW out2, \A i \in 1 .. l : out2[i] = out[i], out2[l + 1] = Up
    PROVE  Shape(l + 1, out2, 0, dir, TRUE)
<1>1. ASSUME NEW i \in 1 .. l + 1
      PROVE  out2[i] = Up
  <2>1. i = l + 1 \/ (i \in 1 .. l /\ i <= l - 0)
    OBVIOUS
  <2> QED
    BY Zenon, <2>1 DEF Shape
<1> QED
  BY <1>1 DEF Shape

\* out2 and dir2 have one more element, the same.
Grow(l, out, out2, d, dir, dir2) ==
    /\ \A i \in 1 .. l : out2[i] = out[i]
    /\ \A i \in 1 .. d : dir2[i] = dir[i]
    /\ out2[l + 1] = dir2[d + 1]

\* A name is added.
LEMMA ShapeName ==
    ASSUME NEW l \in Nat, NEW d \in Nat, NEW out, NEW dir, NEW left,
           Shape(l, out, d, dir, left),
           NEW out2, NEW dir2, Grow(l, out, out2, d, dir, dir2)
    PROVE  Shape(l + 1, out2, d + 1, dir2, left)
<1>1. (l + 1) - (d + 1) = l - d /\ l - d \in Nat
  BY DEF Shape
<1>2. ASSUME NEW i \in 1 .. l + 1
      PROVE  out2[i] = IF i <= l - d THEN Up ELSE dir2[i - (l - d)]
  <2>1. CASE i = l + 1
    BY <1>1, <2>1 DEF Shape, Grow
  <2>2. CASE i \in 1 .. l
    <3>1. out2[i] = IF i <= l - d THEN Up ELSE dir[i - (l - d)]
      BY SMTT(30), <2>2 DEF Shape, Grow
    <3>2. i > l - d => i - (l - d) \in 1 .. d
      BY <1>1, <2>2 DEF Shape
    <3> QED
      BY <1>1, <2>2, <3>1, <3>2 DEF Grow
  <2> QED
    BY <2>1, <2>2
<1> QED
  BY <1>1, <1>2 DEF Shape

\* All but the last element of a sequence.
LEMMA DropLastElements ==
    ASSUME NEW X, NEW s \in Seq(X), s # <<>>
    PROVE  /\ Len(DropLast(s)) = Len(s) - 1
           /\ \A i \in 1 .. Len(s) - 1 : DropLast(s)[i] = s[i]
<1>1. Len(s) \in Nat /\ Len(s) - 1 \in Nat
  OBVIOUS
<1>2. Len(DropLast(s)) = Len(s) - 1
  <2>1. \A i \in 1 .. Len(s) - 1 : s[i] \in X
    BY <1>1
  <2>2. PICK n \in Nat : n = Len(s) - 1
    BY Zenon, <1>1
  <2>3. Len(SubSeq(s, 1, n)) = IF 1 <= n THEN n - 1 + 1 ELSE 0
    BY <2>1, <2>2, SubSeqProperties
  <2> QED
    BY <2>2, <2>3 DEF DropLast
<1>3. ASSUME NEW i \in 1 .. Len(s) - 1
      PROVE  DropLast(s)[i] = s[i]
  BY <1>1 DEF DropLast
<1> QED
  BY <1>2, <1>3

\* An element takes path.Clean and the walk to the same place.
LEMMA NormalStep ==
    ASSUME NEW out \in Cleaned, NEW at \in Places, Normal(out, at), NEW e \in Elements
    PROVE  Normal(CleanStep(FALSE, out, e), FollowStep(at, e))
<1> DEFINE l == Len(out)
           d == Len(at.dir)
<1>1. l \in Nat /\ d \in Nat /\ at.dir \in Seq(Files) /\ out \in Seq(Files \cup {Up})
      /\ at.left \in BOOLEAN
  BY DEF Cleaned, Places
<1>2. Shape(l, out, d, at.dir, at.left)
  BY DEF Normal
<1>3. CASE e \in {Dot, Empty}
  BY <1>3, LayerFilterAssumption DEF CleanStep, FollowStep
<1>4. CASE e = Up /\ at.dir # <<>>
  <2>1. d > 0 /\ l > 0 /\ out # <<>>
    BY <1>1, <1>4 DEF Normal, Shape
  <2>2. out[l] = at.dir[d] /\ at.dir[d] \in Files
    BY <1>1, <2>1 DEF Normal, Shape
  <2>3. CleanStep(FALSE, out, e) = DropLast(out)
    BY <1>4, <2>1, <2>2, LayerFilterAssumption DEF CleanStep
  <2>4. FollowStep(at, e) = [at EXCEPT !.dir = DropLast(at.dir)]
    BY <1>4, LayerFilterAssumption DEF FollowStep
  <2>5. /\ Len(DropLast(out)) = l - 1 /\ Len(DropLast(at.dir)) = d - 1
        /\ \A i \in 1 .. l - 1 : DropLast(out)[i] = out[i]
        /\ \A i \in 1 .. d - 1 : DropLast(at.dir)[i] = at.dir[i]
    BY ZenonT(60), <1>1, <1>4, <2>1, DropLastElements
  <2>6. FollowStep(at, e).dir = DropLast(at.dir) /\ FollowStep(at, e).left = at.left
    BY <2>4 DEF Places
  <2> QED
    <3>1. Shape(l - 1, DropLast(out), d - 1, DropLast(at.dir), at.left)
      BY ZenonT(60), <1>1, <1>2, <2>1, <2>5, ShapeDrop
    <3> QED
      BY Zenon, <2>3, <2>5, <2>6, <3>1 DEF Normal
<1>5. CASE e = Up /\ at.dir = <<>>
  <2>1. d = 0
    BY <1>5
  <2>2. CleanStep(FALSE, out, e) = Append(out, Up)
    <3>1. out = <<>> \/ out[l] = Up
      BY <1>1, <2>1 DEF Normal, Shape
    <3> QED
      BY ZenonT(60), <1>5, <3>1, LayerFilterAssumption DEF CleanStep
  <2>3. FollowStep(at, e) = [at EXCEPT !.left = TRUE]
    BY <1>5, LayerFilterAssumption DEF FollowStep
  <2>4. FollowStep(at, e).dir = <<>> /\ FollowStep(at, e).left = TRUE
    BY Zenon, <1>5, <2>3 DEF Places
  <2>5. /\ Len(Append(out, Up)) = l + 1 /\ Append(out, Up)[l + 1] = Up
        /\ \A i \in 1 .. l : Append(out, Up)[i] = out[i]
    BY <1>1
  <2> QED
    <3>1. Shape(l + 1, Append(out, Up), 0, at.dir, TRUE)
      BY Zenon, <1>1, <1>2, <2>1, <2>5, ShapeUp
    <3> QED
      BY Zenon, <1>5, <2>1, <2>2, <2>4, <2>5, <3>1 DEF Normal
<1>6. CASE e \notin {Dot, Empty, Up}
  <2>1. e \in Files
    BY <1>6 DEF Elements
  <2>2. CleanStep(FALSE, out, e) = Append(out, e)
    BY <1>6 DEF CleanStep
  <2>3. FollowStep(at, e).dir = Append(at.dir, e) /\ FollowStep(at, e).left = at.left
    BY Zenon, <1>6 DEF FollowStep, Places
  <2>4. /\ Len(Append(out, e)) = l + 1 /\ Append(out, e)[l + 1] = e
        /\ \A i \in 1 .. l : Append(out, e)[i] = out[i]
        /\ Len(Append(at.dir, e)) = d + 1 /\ Append(at.dir, e)[d + 1] = e
        /\ \A i \in 1 .. d : Append(at.dir, e)[i] = at.dir[i]
    BY <1>1, <2>1
  <2> QED
    <3>1. Shape(l + 1, Append(out, e), d + 1, Append(at.dir, e), at.left)
      <4>1. Grow(l, out, Append(out, e), d, at.dir, Append(at.dir, e))
        BY ZenonT(60), <1>1, <2>4 DEF Grow
      <4>2. l \in Nat /\ d \in Nat
        BY <1>1
      <4> HIDE DEF l, d
      <4> QED
        BY <1>2, <4>1, <4>2, ShapeName, Zenon
    <3> QED
      BY Zenon, <2>2, <2>3, <2>4, <3>1 DEF Normal
<1> QED
  BY Zenon, <1>3, <1>4, <1>5, <1>6

\* The cleaned path leads to where the path does.
LEMMA CleanFollow ==
    ASSUME NEW p \in Seq(Elements)
    PROVE  Normal(CleanSteps(FALSE, p)[Len(p)], Follow(p))
<1> DEFINE n == Len(p)
           c == CleanSteps(FALSE, p)
           f == FollowSteps(p)
           S == {i \in 0 .. n : Normal(c[i], f[i])}
<1>1. n \in Nat /\ \A i \in 1 .. n : p[i] \in Elements
  OBVIOUS
<1>2. /\ c \in [0 .. n -> Cleaned] /\ c[0] = <<>>
      /\ \A i \in 1 .. n : c[i] = CleanStep(FALSE, c[i - 1], p[i])
  BY Zenon, CleanStepsDef
<1>3. /\ f \in [0 .. n -> Places] /\ f[0] = Root
      /\ \A i \in 1 .. n : f[i] = FollowStep(f[i - 1], p[i])
  BY FollowStepsDef
<1> HIDE DEF n, c, f
<1>4. 0 \in S
  <2>1. Normal(<<>>, Root)
    BY DEF Normal, Shape, Root
  <2>2. 0 \in 0 .. n
    BY <1>1
  <2> QED
    BY <1>2, <1>3, <2>1, <2>2, Zenon
<1>5. ASSUME NEW i \in 1 .. n, i - 1 \in S
      PROVE  i \in S
  <2>1. i \in 0 .. n /\ i - 1 \in 0 .. n /\ Normal(c[i - 1], f[i - 1])
    BY <1>1, <1>5
  <2>2. c[i - 1] \in Cleaned /\ f[i - 1] \in Places /\ p[i] \in Elements
    BY <1>1, <1>2, <1>3, <2>1
  <2>3. Normal(CleanStep(FALSE, c[i - 1], p[i]), FollowStep(f[i - 1], p[i]))
    BY <2>1, <2>2, NormalStep, Zenon
  <2>4. c[i] = CleanStep(FALSE, c[i - 1], p[i]) /\ f[i] = FollowStep(f[i - 1], p[i])
    BY <1>2, <1>3, Zenon
  <2> QED
    BY <2>1, <2>3, <2>4, Zenon
<1>6. n \in S
  <2>1. \A i \in 0 .. n : i \in S
    <3> HIDE DEF S
    <3> QED
      BY <1>1, <1>4, <1>5, Ascend, Zenon
  <2> QED
    BY <1>1, <2>1
<1> QED
  BY Zenon, <1>6 DEF c, f, n, Follow

\* A leading slash does not change where a path leads.
LEMMA FollowTail ==
    ASSUME NEW p \in Seq(Elements), Len(p) > 1, p[1] = Empty
    PROVE  Follow(Tail(p)) = Follow(p)
<1> DEFINE n == Len(Tail(p))
           q == Tail(p)
           f == FollowSteps(p)
           g == FollowSteps(Tail(p))
           S == {i \in 0 .. n : g[i] = f[i + 1]}
<1>1. /\ n \in Nat /\ Len(p) = n + 1 /\ q \in Seq(Elements)
      /\ \A i \in 1 .. n : q[i] = p[i + 1]
  OBVIOUS
<1>2. f[0] = Root /\ \A i \in 1 .. Len(p) : f[i] = FollowStep(f[i - 1], p[i])
  BY FollowStepsDef
<1>3. g[0] = Root /\ \A i \in 1 .. n : g[i] = FollowStep(g[i - 1], q[i])
  BY Zenon, <1>1, FollowStepsDef
<1> HIDE DEF n, f, g, q
<1>4. 0 \in S
  <2>1. f[1] = FollowStep(f[0], p[1])
    BY <1>1, <1>2
  <2>2. FollowStep(f[0], p[1]) = f[0]
    BY LayerFilterAssumption DEF FollowStep
  <2> QED
    BY <1>1, <1>2, <1>3, <2>1, <2>2
<1>5. ASSUME NEW i \in 1 .. n, i - 1 \in S
      PROVE  i \in S
  <2>1. i \in 0 .. n /\ i + 1 \in 1 .. Len(p) /\ (i + 1) - 1 = i /\ (i - 1) + 1 = i
    BY <1>1
  <2>2. g[i - 1] = f[i]
    BY <1>5, <2>1
  <2>3. g[i] = FollowStep(g[i - 1], q[i]) /\ q[i] = p[i + 1]
    BY <1>1, <1>3, Zenon
  <2>4. f[i + 1] = FollowStep(f[i], p[i + 1])
    BY <1>2, <2>1
  <2> QED
    BY <2>1, <2>2, <2>3, <2>4, Zenon
<1>6. n \in S
  <2>1. \A i \in 0 .. n : i \in S
    <3> HIDE DEF S
    <3> QED
      BY <1>1, <1>4, <1>5, Ascend, Zenon
  <2> QED
    BY <1>1, <2>1
<1> QED
  BY <1>1, <1>6 DEF n, f, g, q, Follow

\* Both together for the path the filter cleans: unless the path begins with two
\* slashes it is not rooted, and it leads to where the path it was given leads.
LEMMA TrimmedFollow ==
    ASSUME NEW p \in Seq(Elements), p # <<>>, ~TwoSlashes(p)
    PROVE  /\ Clean(TrimPrefix(p)).rooted = FALSE
           /\ Clean(TrimPrefix(p)).elems \in Cleaned
           /\ Normal(Clean(TrimPrefix(p)).elems, Follow(p))
           /\ Follow(p) \in Places
<1> DEFINE q == TrimPrefix(p)
<1>1. q \in Seq(Elements) /\ Len(q) \in Nat
  BY DEF TrimPrefix
<1>2. ~(Len(q) > 1 /\ Head(q) = Empty)
  BY DEF TrimPrefix, TwoSlashes
<1>3. Follow(q) = Follow(p)
  BY FollowTail DEF TrimPrefix
<1> HIDE DEF q
<1>4. Clean(q).rooted = FALSE /\ Clean(q).elems = CleanSteps(FALSE, q)[Len(q)]
  BY Zenon, <1>2 DEF Clean
<1>5. CleanSteps(FALSE, q)[Len(q)] \in Cleaned
  <2>1. CleanSteps(FALSE, q) \in [0 .. Len(q) -> Cleaned]
    BY <1>1, CleanStepsDef, Zenon
  <2>2. Len(q) \in 0 .. Len(q)
    BY <1>1
  <2> QED
    BY <2>1, <2>2, Zenon
<1>6. Normal(CleanSteps(FALSE, q)[Len(q)], Follow(q))
  BY Zenon, <1>1, CleanFollow
<1>7. Follow(q) \in Places
  BY <1>1, FollowStepsDef DEF Follow
<1> QED
  BY Zenon, <1>3, <1>4, <1>5, <1>6, <1>7 DEF q

-------------------------------------------------------------------------------
(* filepath.Rel and the verdict.                                             *)

\* The elements base and targ share, as Rel counts them.
Shared(b, t, k) ==
    /\ k <= Len(t) /\ \A i \in 1 .. k : b[i] = t[i]
    /\ k < Len(b) /\ k < Len(t) => b[k + 1] # t[k + 1]

\* The path from b to t when they share n elements.
RelElems(b, t, n) == [i \in 1 .. Len(b) - n |-> Up] \o SubSeq(t, n + 1, Len(t))

\* There is such a number: the two paths are compared from the front.
LEMMA SharedExists ==
    ASSUME NEW b, NEW t, Len(b) \in Nat, Len(t) \in Nat
    PROVE  \E k \in 0 .. Len(b) : Shared(b, t, k)
<1> DEFINE T == {k \in 0 .. Len(b) :
                    /\ k <= Len(t)
                    /\ k = Len(b) \/ k = Len(t) \/ b[k + 1] # t[k + 1]}
<1>1. T \subseteq Nat /\ T # {}
  <2>1. CASE Len(b) <= Len(t)
    BY <2>1
  <2>2. CASE Len(t) <= Len(b)
    BY <2>2
  <2> QED
    BY <2>1, <2>2
<1>2. PICK n \in T : \A m \in T : n <= m
  <2> HIDE DEF T
  <2> QED
    BY <1>1, Least, Zenon
<1>3. ASSUME NEW i \in 1 .. n
      PROVE  b[i] = t[i]
  <2>1. i - 1 \in 0 .. Len(b) /\ i - 1 < n /\ i - 1 < Len(b) /\ i - 1 < Len(t) /\ (i - 1) + 1 = i
    OBVIOUS
  <2>2. i - 1 \notin T
    BY <1>2, <2>1
  <2> QED
    BY <2>1, <2>2
<1>4. n \in 0 .. Len(b) /\ n <= Len(t) /\ (n < Len(b) /\ n < Len(t) => b[n + 1] # t[n + 1])
  OBVIOUS
<1> QED
  BY Zenon, <1>3, <1>4 DEF Shared

\* What is left of a path after its first n elements.
LEMMA Rest ==
    ASSUME NEW X, NEW t \in Seq(X), NEW n \in Nat, n <= Len(t)
    PROVE  /\ SubSeq(t, n + 1, Len(t)) # <<>> <=> n < Len(t)
           /\ n < Len(t) => Head(SubSeq(t, n + 1, Len(t))) = t[n + 1]
<1>1. PICK l \in Nat : l = Len(t)
  OBVIOUS
<1>2. \A i \in n + 1 .. l : t[i] \in X
  BY <1>1
<1>3. PICK s : s = SubSeq(t, n + 1, l)
  BY Zenon
<1>4. n + 1 \in Int /\ l \in Int
  BY <1>1
<1>5. /\ s \in Seq(X)
      /\ Len(s) = IF n + 1 <= l THEN l - (n + 1) + 1 ELSE 0
      /\ \A i \in 1 .. l - (n + 1) + 1 : s[i] = t[(n + 1) + i - 1]
  BY <1>2, <1>3, <1>4, SubSeqProperties
<1>6. s # <<>> <=> n < l
  BY <1>1, <1>5
<1>7. n < l => Head(s) = t[n + 1]
  BY <1>1, <1>5
<1> QED
  BY ZenonT(60), <1>1, <1>3, <1>6, <1>7

\* A path that goes up begins with "..".
LEMMA GoesUp ==
    ASSUME NEW X, NEW s \in Seq(X), NEW m \in Nat, m > 0
    PROVE  /\ [i \in 1 .. m |-> Up] \o s # <<>>
           /\ Head([i \in 1 .. m |-> Up] \o s) = Up
OBVIOUS

\* A path that does not go up is what is left of targ.
LEMMA StaysDown ==
    ASSUME NEW X, NEW s \in Seq(X), NEW m, m = 0
    PROVE  [i \in 1 .. m |-> Up] \o s = s
OBVIOUS

\* Rel of two paths, both rooted or neither, by the elements they share.
LEMMA RelShared ==
    ASSUME NEW base, NEW targ, Len(base.elems) \in Nat, Len(targ.elems) \in Nat,
           base.rooted = targ.rooted
    PROVE  \E n \in 0 .. Len(base.elems) :
              /\ Shared(base.elems, targ.elems, n)
              /\ Rel(base, targ).ok <=> (n < Len(base.elems) => base.elems[n + 1] # Up)
              /\ Rel(base, targ).elems = RelElems(base.elems, targ.elems, n)
<1> DEFINE b == base.elems
           t == targ.elems
           n == CHOOSE k \in 0 .. Len(b) : Shared(b, t, k)
<1>1. n \in 0 .. Len(b) /\ Shared(b, t, n)
  BY Zenon, SharedExists
<1>2. Rel(base, targ) = [ok |-> base.rooted = targ.rooted /\ (n < Len(b) => b[n + 1] # Up),
                         elems |-> RelElems(b, t, n)]
  BY DEF Rel, Shared, RelElems
<1> HIDE DEF n
<1>3. PICK ok, e : /\ ok = (base.rooted = targ.rooted /\ (n < Len(b) => b[n + 1] # Up))
                   /\ e = RelElems(b, t, n)
  BY Zenon
<1>4. Rel(base, targ) = [ok |-> ok, elems |-> e]
  BY <1>2, <1>3, Zenon
<1>5. Rel(base, targ).ok = ok /\ Rel(base, targ).elems = e
  BY <1>4
<1>6. /\ Rel(base, targ).elems = RelElems(b, t, n)
      /\ Rel(base, targ).ok <=> (n < Len(b) => b[n + 1] # Up)
  BY <1>3, <1>5, Zenon
<1> QED
  BY <1>1, <1>6, Zenon

\* A path that stays in the root is the directory it leads to, and one that
\* leaves it begins with "..".
LEMMA NormalForms ==
    ASSUME NEW t \in Cleaned, NEW at \in Places, Normal(t, at)
    PROVE  /\ ~at.left => t = at.dir
           /\ at.left => Len(t) > 0 /\ t[1] = Up
<1>1. Len(t) \in Nat /\ Len(at.dir) \in Nat /\ at.dir \in Seq(Files) /\ t \in Seq(Files \cup {Up})
  BY DEF Cleaned, Places
<1>2. CASE at.left
  BY SMTT(30), <1>1, <1>2 DEF Normal, Shape
<1>3. CASE ~at.left
  <2>1. Len(at.dir) = Len(t)
    BY <1>1, <1>3 DEF Normal, Shape
  <2>2. ASSUME NEW i \in 1 .. Len(t)
        PROVE  t[i] = at.dir[i]
    <3>1. Len(t) - Len(at.dir) = 0 /\ ~(i <= 0) /\ i - 0 = i
      BY <1>1, <2>1
    <3> QED
      BY Zenon, <3>1 DEF Normal, Shape
  <2> QED
    BY <1>1, <1>3, <2>1, <2>2, SeqEqual
<1> QED
  BY ZenonT(60), <1>2, <1>3

\* Rel of the directory b and a path t that leads to entry begins with "..",
\* unless entry is b or below it.
LEMMA Verdict ==
    ASSUME NEW b \in Seq(Files), NEW t \in Cleaned, NEW entry \in Places, Normal(t, entry),
           NEW n \in 0 .. Len(b), Shared(b, t, n),
           NEW rel, rel = RelElems(b, t, n)
    PROVE  rel # <<>> /\ Head(rel) = Up <=> ~(~entry.left /\ Within(b, entry.dir))
<1>1. /\ Len(b) \in Nat /\ Len(t) \in Nat /\ \A i \in 1 .. Len(b) : b[i] \in Files
      /\ entry.dir \in Seq(Files) /\ t \in Seq(Files \cup {Up}) /\ Up \notin Files
  BY LayerFilterAssumption DEF Cleaned, Places
<1>2. /\ n \in Nat /\ n <= Len(b) /\ n <= Len(t) /\ \A i \in 1 .. n : b[i] = t[i]
      /\ n < Len(b) /\ n < Len(t) => b[n + 1] # t[n + 1]
  BY <1>1 DEF Shared
<1>3. /\ ~entry.left => t = entry.dir
      /\ entry.left => Len(t) > 0 /\ t[1] = Up
  BY NormalForms, Zenon
<1>4. SubSeq(t, n + 1, Len(t)) \in Seq(Files \cup {Up})
  BY <1>1, <1>2
<1>5. CASE n < Len(b)
  <2>1. rel # <<>> /\ Head(rel) = Up
    <3>1. Len(b) - n \in Nat /\ Len(b) - n > 0
      BY SMTT(30), <1>1, <1>2, <1>5
    <3> QED
      BY <1>4, <3>1, GoesUp, Zenon DEF RelElems
  <2>2. ~Within(b, t)
    BY <1>1, <1>2, <1>5 DEF Within
  <2>3. ~(~entry.left /\ Within(b, entry.dir))
    BY <1>3, <2>2, Zenon
  <2> QED
    BY <2>1, <2>3, Zenon
<1>6. CASE n = Len(b)
  <2>1. rel = SubSeq(t, n + 1, Len(t))
    <3>1. Len(b) - n = 0
      BY SMTT(30), <1>1, <1>6
    <3> QED
      BY <1>4, <3>1, StaysDown, Zenon DEF RelElems
  <2>2. /\ rel # <<>> <=> n < Len(t)
        /\ n < Len(t) => Head(rel) = t[n + 1]
    BY ZenonT(60), <1>1, <1>2, <2>1, Rest
  <2>3. CASE entry.left
    <3>1. n = 0
      BY SMTT(30), <1>1, <1>2, <1>3, <1>6, <2>3
    <3>2. rel # <<>> /\ Head(rel) = Up
      BY SMTT(30), <1>3, <2>2, <2>3, <3>1
    <3> QED
      BY <2>3, <3>2, Zenon
  <2>4. CASE ~entry.left
    <3>1. Within(b, entry.dir)
      BY Zenon, <1>1, <1>2, <1>3, <1>6, <2>4 DEF Within
    <3>2. n < Len(t) => t[n + 1] # Up
      BY SMTT(30), <1>1, <1>2, <1>3, <2>4
    <3> QED
      BY Zenon, <2>2, <2>4, <3>1, <3>2
  <2> QED
    BY <2>3, <2>4
<1>7. n < Len(b) \/ n = Len(b)
  BY <1>1, <1>2
<1> QED
  BY <1>5, <1>6, <1>7, Zenon

\* The verdict on any name, for any label that stays in the root.
LEMMA FilterKeeps ==
    ASSUME NEW src \in Seq(Elements), src # <<>>, ~TwoSlashes(src), ~Follow(src).left,
           NEW nm \in Seq(Elements), nm # <<>>, ~TwoSlashes(nm)
    PROVE  applyLayerFilter(src, nm) =
             IF ~Follow(nm).left /\ Within(Follow(src).dir, Follow(nm).dir) THEN "keep" ELSE "skip"
<1> DEFINE base == Clean(TrimPrefix(src))
           targ == Clean(TrimPrefix(nm))
           dir == Follow(src)
           entry == Follow(nm)
           rel == Rel(base, targ)
<1>1. /\ base.rooted = FALSE /\ base.elems \in Cleaned
      /\ Normal(base.elems, dir) /\ dir \in Places
  BY TrimmedFollow, Zenon
<1>2. /\ targ.rooted = FALSE /\ targ.elems \in Cleaned
      /\ Normal(targ.elems, entry) /\ entry \in Places
  BY TrimmedFollow, Zenon
<1>3. applyLayerFilter(src, nm) =
          CASE ~rel.ok -> "error"
            [] rel.ok /\ rel.elems # <<>> /\ Head(rel.elems) = Up -> "skip"
            [] OTHER -> "keep"
  BY Zenon DEF applyLayerFilter
<1>4. ~dir.left
  OBVIOUS
<1> HIDE DEF base, targ, dir, entry
<1>5. base.elems = dir.dir /\ base.elems \in Seq(Files)
  <2>1. base.elems = dir.dir
    BY <1>1, <1>4, NormalForms, Zenon
  <2> QED
    BY <1>1, <2>1 DEF Places
<1>6. Len(base.elems) \in Nat /\ Len(targ.elems) \in Nat
  BY <1>1, <1>2 DEF Cleaned
<1>7. PICK n \in 0 .. Len(base.elems) :
          /\ Shared(base.elems, targ.elems, n)
          /\ rel.ok <=> (n < Len(base.elems) => base.elems[n + 1] # Up)
          /\ rel.elems = RelElems(base.elems, targ.elems, n)
  BY <1>1, <1>2, <1>6, RelShared, Zenon
<1> HIDE DEF rel
<1>8. n < Len(base.elems) => base.elems[n + 1] # Up
  BY <1>5, <1>6, LayerFilterAssumption
<1>9. rel.ok
  BY <1>7, <1>8, Zenon
<1>10. rel.elems # <<>> /\ Head(rel.elems) = Up <=> ~(~entry.left /\ Within(base.elems, entry.dir))
  BY <1>2, <1>5, <1>7, Verdict
<1>11. CASE ~entry.left /\ Within(base.elems, entry.dir)
  <2>1. applyLayerFilter(src, nm) = "keep"
    BY <1>3, <1>9, <1>10, <1>11, Zenon
  <2> QED
    BY <1>5, <1>11, <2>1, Zenon DEF dir, entry
<1>12. CASE ~(~entry.left /\ Within(base.elems, entry.dir))
  <2>1. applyLayerFilter(src, nm) = "skip"
    BY <1>3, <1>9, <1>10, <1>12, Zenon
  <2> QED
    BY <1>5, <1>12, <2>1, Zenon DEF dir, entry
<1> QED
  BY <1>11, <1>12, Zenon

\* A label and a name are paths, and the verdict is the filter's.
FilterInv ==
    /\ srcPath \in Seq(Elements) /\ srcPath # <<>>
    /\ name \in Seq(Elements) /\ name # <<>>
    /\ verdict \in {"none", applyLayerFilter(srcPath, name)}

\* For labels and names of any length: the filter extracts the directory that the
\* label names and everything below it, and nothing else.
THEOREM SubtreeKept == FilterSpec => []KeepsSubtree
<1>1. FilterInit => FilterInv
  <2>1. ASSUME NEW n \in Nat, NEW p \in Paths(n)
        PROVE  p \in Seq(Elements) /\ p # <<>>
    <3>1. PICK k \in 1 .. n : p \in [1 .. k -> Elements]
      BY DEF Paths, Elements
    <3> QED
      BY <3>1
  <2> QED
    BY ZenonT(60), <2>1, LayerFilterAssumption DEF FilterInit, FilterInv
<1>2. FilterInv /\ [FilterNext]_filterVars => FilterInv'
  BY Zenon DEF FilterInv, FilterNext, Apply, filterVars
<1>3. FilterInv => KeepsSubtree
  BY FilterKeeps, Zenon DEF FilterInv, KeepsSubtree
<1> QED
  BY <1>1, <1>2, <1>3, PTL DEF FilterSpec

===============================================================================

--------------------------- MODULE GarbageCollector ---------------------------
(***************************************************************************)
(* GarbageCollector (garbage_collector.go) against the reconciler, which   *)
(* unpacks, stores and cleans up catalogs in the same unpack cache.        *)
(*                                                                         *)
(* A catalog has at most one image directory here (ImageUnpack has         *)
(* several).  Of a directory the model keeps which layers still have their *)
(* files in it and whether it was made read-only: the manager does not run *)
(* as root (manager.yaml), so RemoveAll cannot take anything out of a      *)
(* read-only directory, while deleteRecursive makes it writable first.     *)
(* The reconciler handles one catalog at a time.                           *)
(***************************************************************************)
EXTENDS Naturals, FiniteSets

CONSTANTS Names,      \* catalog names, numbered in the order ReadDir sorts them
          Layers,     \* the number of layers of an image
          None,       \* no directory, no content, no work
          Faults,     \* the kinds of failure that can happen
          MaxCreates, \* bound: catalogs created
          MaxFaults   \* bound: failures

Dir == [layers : SUBSET (1 .. Layers), readOnly : BOOLEAN]

Work == [name : Names, step : {"layers", "store", "discard", "finalizer"},
         next : 1 .. Layers + 1]

ASSUME GarbageCollectorAssumption ==
    /\ Names \subseteq Nat /\ Layers \in Nat \ {0}
    /\ None \notin Names /\ \A s \in SUBSET (1 .. Layers) : None # s
    /\ None \notin Dir /\ None \notin Work
    /\ Faults \subseteq {"list", "readDir", "orphan", "layer", "cleanup", "write"}
    /\ MaxCreates \in Nat /\ MaxFaults \in Nat

VARIABLES
    exists,    \* names of the ClusterCatalogs of the cluster
    deleting,  \* those with a deletion timestamp
    image,     \* the image directory of each name
    content,   \* the layers the served content of each name was made from
    work,      \* what the reconciler is doing
    gc,        \* the next step of the garbage collector
    expected,  \* expectedCatalogs
    entries,   \* cacheDirEntries still to be looked at
    victim,    \* the entry RemoveAll works on
    listed,    \* what RemoveAll has read of it and not yet removed
    raced,     \* history: created where the pass under way looks for its directory, or
               \* orphaned while worked on; neither stored whole nor cleaned up since
    creates, faults  \* counters for the bounds

clusterVars == <<exists, deleting, raced, creates>>
diskVars == <<image, content>>
gcVars == <<gc, expected, entries, victim, listed>>
vars == <<clusterVars, diskVars, work, gcVars, faults>>

TypeOK ==
    /\ exists \subseteq Names /\ deleting \subseteq exists /\ raced \subseteq Names
    /\ image \in [Names -> Dir \cup {None}]
    /\ content \in [Names -> (SUBSET (1 .. Layers)) \cup {None}]
    /\ work \in Work \cup {None}
    /\ gc \in {"wait", "readDir", "loop", "removeAll"}
    /\ expected \subseteq Names /\ entries \subseteq Names
    /\ victim \in Names \cup {None} /\ listed \subseteq 1 .. Layers
    /\ gc = "removeAll" => victim \in Names \ expected
    /\ creates \in 0 .. MaxCreates /\ faults \in 0 .. MaxFaults

Init ==
    /\ exists = {} /\ deleting = {} /\ raced = {}
    /\ image = [n \in Names |-> None] /\ content = [n \in Names |-> None]
    /\ work = None
    /\ gc = "wait" /\ expected = {} /\ entries = {} /\ victim = None /\ listed = {}
    /\ creates = 0 /\ faults = 0

Fault(f) == f \in Faults /\ faults < MaxFaults /\ faults' = faults + 1

Present == {n \in Names : image[n] # None}

WorkingOn(n) == work # None /\ work.name = n
Finalizing(n) == WorkingOn(n) /\ work.step = "finalizer"

-------------------------------------------------------------------------------
(* The cluster.                                                              *)

\* The pass under way has its list of catalogs and has yet to look at this name.
Overlooked(n) == gc = "readDir" \/ n \in entries \/ n = victim

Create(n) ==
    /\ n \in Names \ exists /\ creates < MaxCreates
    /\ exists' = exists \cup {n} /\ creates' = creates + 1
    /\ raced' = (IF Overlooked(n) THEN raced \cup {n} ELSE raced)
    /\ UNCHANGED <<deleting, diskVars, work, gcVars, faults>>

Delete(n) ==
    /\ n \in exists \ deleting
    /\ deleting' = deleting \cup {n}
    /\ UNCHANGED <<exists, raced, creates, diskVars, work, gcVars, faults>>

\* The object goes without a Cleanup after the last unpack: its finalizer was
\* taken off by hand, or a foreground deletion let it be unpacked again.  The
\* reconciler goes on with what it does, but to write the finalizer then fails.
Orphan(n) ==
    /\ Fault("orphan")
    /\ n \in exists
    /\ exists' = exists \ {n} /\ deleting' = deleting \ {n}
    /\ \/ Finalizing(n) /\ work' = None /\ UNCHANGED raced
       \/ ~Finalizing(n) /\ UNCHANGED work
          /\ raced' = (IF WorkingOn(n) THEN raced \cup {n} ELSE raced)
    /\ UNCHANGED <<creates, diskVars, gcVars>>

-------------------------------------------------------------------------------
(* The reconciler.                                                           *)

\* deleteCatalogCache, called by the finalizer: the content goes first.  When one
\* of the two fails the request is retried (ImageUnpack has what a deletion that
\* fails leaves of an image).
Finalize(n) ==
    /\ work = None /\ n \in deleting
    /\ \/ /\ image' = [image EXCEPT ![n] = None] /\ content' = [content EXCEPT ![n] = None]
          /\ work' = [name |-> n, step |-> "finalizer", next |-> 1]
          /\ raced' = raced \ {n}
          /\ UNCHANGED faults
       \/ /\ Fault("cleanup") /\ content' \in {content, [content EXCEPT ![n] = None]}
          /\ UNCHANGED <<image, work, raced>>
    /\ UNCHANGED <<exists, deleting, creates, gcVars>>

\* The finalizer is removed, and with it the object; or the write fails, and
\* everything is done again.
RemoveFinalizer ==
    /\ work # None /\ work.step = "finalizer" /\ work' = None
    /\ \/ exists' = exists \ {work.name} /\ deleting' = deleting \ {work.name} /\ UNCHANGED faults
       \/ Fault("write") /\ UNCHANGED <<exists, deleting>>
    /\ UNCHANGED <<raced, creates, diskVars, gcVars>>

\* Unpack up to the layers.  A directory that is there is taken as unpacked.
BeginUnpack(n) ==
    /\ work = None /\ n \in exists \ deleting
    /\ work' = [name |-> n, next |-> 1,
                step |-> IF image[n] # None THEN "store" ELSE "layers"]
    /\ image' = (IF image[n] # None THEN image
                 ELSE [image EXCEPT ![n] = [layers |-> {}, readOnly |-> FALSE]])
    /\ UNCHANGED <<clusterVars, content, gcVars, faults>>

\* archive.Apply makes the directories below its root, never the root itself.
ApplyLayer ==
    /\ work # None /\ work.step = "layers" /\ work.next <= Layers
    /\ \/ /\ image[work.name] # None
          /\ image' = [image EXCEPT ![work.name].layers = @ \cup {work.next}]
          /\ work' = [work EXCEPT !.next = @ + 1]
          /\ UNCHANGED faults
       \/ /\ image[work.name] = None
          /\ work' = [work EXCEPT !.step = "discard"]
          /\ UNCHANGED <<image, faults>>
       \/ Fault("layer") /\ work' = [work EXCEPT !.step = "discard"] /\ UNCHANGED image
    /\ UNCHANGED <<clusterVars, content, gcVars>>

SetReadOnlyRecursive ==
    /\ work # None /\ work.step = "layers" /\ work.next = Layers + 1
    /\ \/ /\ image[work.name] # None
          /\ image' = [image EXCEPT ![work.name].readOnly = TRUE]
          /\ work' = [work EXCEPT !.step = "store"]
       \/ /\ image[work.name] = None
          /\ work' = [work EXCEPT !.step = "discard"]
          /\ UNCHANGED image
    /\ UNCHANGED <<clusterVars, content, gcVars, faults>>

\* deleteRecursive(unpackPath); Unpack fails and is tried again later.
Discard ==
    /\ work # None /\ work.step = "discard"
    /\ image' = [image EXCEPT ![work.name] = None] /\ work' = None
    /\ UNCHANGED <<clusterVars, content, gcVars, faults>>

\* Store reads the directory.  Without it Store fails and the content stays.
Store ==
    /\ work # None /\ work.step = "store"
    /\ \/ image[work.name] = None /\ UNCHANGED <<content, raced>>
       \/ /\ image[work.name] # None
          /\ content' = [content EXCEPT ![work.name] = image[work.name].layers]
          /\ raced' = (IF image[work.name].layers = 1 .. Layers THEN raced \ {work.name} ELSE raced)
    /\ work' = None
    /\ UNCHANGED <<exists, deleting, creates, image, gcVars, faults>>

Reconciler ==
    \/ \E n \in Names : Finalize(n) \/ BeginUnpack(n)
    \/ RemoveFinalizer \/ ApplyLayer \/ SetReadOnlyRecursive \/ Discard \/ Store

-------------------------------------------------------------------------------
(* The garbage collector.                                                    *)

\* A pass ends, with an error or not: the error is only logged.
EndPass == gc' = "wait" /\ victim' = None /\ listed' = {}

\* Faulty variant: the cluster is not asked before the cache is read.
ListNothing ==
    /\ gc = "wait" /\ gc' = "readDir"
    /\ UNCHANGED <<expected, entries, victim, listed, clusterVars, diskVars, work, faults>>

\* Start begins a pass, at once or after Interval, with the List.
List ==
    /\ gc = "wait"
    /\ \/ expected' = exists /\ gc' = "readDir" /\ UNCHANGED faults
       \/ Fault("list") /\ UNCHANGED <<gc, expected>>
    /\ UNCHANGED <<entries, victim, listed, clusterVars, diskVars, work>>

\* An error ends the pass, as does one of List.
ReadDir ==
    /\ gc = "readDir"
    /\ \/ gc' = "loop" /\ entries' = Present /\ UNCHANGED <<victim, listed, faults>>
       \/ Fault("readDir") /\ EndPass /\ UNCHANGED entries
    /\ UNCHANGED <<expected, clusterVars, diskVars, work>>

First(n) == n \in entries /\ \A m \in entries : n <= m

\* Faulty variant: an entry is removed although its catalog was listed.
NextEntryAny(n) ==
    /\ gc = "loop" /\ First(n) /\ entries' = entries \ {n}
    /\ gc' = "removeAll" /\ victim' = n
    /\ listed' = (IF image[n] = None THEN {} ELSE image[n].layers)
    /\ UNCHANGED <<expected, clusterVars, diskVars, work, faults>>

\* Faulty variant: the loop ends at the first entry that is expected.
NextEntryBreak(n) ==
    /\ gc = "loop" /\ First(n)
    /\ \/ /\ n \in expected /\ EndPass /\ entries' = {}
       \/ /\ n \notin expected /\ entries' = entries \ {n}
          /\ gc' = "removeAll" /\ victim' = n
          /\ listed' = (IF image[n] = None THEN {} ELSE image[n].layers)
    /\ UNCHANGED <<expected, clusterVars, diskVars, work, faults>>

\* One turn of the loop: skip the entry or open it for RemoveAll.
NextEntry(n) ==
    /\ gc = "loop" /\ First(n) /\ entries' = entries \ {n}
    /\ \/ /\ n \in expected
          /\ UNCHANGED <<gc, victim, listed>>
       \/ /\ n \notin expected
          /\ gc' = "removeAll" /\ victim' = n
          /\ listed' = (IF image[n] = None THEN {} ELSE image[n].layers)
    /\ UNCHANGED <<expected, clusterVars, diskVars, work, faults>>

EndLoop ==
    /\ gc = "loop" /\ entries = {} /\ EndPass
    /\ UNCHANGED <<expected, entries, clusterVars, diskVars, work, faults>>

\* RemoveAll unlinks what it has read of the directory, if it may.
Unlink ==
    /\ gc = "removeAll" /\ image[victim] # None /\ ~image[victim].readOnly
    /\ \E l \in listed :
          /\ image' = [image EXCEPT ![victim].layers = @ \ {l}]
          /\ listed' = listed \ {l}
    /\ UNCHANGED <<gc, expected, entries, victim, clusterVars, content, work, faults>>

\* RemoveAll returns.  The directory is removed when it is empty, and an error is
\* returned when it is not: its files could not be unlinked, or others came.  An
\* error ends the pass; the other entries wait for the next one.
Rmdir ==
    /\ gc = "removeAll"
    /\ \/ /\ image[victim] = None
          /\ gc' = "loop" /\ victim' = None /\ listed' = {}
          /\ UNCHANGED <<image, entries>>
       \/ /\ image[victim] # None /\ image[victim].layers = {}
          /\ image' = [image EXCEPT ![victim] = None]
          /\ gc' = "loop" /\ victim' = None /\ listed' = {}
          /\ UNCHANGED entries
       \/ /\ image[victim] # None /\ image[victim].layers # {}
          /\ image[victim].readOnly \/ listed = {}
          /\ EndPass /\ entries' = {}
          /\ UNCHANGED image
    /\ UNCHANGED <<expected, clusterVars, content, work, faults>>

Collector ==
    \/ List \/ ReadDir \/ EndLoop \/ Unlink \/ Rmdir
    \/ \E n \in Names : NextEntry(n)

Next ==
    \/ \E n \in Names : Create(n) \/ Delete(n) \/ Orphan(n)
    \/ Reconciler
    \/ Collector

\* The collector's loop is never left while the process runs.
Fairness == WF_vars(Collector)

Spec == Init /\ [][Next]_vars
FairSpec == Spec /\ Fairness

-------------------------------------------------------------------------------
(* Properties.                                                               *)

\* What is served was made from a whole image although a pass works with an old
\* list of catalogs and an old list of directories: it spares what was listed, what
\* is unpacked after ReadDir and what is whole.  Only a catalog that was created
\* before the pass came to a directory of its name, or that was orphaned while it
\* was being unpacked, can be served incomplete (CollectsMissedOnly), and only
\* until it is stored whole.
ServedComplete ==
    \A n \in Names : content[n] \in {None, 1 .. Layers} \/ n \in raced

Stale(n) == n \in Present \ exists

\* A directory RemoveAll cannot remove.
Stuck(n) == image[n] # None /\ image[n].readOnly /\ image[n].layers # {}

\* An entry without catalog is removed in some later pass, although RemoveAll of
\* an entry before it can fail, unless this entry or one before it is stale and
\* read-only.
StaleCollected ==
    \A n \in Names :
        Stale(n) ~> (~Stale(n) \/ \E m \in Names : m <= n /\ Stale(m) /\ Stuck(m))

\* The collector "should only clean up cache entries that were missed by the
\* handling of a DELETE event on a Catalog resource": it takes nothing from a catalog
\* that exists and is not being deleted.
CollectsMissedOnly ==
    [][Collector => \A n \in exists \ deleting : image'[n] = image[n]]_vars

\* The collector "will ensure that no cache entries exist for Catalog resources
\* that no longer exist".
NoStaleEntries == \A n \in Names : Stale(n) ~> ~Stale(n)
===============================================================================

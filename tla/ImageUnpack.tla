------------------------------ MODULE ImageUnpack ------------------------------
(***************************************************************************)
(* ContainersImageRegistry (containers_image.go): Unpack and Cleanup for   *)
(* one catalog, step by step on the file system.                           *)
(*                                                                         *)
(* Under the catalog's directory there is one directory per image digest.  *)
(* Of its content the model keeps which image it was filled from, how many *)
(* of the image's layers are in it and whether it was made read-only.      *)
(* The reconciler calls Unpack and Cleanup one at a time, in any order and *)
(* with any reference.  A crash kills the container: its emptyDir, and so  *)
(* what is on disk, stays.                                                 *)
(***************************************************************************)
EXTENDS Naturals, FiniteSets

CONSTANTS Digests,    \* image digests; a digest is also a canonical reference
          Labelled,   \* images with the label ConfigDirLabel
          Tag,        \* a reference by tag
          Malformed,  \* a reference that does not parse
          None,       \* no directory, no image
          Layers,     \* the number of layers of an image
          Faults,     \* the kinds of failure that can happen
          MaxPushes,  \* bound: times the tag is moved
          MaxFaults   \* bound: failures

Dir == [image : Digests, layers : 0 .. Layers, readOnly : BOOLEAN]

ASSUME ImageUnpackAssumption ==
    /\ Labelled \subseteq Digests /\ {Tag, Malformed, None} \cap Digests = {}
    /\ Tag # Malformed /\ None \notin Dir
    /\ Layers \in Nat \ {0} /\ MaxPushes \in Nat /\ MaxFaults \in Nat
    /\ Faults \subseteq {"pull", "disk", "delete", "crash"}

VARIABLES
    tag,       \* the digest the tag resolves to
    dirs,      \* the directory of each digest
    pc,        \* the next step of Unpack
    ref,       \* the reference Unpack was called with
    target,    \* the digest of canonicalRef; when idle, of the last result
    layout,    \* the image pulled into the temporary OCI layout
    err,       \* the error the last call returned
    moved,     \* history: digests whose last pull, by tag, found the tag moved since
               \* it was resolved
    leftover,  \* history: digests whose directory a crash or a failing deletion left
    pushes, faults  \* counters for the bounds

vars == <<tag, dirs, pc, ref, target, layout, err, moved, leftover, pushes, faults>>

TypeOK ==
    /\ tag \in Digests
    /\ dirs \in [Digests -> Dir \cup {None}]
    /\ pc \in {"idle", "copy", "unpackImage", "layers", "discard", "deleteOtherImages"}
    /\ ref \in Digests \cup {Tag, Malformed}
    /\ target \in Digests \cup {None} /\ layout \in Digests \cup {None}
    /\ pc # "idle" => target # None /\ ref # Malformed
    /\ pc \in {"layers", "discard", "deleteOtherImages"} => dirs[target] # None
    /\ err \in {"none", "retryable", "terminal"}
    /\ moved \subseteq Digests /\ leftover \subseteq Digests
    /\ pushes \in 0 .. MaxPushes /\ faults \in 0 .. MaxFaults

Init ==
    /\ tag \in Digests /\ dirs = [d \in Digests |-> None]
    /\ pc = "idle" /\ ref = Tag /\ target = None /\ layout = None /\ err = "none"
    /\ moved = {} /\ leftover = {} /\ pushes = 0 /\ faults = 0

Fault(f) == f \in Faults /\ faults < MaxFaults /\ faults' = faults + 1

Present == {d \in Digests : dirs[d] # None}

\* Unpack returns an error, or the directory of the target.
Fail(e) == pc' = "idle" /\ err' = e /\ target' = None /\ layout' = None
Succeed == pc' = "idle" /\ err' = "none" /\ layout' = None /\ UNCHANGED target

\* What an interrupted deleteRecursive can leave of a directory.
Remains(dir) == {dir, [image |-> dir.image, layers |-> 0, readOnly |-> FALSE]}

-------------------------------------------------------------------------------

\* A canonical reference is not looked up.
resolveCanonicalRef(r) == IF r = Tag THEN tag ELSE r

\* SourceContextFunc and resolveReferences, then the check for an image that is
\* already unpacked.
Resolve ==
    /\ pc = "idle"
    /\ ref' \in Digests \cup {Tag, Malformed}
    /\ \/ /\ ref' # Malformed
          /\ target' = resolveCanonicalRef(ref')
          /\ \/ dirs[target'] # None /\ pc' = "idle" /\ UNCHANGED moved
             \/ dirs[target'] = None /\ pc' = "copy" /\ moved' = moved \ {target'}
          /\ err' = "none"
          /\ UNCHANGED <<layout, faults>>
       \/ ref' = Malformed /\ Fail("terminal") /\ UNCHANGED <<moved, faults>>
       \/ Fault("pull") /\ Fail("retryable") /\ UNCHANGED moved
    /\ UNCHANGED <<tag, dirs, leftover, pushes>>

\* Faulty variant: the reference is looked up by tag although it names a digest.
CopiedTag == tag

\* copy.Image pulls by the reference of the spec, not by the resolved one.
CopiedImage == IF ref = Tag THEN tag ELSE ref

\* The image is pulled into a new directory of the container's own file system,
\* which is removed when Unpack returns and which no later call reads.
Copy ==
    /\ pc = "copy"
    /\ \/ /\ layout' = CopiedImage /\ pc' = "unpackImage"
          /\ UNCHANGED <<target, err, faults>>
       \/ Fault("pull") /\ Fail("retryable")
    /\ UNCHANGED <<tag, dirs, ref, moved, leftover, pushes>>

\* unpackImage up to its loop.  Retrying cannot make the label appear in an image
\* that the spec names by digest.
UnpackImage ==
    /\ pc = "unpackImage"
    /\ \/ /\ layout \in Labelled
          /\ dirs' = [dirs EXCEPT ![target] =
                        [image |-> layout, layers |-> 0, readOnly |-> FALSE]]
          /\ pc' = "layers"
          /\ UNCHANGED <<target, layout, err, faults>>
       \/ /\ layout \notin Labelled
          /\ Fail(IF ref = Tag THEN "retryable" ELSE "terminal")
          /\ UNCHANGED <<dirs, faults>>
       \/ Fault("disk") /\ Fail("retryable") /\ UNCHANGED dirs
    /\ UNCHANGED <<tag, ref, moved, leftover, pushes>>

\* One turn of the loop of unpackImage.
ApplyLayer ==
    /\ pc = "layers" /\ dirs[target].layers < Layers
    /\ \/ /\ dirs' = [dirs EXCEPT ![target].layers = @ + 1]
          /\ UNCHANGED <<pc, faults>>
       \/ Fault("disk") /\ pc' = "discard" /\ UNCHANGED dirs
    /\ UNCHANGED <<tag, ref, target, layout, err, moved, leftover, pushes>>

SetReadOnlyRecursive ==
    /\ pc = "layers" /\ dirs[target].layers = Layers
    /\ \/ /\ dirs' = [dirs EXCEPT ![target].readOnly = TRUE]
          /\ pc' = "deleteOtherImages"
          /\ UNCHANGED faults
       \/ Fault("disk") /\ pc' = "discard" /\ UNCHANGED dirs
    /\ UNCHANGED <<tag, ref, target, layout, err, moved, leftover, pushes>>

\* Faulty variants: the directory of a failed unpack is left; the directory of
\* the catalog is deleted instead.
DiscardNothing ==
    /\ pc = "discard" /\ Fail("retryable")
    /\ UNCHANGED <<tag, dirs, ref, moved, leftover, pushes, faults>>

DiscardCatalog ==
    /\ pc = "discard" /\ Fail("retryable")
    /\ dirs' = [d \in Digests |-> None]
    /\ UNCHANGED <<tag, ref, moved, leftover, pushes, faults>>

\* deleteRecursive(unpackPath) after a failed unpackImage.
Discard ==
    /\ pc = "discard" /\ Fail("retryable")
    /\ \/ /\ dirs' = [dirs EXCEPT ![target] = None]
          /\ leftover' = leftover \ {target} /\ UNCHANGED faults
       \/ /\ Fault("delete") /\ leftover' = leftover \cup {target}
          /\ \E dir \in Remains(dirs[target]) : dirs' = [dirs EXCEPT ![target] = dir]
    /\ UNCHANGED <<tag, ref, moved, pushes>>

\* Faulty variants: the image to keep is deleted too; no image is deleted.
DeleteAllImages ==
    /\ pc = "deleteOtherImages"
    /\ \/ /\ Present = {} /\ Succeed /\ UNCHANGED dirs
       \/ /\ \E d \in Present : dirs' = [dirs EXCEPT ![d] = None]
          /\ UNCHANGED <<pc, target, layout, err>>
    /\ UNCHANGED <<tag, ref, moved, leftover, pushes, faults>>

KeepOtherImages ==
    /\ pc = "deleteOtherImages" /\ Succeed
    /\ UNCHANGED <<tag, dirs, ref, moved, leftover, pushes, faults>>

\* One turn of the loop of deleteOtherImages, or the end of Unpack.
DeleteOtherImages ==
    /\ pc = "deleteOtherImages"
    /\ \/ /\ Present = {target} /\ Succeed
          /\ UNCHANGED <<dirs, leftover, faults>>
       \/ \E d \in Present \ {target} :
             /\ dirs' = [dirs EXCEPT ![d] = None] /\ leftover' = leftover \ {d}
             /\ UNCHANGED <<pc, target, layout, err, faults>>
       \/ /\ Fault("delete") /\ Fail("retryable")
          /\ leftover' = leftover \cup (Present \ {target})
          /\ \/ UNCHANGED dirs
             \/ \E d \in Present \ {target} : \E dir \in Remains(dirs[d]) :
                   dirs' = [dirs EXCEPT ![d] = dir]
    /\ UNCHANGED <<tag, ref, moved, pushes>>

\* deleteRecursive(catalogPath) stops anywhere.
CleanupStops ==
    /\ dirs' \in [Digests -> {None} \cup UNION {Remains(dirs[d]) : d \in Present}]
    /\ \A d \in Digests :
          dirs'[d] # None => d \in Present /\ dirs'[d] \in Remains(dirs[d])
    /\ leftover' = {d \in Digests : dirs'[d] # None}

Cleanup ==
    /\ pc = "idle" /\ target' = None
    /\ \/ /\ dirs' = [d \in Digests |-> None] /\ leftover' = {} /\ err' = "none"
          /\ UNCHANGED faults
       \/ Fault("delete") /\ CleanupStops /\ err' = "retryable"
    /\ UNCHANGED <<tag, pc, ref, layout, moved, pushes>>

\* The directories Unpack is filling or about to remove.
Unfinished ==
    {d \in Present : \/ pc \in {"layers", "discard"} /\ d = target
                     \/ pc = "deleteOtherImages" /\ d # target}

\* The container dies, anywhere in Unpack or Cleanup, and starts again.
Crash ==
    /\ Fault("crash")
    /\ pc' = "idle" /\ err' = "none" /\ target' = None /\ layout' = None
    /\ \/ UNCHANGED dirs /\ leftover' = leftover \cup Unfinished
       \/ /\ pc \in {"discard", "deleteOtherImages"}
          /\ \E d \in Unfinished : \E dir \in Remains(dirs[d]) :
                dirs' = [dirs EXCEPT ![d] = dir]
          /\ leftover' = leftover \cup Unfinished
       \/ pc = "idle" /\ CleanupStops
    /\ UNCHANGED <<tag, ref, moved, pushes>>

\* The tag is moved in the registry.
Push ==
    /\ pushes < MaxPushes /\ pushes' = pushes + 1
    /\ tag' \in Digests \ {tag}
    /\ moved' = IF pc = "copy" /\ ref = Tag THEN moved \cup {target} ELSE moved
    /\ UNCHANGED <<dirs, pc, ref, target, layout, err, leftover, faults>>

Unpack == \/ Resolve \/ Copy \/ UnpackImage \/ ApplyLayer \/ SetReadOnlyRecursive
          \/ Discard \/ DeleteOtherImages

Next == Unpack \/ Cleanup \/ Crash \/ Push

Spec == Init /\ [][Next]_vars

-------------------------------------------------------------------------------
(* Properties.                                                               *)

\* Unpack has returned a result.
Unpacked == pc = "idle" /\ target # None

Complete(dir) == dir # None /\ dir.layers = Layers /\ dir.readOnly

\* A result says StateUnpacked, which "conveys that the catalog has been
\* successfully unpacked": all layers of the image are in its directory.
UnpackedIsComplete == Unpacked => Complete(dirs[target])

\* The check for an image already unpacked is fooled only by what a crash or a
\* failing deletion left under that digest, and only until it is removed.
OnlyLeftoversIncomplete ==
    Unpacked /\ target \notin leftover => Complete(dirs[target])

\* Status.ResolvedSource "contains the resolved image digest-based reference",
\* "used so users can use other tooling to fetch the exact OCI manifests that were
\* used to extract the catalog contents": a result's directory was filled from the
\* image of the digest it reports.
ResolvedIsExact == Unpacked => dirs[target].image = target

\* A directory holds the image it is named for, unless the tag was moved between
\* resolveCanonicalRef and copy.Image of the very pull that filled it: earlier
\* mix-ups do not outlive the next pull of that digest, nor spread to others.
OnlyMovedTagsMixUp ==
    \A d \in Present : dirs[d].image = d \/ d \in moved

\* Between calls the catalog has the directory of one image at most, besides such
\* leftovers: Unpack removes the others before it returns, and its own when it
\* fails.
OneImageKept == pc = "idle" => Cardinality(Present \ leftover) <= 1

\* Unpack removes a complete image only once another one is complete.
OldKeptUntilNew ==
    [][\A d \in Digests :
          Complete(dirs[d]) /\ ~Complete(dirs'[d]) /\ pc # "idle"
              => \E n \in Digests \ {d} : Complete(dirs'[n])]_vars
===============================================================================

--------------------------- MODULE ImageUnpackProofs ---------------------------
(***************************************************************************)
(* The invariants of ImageUnpack for any images, layers, tags and faults.  *)
(* At the end, the theorems about PullSecret, which writes the credentials *)
(* ImageUnpack pulls with.                                                 *)
(*                                                                         *)
(* What a directory holds is decided when copy.Image pulls: TagInv says    *)
(* that by then the reference still names the target, or the tag was       *)
(* moved. Besides what a crash or a failing deletion left, every directory *)
(* but the one being filled is complete (CompleteInv), and there is at     *)
(* most one of those until the new one is complete too (OneInv). A digest  *)
(* is a leftover only as long as its directory exists, so that an image    *)
(* pulled again later is not excused.                                      *)
(***************************************************************************)
EXTENDS ImageUnpack, PullSecret, FiniteSetTheorems, TLAPS

TagInv ==
    /\ pc = "copy" => IF ref = Tag THEN tag = target \/ target \in moved ELSE ref = target
    /\ pc = "unpackImage" => layout = target \/ target \in moved

Filling(d) == d = target /\ pc \in {"layers", "discard"}

CompleteInv ==
    /\ \A d \in Digests :
          dirs[d] = None \/ Complete(dirs[d]) \/ Filling(d) \/ d \in leftover
    /\ leftover \subseteq Present
    /\ pc \in {"copy", "unpackImage"} => dirs[target] = None
    /\ Unpacked => dirs[target] # None

OneInv ==
    pc # "deleteOtherImages" =>
        \A d, e \in Present \ leftover : d = e \/ Filling(d) \/ Filling(e)

\* The target is made read-only last.
FillInv ==
    /\ pc \in {"layers", "discard"} => ~dirs[target].readOnly
    /\ pc = "deleteOtherImages" => Complete(dirs[target])

\* What is left of a directory is a directory of the same image.
LEMMA RemainsOfDir ==
    ASSUME NEW dir \in Dir, NEW rest \in Remains(dir)
    PROVE  rest \in Dir /\ rest.image = dir.image
<1>1. 0 \in 0 .. Layers /\ dir.image \in Digests
  BY ImageUnpackAssumption DEF Dir
<1>2. CASE rest = [image |-> dir.image, layers |-> 0, readOnly |-> FALSE]
  BY <1>1, <1>2 DEF Dir
<1> QED
  BY <1>2 DEF Remains

\* MkdirAll: the new directory is that of the target, and holds the pulled image.
LEMMA NewDir ==
    ASSUME TypeOK, UnpackImage, pc' = "layers"
    PROVE  \E new \in Dir : /\ new.image = layout /\ ~new.readOnly /\ new # None
                           /\ dirs' = [dirs EXCEPT ![target] = new]
                           /\ dirs'[target] = new /\ target \in Digests
<1> DEFINE new == [image |-> layout, layers |-> 0, readOnly |-> FALSE]
<1>1. layout \in Digests /\ target \in Digests /\ 0 \in 0 .. Layers
  BY ImageUnpackAssumption DEF UnpackImage, TypeOK, Fail
<1>2. new \in Dir /\ new.image = layout /\ ~new.readOnly
  BY <1>1 DEF Dir
<1>3. dirs' = [dirs EXCEPT ![target] = new]
  BY DEF UnpackImage, Fail
<1> HIDE DEF new
<1> QED
  BY Zenon, <1>1, <1>2, <1>3, ImageUnpackAssumption DEF TypeOK

\* A layer is added to the directory of the target, or none is.
LEMMA LayerAdded ==
    ASSUME TypeOK, ApplyLayer
    PROVE  \E new \in Dir : /\ new.image = dirs[target].image /\ new # None
                           /\ new.readOnly = dirs[target].readOnly
                           /\ dirs' = [dirs EXCEPT ![target] = new]
                           /\ dirs'[target] = new /\ target \in Digests
<1>1. target \in Digests /\ dirs[target] \in Dir
  BY DEF ApplyLayer, TypeOK
<1>2. dirs[target].layers + 1 \in 0 .. Layers
  BY <1>1, ImageUnpackAssumption DEF ApplyLayer, Dir
<1>3. CASE UNCHANGED dirs
  BY <1>1, <1>3, ImageUnpackAssumption DEF TypeOK
<1> DEFINE new == [dirs[target] EXCEPT !.layers = dirs[target].layers + 1]
<1>4. /\ new \in Dir /\ new.image = dirs[target].image
      /\ new.readOnly = dirs[target].readOnly
  BY <1>1, <1>2 DEF Dir
<1>5. dirs' = [dirs EXCEPT ![target] = new] \/ UNCHANGED dirs
  BY DEF ApplyLayer
<1> HIDE DEF new
<1> QED
  BY <1>1, <1>3, <1>4, <1>5, ImageUnpackAssumption DEF TypeOK

\* A directory that has all layers is complete once it is read-only.
LEMMA MadeReadOnly ==
    ASSUME TypeOK, SetReadOnlyRecursive
    PROVE  /\ \E new \in Dir : /\ new.image = dirs[target].image /\ new # None
                              /\ dirs' = [dirs EXCEPT ![target] = new]
                              /\ dirs'[target] = new /\ target \in Digests
           /\ pc' = "deleteOtherImages" => Complete(dirs'[target])
           /\ pc' = "discard" => UNCHANGED dirs
<1>1. target \in Digests /\ dirs[target] \in Dir
  BY DEF SetReadOnlyRecursive, TypeOK
<1>2. CASE UNCHANGED dirs /\ pc' = "discard"
  BY <1>1, <1>2, ImageUnpackAssumption DEF TypeOK
<1> DEFINE new == [dirs[target] EXCEPT !.readOnly = TRUE]
<1>3. /\ new \in Dir /\ new.image = dirs[target].image
      /\ new.layers = dirs[target].layers /\ new.readOnly = TRUE
  BY Zenon, <1>1 DEF Dir
<1>4. \/ dirs' = [dirs EXCEPT ![target] = new] /\ pc' = "deleteOtherImages"
      \/ UNCHANGED dirs /\ pc' = "discard"
  BY DEF SetReadOnlyRecursive
<1>5. dirs[target].layers = Layers
  BY ZenonT(60) DEF SetReadOnlyRecursive
<1> HIDE DEF new
<1> QED
  BY <1>1, <1>2, <1>3, <1>4, <1>5, ImageUnpackAssumption DEF TypeOK, Complete

\* Every step leaves directories, or none.
LEMMA DirsTyped ==
    ASSUME TypeOK, [Next]_vars
    PROVE  dirs' \in [Digests -> Dir \cup {None}]
<1> USE ImageUnpackAssumption
<1>1. ASSUME NEW d \in Digests, NEW x \in Dir \cup {None}
      PROVE  [dirs EXCEPT ![d] = x] \in [Digests -> Dir \cup {None}]
  BY <1>1 DEF TypeOK
<1>2. ASSUME NEW d \in Present, NEW x \in Remains(dirs[d])
      PROVE  [dirs EXCEPT ![d] = x] \in [Digests -> Dir \cup {None}]
  BY <1>1, <1>2, RemainsOfDir DEF Present, TypeOK
<1>3. CASE UNCHANGED dirs
  BY <1>3 DEF TypeOK
<1>4. CASE UnpackImage
  BY <1>1, <1>3, <1>4, NewDir DEF UnpackImage
<1>5. CASE ApplyLayer
  BY <1>1, <1>5, LayerAdded
<1>6. CASE SetReadOnlyRecursive
  BY <1>1, <1>6, MadeReadOnly
<1>7. CASE Discard
  <2>1. target \in Present
    BY <1>7 DEF Discard, TypeOK, Present
  <2> QED
    BY <1>1, <1>2, <1>7, <2>1 DEF Discard, Present
<1>8. CASE DeleteOtherImages
  BY <1>1, <1>2, <1>3, <1>8 DEF DeleteOtherImages, Present
<1>9. CASE CleanupStops
  <2>1. \A d \in Digests : dirs'[d] \in Dir \cup {None}
    BY Zenon, <1>9, RemainsOfDir DEF CleanupStops, Present, TypeOK
  <2>2. dirs' = [d \in Digests |-> dirs'[d]]
    BY <1>9 DEF CleanupStops
  <2> QED
    BY Zenon, <2>1, <2>2
<1>10. CASE Cleanup
  BY <1>9, <1>10 DEF Cleanup
<1>11. CASE Crash
  BY <1>2, <1>3, <1>9, <1>11 DEF Crash, Unfinished
<1> QED
  BY <1>3, <1>4, <1>5, <1>6, <1>7, <1>8, <1>10, <1>11
     DEF Next, Unpack, Resolve, Copy, Push, vars

\* Every step of Unpack, Cleanup, crashes and pushes preserves the type invariant.
LEMMA TypeNext == TypeOK /\ [Next]_vars => TypeOK'
<1> SUFFICES ASSUME TypeOK, [Next]_vars
             PROVE  TypeOK'
  OBVIOUS
<1> USE ImageUnpackAssumption
<1>1. dirs' \in [Digests -> Dir \cup {None}]
  BY DirsTyped
<1>2. ASSUME NEW f, Fault(f)
      PROVE  faults' \in 0 .. MaxFaults
  BY <1>2 DEF Fault, TypeOK
<1>3. CASE Resolve
  <2>1. CASE ref' # Malformed /\ target' = resolveCanonicalRef(ref')
    <3>1. target' \in Digests
      BY Zenon, <1>3, <2>1 DEF Resolve, resolveCanonicalRef, TypeOK
    <3> QED
      BY Zenon, <1>1, <1>2, <1>3, <3>1 DEF Resolve, TypeOK, Fail
  <2> QED
    BY <1>1, <1>2, <1>3, <2>1 DEF Resolve, TypeOK, Fail
<1>4. CASE Copy
  <2>1. CopiedImage \in Digests
    BY Zenon, <1>4 DEF Copy, CopiedImage, TypeOK
  <2> QED
    BY Zenon, <1>1, <1>2, <1>4, <2>1 DEF Copy, TypeOK, Fail
<1>5. CASE UnpackImage
  <2>1. pc' = "layers" => dirs'[target] # None
    BY Zenon, <1>5, NewDir
  <2> QED
    BY Zenon, <1>1, <1>2, <1>5, <2>1 DEF UnpackImage, TypeOK, Fail
<1>6. CASE ApplyLayer
  <2>1. dirs'[target] # None
    BY <1>6, LayerAdded
  <2> QED
    BY ZenonT(60), <1>1, <1>2, <1>6, <2>1 DEF ApplyLayer, TypeOK
<1>7. CASE SetReadOnlyRecursive
  <2>1. dirs'[target] # None
    BY <1>7, MadeReadOnly
  <2> QED
    BY ZenonT(60), <1>1, <1>2, <1>7, <2>1 DEF SetReadOnlyRecursive, TypeOK
<1>8. CASE Discard
  BY ZenonT(60), <1>1, <1>2, <1>8 DEF Discard, TypeOK, Fail
<1>9. CASE DeleteOtherImages
  BY <1>1, <1>2, <1>9 DEF DeleteOtherImages, Present, TypeOK, Fail, Succeed
<1>10. CASE Cleanup
  BY Zenon, <1>1, <1>2, <1>10 DEF Cleanup, CleanupStops, TypeOK
<1>11. CASE Crash
  BY ZenonT(60), <1>1, <1>2, <1>11 DEF Crash, CleanupStops, Unfinished, Present, TypeOK
<1>12. CASE Push
  BY <1>12 DEF Push, TypeOK
<1>13. CASE UNCHANGED vars
  BY <1>13 DEF vars, TypeOK
<1> QED
  BY ZenonT(60), <1>3, <1>4, <1>5, <1>6, <1>7, <1>8, <1>9, <1>10, <1>11, <1>12, <1>13
     DEF Next, Unpack

\* The initial states satisfy it.
LEMMA TypeInit ==
    ASSUME Init
    PROVE  TypeOK
<1>1. /\ dirs \in [Digests -> Dir \cup {None}]
      /\ pushes \in 0 .. MaxPushes /\ faults \in 0 .. MaxFaults
  BY ImageUnpackAssumption DEF Init
<1> QED
  BY Zenon, <1>1 DEF Init, TypeOK

\* The type invariant holds for every number of images, layers and failures.
THEOREM ImageUnpackTypeCorrect == Spec => []TypeOK
  BY TypeInit, TypeNext, PTL DEF Spec

-------------------------------------------------------------------------------
(* OnlyMovedTagsMixUp, under every fault.                                    *)

MixInv == TypeOK /\ TagInv /\ OnlyMovedTagsMixUp

\* What Unpack pulls is what the reference resolved to, or the tag was moved.
LEMMA TagNext == MixInv /\ [Next]_vars => TagInv'
<1> SUFFICES ASSUME MixInv, [Next]_vars
             PROVE  TagInv'
  BY Zenon
<1> USE ImageUnpackAssumption DEF MixInv, TypeOK, TagInv
<1>1. CASE Resolve
  BY Zenon, <1>1 DEF Resolve, resolveCanonicalRef, Fail
<1>2. CASE Copy
  BY Zenon, <1>2 DEF Copy, CopiedImage, Fail
<1>3. CASE UnpackImage \/ ApplyLayer \/ SetReadOnlyRecursive \/ Discard
  BY ZenonT(60), <1>3 DEF UnpackImage, ApplyLayer, SetReadOnlyRecursive, Discard, Fail
<1>4. CASE DeleteOtherImages \/ Cleanup \/ Crash
  BY <1>4 DEF DeleteOtherImages, Cleanup, Crash, Fail, Succeed
<1>5. CASE Push
  BY Zenon, <1>5 DEF Push
<1>6. CASE UNCHANGED vars
  BY Zenon, <1>6 DEF vars
<1> QED
  BY Zenon, <1>1, <1>2, <1>3, <1>4, <1>5, <1>6 DEF Next, Unpack

\* A step keeps the image of every directory that was there before.
Renamed == \A d \in Digests : dirs'[d] # None => dirs[d] # None /\ dirs'[d].image = dirs[d].image

\* Only unpackImage creates a directory, filled from what was pulled.
LEMMA MixNext == MixInv /\ [Next]_vars => OnlyMovedTagsMixUp'
<1> SUFFICES ASSUME MixInv, [Next]_vars
             PROVE  OnlyMovedTagsMixUp'
  OBVIOUS
<1>0. moved \cap Present \subseteq moved' /\ (~Resolve => moved \subseteq moved')
  <2>1. CASE Resolve
    BY Zenon, <2>1 DEF Resolve, Present
  <2> QED
    BY Zenon, <2>1 DEF Next, Unpack, Copy, UnpackImage, ApplyLayer, SetReadOnlyRecursive,
           Discard, DeleteOtherImages, Cleanup, Crash, Push, vars
<1>1. ASSUME Renamed
      PROVE  OnlyMovedTagsMixUp'
  BY <1>0, <1>1 DEF Renamed, OnlyMovedTagsMixUp, Present, MixInv
<1>2. ASSUME NEW d \in Present, NEW x \in Remains(dirs[d]), dirs' = [dirs EXCEPT ![d] = x]
      PROVE  Renamed
  <2>1. x.image = dirs[d].image /\ d \in Digests /\ dirs[d] # None
    BY <1>2, RemainsOfDir DEF Present, MixInv, TypeOK
  <2> QED
    BY <1>2, <2>1 DEF Renamed, MixInv, TypeOK
<1>3. ASSUME NEW d \in Digests, dirs' = [dirs EXCEPT ![d] = None]
      PROVE  Renamed
  BY <1>3 DEF Renamed, MixInv, TypeOK
<1>4. CASE UNCHANGED dirs
  BY Zenon, <1>1, <1>4 DEF Renamed
<1>5. CASE UnpackImage /\ pc' = "layers"
  <2>1. PICK new \in Dir : /\ new.image = layout
                           /\ dirs' = [dirs EXCEPT ![target] = new]
    BY Zenon, <1>5, NewDir DEF MixInv
  <2>2. layout = target \/ target \in moved'
    BY Zenon, <1>5 DEF UnpackImage, MixInv, TagInv
  <2>3. moved' = moved
    BY Zenon, <1>5 DEF UnpackImage
  <2> QED
    BY ZenonT(60), <2>1, <2>2, <2>3 DEF OnlyMovedTagsMixUp, Present, MixInv, TypeOK
<1>6. CASE ApplyLayer
  <2>1. PICK new \in Dir : /\ new.image = dirs[target].image
                           /\ dirs' = [dirs EXCEPT ![target] = new]
    BY <1>6, LayerAdded DEF MixInv
  <2>2. dirs[target] # None
    BY <1>6 DEF ApplyLayer, MixInv, TypeOK
  <2> QED
    BY ZenonT(60), <1>1, <2>1, <2>2 DEF Renamed, MixInv, TypeOK
<1>7. CASE SetReadOnlyRecursive
  <2>1. PICK new \in Dir : /\ new.image = dirs[target].image
                           /\ dirs' = [dirs EXCEPT ![target] = new]
    BY <1>7, MadeReadOnly DEF MixInv
  <2>2. dirs[target] # None
    BY <1>7 DEF SetReadOnlyRecursive, MixInv, TypeOK
  <2> QED
    BY <1>1, <2>1, <2>2 DEF Renamed, MixInv, TypeOK
<1>8. CASE Discard
  <2>1. target \in Present /\ target \in Digests
    BY Zenon, <1>8 DEF Discard, MixInv, TypeOK, Present
  <2> QED
    BY ZenonT(60), <1>1, <1>2, <1>3, <1>8, <2>1 DEF Discard
<1>9. CASE DeleteOtherImages
  BY ZenonT(60), <1>1, <1>2, <1>3, <1>4, <1>9 DEF DeleteOtherImages, Present
<1>10. CASE CleanupStops
  <2>1. ASSUME NEW d \in Digests, dirs'[d] # None
        PROVE  dirs[d] # None /\ dirs'[d] \in Remains(dirs[d])
    BY Zenon, <1>10, <2>1 DEF CleanupStops, Present
  <2>2. ASSUME NEW d \in Digests, dirs'[d] # None
        PROVE  dirs'[d].image = dirs[d].image
    BY <2>1, <2>2, RemainsOfDir DEF MixInv, TypeOK
  <2> QED
    BY Zenon, <1>1, <2>1, <2>2 DEF Renamed
<1>11. CASE Cleanup
  BY Zenon, <1>1, <1>10, <1>11 DEF Cleanup, Renamed
<1>12. CASE Crash
  BY Zenon, <1>1, <1>2, <1>4, <1>10, <1>12 DEF Crash, Unfinished
<1> QED
  BY ZenonT(60), <1>4, <1>5, <1>6, <1>7, <1>8, <1>9, <1>11, <1>12
     DEF Next, Unpack, Resolve, Copy, Push, UnpackImage, vars

\* copy.Image pulls by tag what resolveCanonicalRef may have resolved differently:
\* that is the only way content comes under the wrong digest, whatever fails.
THEOREM OnlyMovedTagsMixUpAlways == Spec => []OnlyMovedTagsMixUp
<1>1. ASSUME Init
      PROVE  TagInv /\ OnlyMovedTagsMixUp
  BY <1>1 DEF Init, TagInv, OnlyMovedTagsMixUp, Present
<1>2. Spec => []TypeOK
  BY Zenon, ImageUnpackTypeCorrect
<1> QED
  BY <1>1, <1>2, TagNext, MixNext, TypeNext, PTL DEF Spec, MixInv

-------------------------------------------------------------------------------
(* OnlyLeftoversIncomplete and OneImageKept, under every fault.              *)

KeepInv == TypeOK /\ CompleteInv /\ OneInv

\* Directories go whole, stay, or become leftovers.
LEMMA KeepNext ==
    ASSUME KeepInv, [Next]_vars
    PROVE  CompleteInv' /\ OneInv'
<1> USE ImageUnpackAssumption
<1>1. CASE Resolve
  <2>1. CASE pc' = "idle"
    BY Zenon, <1>1, <2>1 DEF Resolve, Fail, KeepInv, TypeOK, CompleteInv, OneInv, Filling, Unpacked,
                      Present
  <2>2. CASE pc' = "copy"
    BY ZenonT(60), <1>1, <2>2 DEF Resolve, Fail, KeepInv, TypeOK, CompleteInv, OneInv, Filling, Unpacked,
                      Present
  <2> QED
    BY Zenon, <1>1, <2>1, <2>2 DEF Resolve, Fail
<1>2. CASE Copy
  <2>1. CASE pc' = "idle"
    BY Zenon, <1>2, <2>1
       DEF Copy, Fail, KeepInv, TypeOK, CompleteInv, OneInv, Filling, Unpacked, Present
  <2>2. CASE pc' = "unpackImage"
    BY SMTT(30), <1>2, <2>2
       DEF Copy, Fail, KeepInv, TypeOK, CompleteInv, OneInv, Filling, Unpacked, Present
  <2> QED
    BY Zenon, <1>2, <2>1, <2>2 DEF Copy, Fail
<1>3. CASE UnpackImage /\ pc' = "idle"
  BY Zenon, <1>3 DEF UnpackImage, Fail, KeepInv, TypeOK, CompleteInv, OneInv, Filling, Unpacked,
              Present
<1>4. CASE UnpackImage /\ pc' = "layers"
  <2>1. PICK new \in Dir : dirs' = [dirs EXCEPT ![target] = new] /\ new # None
    BY Zenon, <1>4, NewDir DEF KeepInv
  <2>2. target' = target /\ pc = "unpackImage" /\ UNCHANGED leftover
    BY Zenon, <1>4 DEF UnpackImage, Fail
  <2> QED
    BY <1>4, <2>1, <2>2 DEF KeepInv, TypeOK, CompleteInv, OneInv, Filling, Unpacked, Present
<1>5. CASE ApplyLayer
  <2>1. PICK new \in Dir : dirs' = [dirs EXCEPT ![target] = new] /\ new # None
    BY Zenon, <1>5, LayerAdded DEF KeepInv
  <2>2. /\ target' = target /\ pc = "layers" /\ pc' \in {"layers", "discard"}
        /\ UNCHANGED leftover
    BY Zenon, <1>5 DEF ApplyLayer
  <2> QED
    BY <2>1, <2>2 DEF KeepInv, TypeOK, CompleteInv, OneInv, Filling, Unpacked, Present
<1>6. CASE SetReadOnlyRecursive
  <2>1. PICK new \in Dir : dirs' = [dirs EXCEPT ![target] = new] /\ new # None
    BY Zenon, <1>6, MadeReadOnly DEF KeepInv
  <2>2. /\ target' = target /\ pc = "layers" /\ pc' \in {"deleteOtherImages", "discard"}
        /\ pc' = "deleteOtherImages" => Complete(dirs'[target])
        /\ UNCHANGED leftover
    BY Zenon, <1>6, MadeReadOnly DEF SetReadOnlyRecursive, KeepInv
  <2> QED
    BY <2>1, <2>2 DEF KeepInv, TypeOK, CompleteInv, OneInv, Filling, Unpacked, Present
<1>7. CASE Discard
  <2>1. target \in Digests /\ dirs[target] \in Dir /\ pc = "discard"
    BY Zenon, <1>7 DEF Discard, KeepInv, TypeOK
  <2>2. pc' = "idle" /\ target' = None
    BY ZenonT(60), <1>7 DEF Discard, Fail
  <2>3. CASE dirs' = [dirs EXCEPT ![target] = None] /\ leftover' = leftover \ {target}
    BY <2>1, <2>2, <2>3 DEF KeepInv, TypeOK, CompleteInv, OneInv, Filling, Unpacked, Present
  <2>4. CASE /\ \E dir \in Remains(dirs[target]) : dirs' = [dirs EXCEPT ![target] = dir]
             /\ leftover' = leftover \cup {target}
    <3>1. PICK dir \in Dir : dirs' = [dirs EXCEPT ![target] = dir]
      BY ZenonT(60), <2>1, <2>4, RemainsOfDir
    <3> QED
      BY <2>1, <2>2, <2>4, <3>1
         DEF KeepInv, TypeOK, CompleteInv, OneInv, Filling, Unpacked, Present
  <2> QED
    BY Zenon, <1>7, <2>3, <2>4 DEF Discard
<1>8. CASE DeleteOtherImages
  <2>1. CASE Present = {target} /\ Succeed /\ UNCHANGED <<dirs, leftover>>
    <3>1. /\ pc = "deleteOtherImages" /\ pc' = "idle"
          /\ UNCHANGED <<dirs, leftover, target>> /\ Present = {target}
      BY Zenon, <1>8, <2>1 DEF DeleteOtherImages, Succeed
    <3>2. Present' = {target} /\ \A d \in Digests : ~Filling(d)
      BY <3>1 DEF Present, Filling
    <3>3. OneInv'
      BY Zenon, <3>1, <3>2 DEF OneInv
    <3>4. dirs[target] # None
      BY Zenon, <3>1 DEF Present
    <3>5. CompleteInv'
      BY <3>1, <3>2, <3>4 DEF KeepInv, CompleteInv, Present, Unpacked
    <3> QED
      BY <3>3, <3>5
  <2>2. CASE /\ \E d \in Present \ {target} : /\ dirs' = [dirs EXCEPT ![d] = None]
                                            /\ leftover' = leftover \ {d}
             /\ UNCHANGED <<pc, target>>
    BY SMTT(30), <1>8, <2>2
       DEF DeleteOtherImages, KeepInv, TypeOK, CompleteInv, OneInv, Filling,
                      Unpacked, Present
  <2>3. CASE /\ Fail("retryable") /\ leftover' = leftover \cup (Present \ {target})
             /\ \/ UNCHANGED dirs
                \/ \E d \in Present \ {target} : \E dir \in Remains(dirs[d]) :
                      dirs' = [dirs EXCEPT ![d] = dir]
    <3>1. pc = "deleteOtherImages" /\ pc' = "idle" /\ target' = None
      BY Zenon, <1>8, <2>3 DEF DeleteOtherImages, Fail
    <3>2. \/ UNCHANGED dirs
          \/ \E d \in Present \ {target} : \E dir \in Dir : dirs' = [dirs EXCEPT ![d] = dir]
      BY Zenon, <2>3, RemainsOfDir DEF KeepInv, TypeOK, Present
    <3> QED
      BY SMTT(30), <2>3, <3>1, <3>2
         DEF KeepInv, TypeOK, CompleteInv, OneInv, Filling, Unpacked, Present
  <2> QED
    BY Zenon, <1>8, <2>1, <2>2, <2>3 DEF DeleteOtherImages
<1>9. ASSUME CleanupStops, pc' = "idle", target' = None
      PROVE  CompleteInv' /\ OneInv'
  BY <1>9 DEF CleanupStops, CompleteInv, OneInv, Filling, Unpacked, Present
<1>10. CASE Cleanup
  <2>1. CASE dirs' = [d \in Digests |-> None] /\ leftover' = {}
    BY Zenon, <1>10, <2>1 DEF Cleanup, CompleteInv, OneInv, Filling, Unpacked, Present
  <2> QED
    BY Zenon, <1>9, <1>10, <2>1 DEF Cleanup
<1>11. CASE Crash
  <2>1. pc' = "idle" /\ target' = None
    BY Zenon, <1>11 DEF Crash
  <2>2. CASE UNCHANGED dirs /\ leftover' = leftover \cup Unfinished
    BY Zenon, <2>1, <2>2
       DEF Unfinished, KeepInv, TypeOK, CompleteInv, OneInv, Filling, Unpacked, Present
  <2>3. CASE /\ pc \in {"discard", "deleteOtherImages"}
             /\ \E d \in Unfinished : \E dir \in Remains(dirs[d]) :
                   dirs' = [dirs EXCEPT ![d] = dir]
             /\ leftover' = leftover \cup Unfinished
    <3>1. \E d \in Unfinished : \E dir \in Dir : dirs' = [dirs EXCEPT ![d] = dir]
      BY Zenon, <2>3, RemainsOfDir DEF Unfinished, KeepInv, TypeOK, Present
    <3> QED
      BY SMTT(30), <2>1, <2>3, <3>1
         DEF Unfinished, KeepInv, TypeOK, CompleteInv, OneInv, Filling, Unpacked, Present
  <2> QED
    BY Zenon, <1>9, <1>11, <2>1, <2>2, <2>3 DEF Crash
<1>12. CASE Push \/ UNCHANGED vars
  BY Zenon, <1>12 DEF Push, vars, KeepInv, CompleteInv, OneInv, Filling, Unpacked, Present
<1>13. UnpackImage => pc' \in {"idle", "layers"}
  BY DEF UnpackImage, Fail
<1>14. CASE UnpackImage
  BY Zenon, <1>3, <1>4, <1>13, <1>14
<1>15. CASE Unpack
  BY Zenon, <1>1, <1>2, <1>5, <1>6, <1>7, <1>8, <1>14, <1>15 DEF Unpack
<1> QED
  BY Zenon, <1>10, <1>11, <1>12, <1>15 DEF Next

\* Both invariants hold in every state.
LEMMA KeepAlways == Spec => []KeepInv
<1>1. ASSUME Init
      PROVE  CompleteInv /\ OneInv
  BY <1>1 DEF Init, CompleteInv, OneInv, Present, Unpacked
<1>2. ASSUME KeepInv, [Next]_vars
      PROVE  KeepInv'
  BY <1>2, TypeNext, KeepNext DEF KeepInv
<1>3. ASSUME Init
      PROVE  KeepInv
  BY <1>1, <1>3, TypeInit DEF KeepInv
<1> QED
  BY <1>2, <1>3, PTL DEF Spec

\* A result is returned only for an image all of whose layers are in place, or for
\* one whose directory was left by a crash or a failing deletion and not removed
\* since.
THEOREM OnlyLeftoversIncompleteAlways == Spec => []OnlyLeftoversIncomplete
<1>1. KeepInv => OnlyLeftoversIncomplete
  BY ImageUnpackAssumption
     DEF KeepInv, CompleteInv, OnlyLeftoversIncomplete, Unpacked, Filling, TypeOK
<1> QED
  BY <1>1, KeepAlways, PTL

\* Between calls there is the directory of one image at most besides leftovers.
THEOREM OneImageKeptAlways == Spec => []OneImageKept
<1>1. ASSUME KeepInv, pc = "idle"
      PROVE  Cardinality(Present \ leftover) <= 1
  <2>1. \/ Present \ leftover = {}
        \/ \E d \in Present \ leftover : Present \ leftover = {d}
    BY <1>1 DEF KeepInv, OneInv, Filling
  <2>2. CASE Present \ leftover = {}
    BY <2>2, FS_EmptySet
  <2>3. ASSUME NEW d, Present \ leftover = {d}
        PROVE  Cardinality(Present \ leftover) <= 1
    BY <2>3, FS_Singleton
  <2> QED
    BY <2>1, <2>2, <2>3
<1> QED
  BY <1>1, KeepAlways, PTL DEF OneImageKept

-------------------------------------------------------------------------------
(* OldKeptUntilNew, under every fault.                                       *)

SafeInv == KeepInv /\ FillInv

\* Nothing but the end of the loop makes a directory read-only, and nothing takes
\* a layer from one that is complete while the others are removed.
LEMMA FillNext ==
    ASSUME SafeInv, [Next]_vars
    PROVE  FillInv'
<1> USE ImageUnpackAssumption DEF SafeInv, KeepInv
<1>1. CASE pc' \in {"idle", "copy", "unpackImage"}
  BY <1>1 DEF FillInv
<1>2. CASE UnpackImage /\ pc' = "layers"
  <2>1. ~dirs'[target].readOnly /\ target' = target
    BY Zenon, <1>2, NewDir DEF UnpackImage, Fail
  <2> QED
    BY Zenon, <1>2, <2>1 DEF FillInv
<1>3. CASE ApplyLayer
  <2>1. /\ target' = target /\ pc = "layers" /\ pc' \in {"layers", "discard"}
        /\ dirs'[target].readOnly = dirs[target].readOnly
    BY Zenon, <1>3, LayerAdded DEF ApplyLayer
  <2> QED
    BY Zenon, <2>1 DEF FillInv
<1>4. CASE SetReadOnlyRecursive
  <2>1. /\ target' = target /\ pc = "layers" /\ pc' \in {"deleteOtherImages", "discard"}
        /\ pc' = "deleteOtherImages" => Complete(dirs'[target])
        /\ pc' = "discard" => UNCHANGED dirs
    BY Zenon, <1>4, MadeReadOnly DEF SetReadOnlyRecursive
  <2> QED
    BY Zenon, <2>1 DEF FillInv
<1>5. CASE DeleteOtherImages /\ pc' = "deleteOtherImages"
  <2>1. PICK d \in Present \ {target} : dirs' = [dirs EXCEPT ![d] = None]
    BY <1>5 DEF DeleteOtherImages, Fail, Succeed
  <2>2. dirs'[target] = dirs[target] /\ target' = target /\ pc = "deleteOtherImages"
    BY ZenonT(60), <1>5, <2>1 DEF DeleteOtherImages, Fail, Succeed, TypeOK
  <2> QED
    BY Zenon, <1>5, <2>2 DEF FillInv, Complete
<1>6. CASE UNCHANGED <<pc, target, dirs>>
  BY Zenon, <1>6 DEF FillInv, Complete
<1>7. ASSUME Resolve \/ Copy \/ Discard \/ Crash
      PROVE  pc' \in {"idle", "copy", "unpackImage"}
  BY Zenon, <1>7 DEF Resolve, Copy, Discard, Crash, Fail
<1>8. ASSUME UnpackImage
      PROVE  pc' \in {"idle", "layers"}
  BY ZenonT(60), <1>8 DEF UnpackImage, Fail
<1>9. ASSUME DeleteOtherImages
      PROVE  pc' \in {"idle", "deleteOtherImages"}
  BY <1>9 DEF DeleteOtherImages, Fail, Succeed
<1>10. ASSUME Cleanup
       PROVE  pc' = "idle"
  BY ZenonT(60), <1>10 DEF Cleanup
<1>11. ASSUME Push \/ UNCHANGED vars
       PROVE  UNCHANGED <<pc, target, dirs>>
  BY <1>11 DEF Push, vars
<1>12. CASE Resolve \/ Copy \/ Discard \/ Crash \/ Cleanup
  BY Zenon, <1>1, <1>7, <1>10, <1>12
<1>13. CASE UnpackImage
  BY Zenon, <1>1, <1>2, <1>8, <1>13
<1>14. CASE DeleteOtherImages
  BY <1>1, <1>5, <1>9, <1>14
<1> QED
  BY Zenon, <1>3, <1>4, <1>6, <1>11, <1>12, <1>13, <1>14 DEF Next, Unpack

\* Unpack, and a crash in it, touch the directory of the target only, until the
\* others are removed.
LEMMA OneDirTouched ==
    ASSUME TypeOK, [Next]_vars, pc # "idle"
    PROVE  \/ UNCHANGED dirs
           \/ \E e \in Digests, x \in Dir \cup {None} :
                 /\ dirs' = [dirs EXCEPT ![e] = x]
                 /\ e = target <=> pc # "deleteOtherImages"
<1>1. target \in Digests
  BY Zenon DEF TypeOK
<1>2. ASSUME NEW d \in Present, NEW x \in Remains(dirs[d])
      PROVE  x \in Dir
  BY ZenonT(60), <1>2, RemainsOfDir DEF Present, TypeOK
<1>3. CASE UnpackImage
  BY <1>1, <1>3, NewDir DEF UnpackImage, Fail
<1>4. CASE ApplyLayer
  BY Zenon, <1>1, <1>4, LayerAdded DEF ApplyLayer
<1>5. CASE SetReadOnlyRecursive
  BY Zenon, <1>1, <1>5, MadeReadOnly DEF SetReadOnlyRecursive
<1>6. CASE Discard
  BY Zenon, <1>1, <1>2, <1>6 DEF Discard, Present, TypeOK
<1>7. CASE DeleteOtherImages
  BY Zenon, <1>2, <1>7 DEF DeleteOtherImages, Present
<1>8. CASE Crash
  BY ZenonT(60), <1>2, <1>8 DEF Crash, Unfinished, Present
<1>9. CASE Resolve \/ Copy \/ Cleanup \/ Push \/ UNCHANGED vars
  BY <1>9 DEF Resolve, Copy, Cleanup, Push, vars
<1> QED
  BY Zenon, <1>3, <1>4, <1>5, <1>6, <1>7, <1>8, <1>9 DEF Next, Unpack

\* A catalog that has a complete image has one throughout an Unpack of another,
\* also one that fails or is cut by a crash: deleteOtherImages, which removes the
\* old one, runs last.
THEOREM OldKeptUntilNewAlways == Spec => OldKeptUntilNew
<1>1. ASSUME SafeInv, [Next]_vars, NEW d \in Digests,
             Complete(dirs[d]), ~Complete(dirs'[d]), pc # "idle"
      PROVE  \E n \in Digests \ {d} : Complete(dirs'[n])
  <2>1. PICK e \in Digests, x \in Dir \cup {None} :
           /\ dirs' = [dirs EXCEPT ![e] = x]
           /\ e = target <=> pc # "deleteOtherImages"
    BY Zenon, <1>1, OneDirTouched DEF SafeInv, KeepInv
  <2>2. /\ target \in Digests /\ d = e
        /\ \A n \in Digests \ {e} : dirs'[n] = dirs[n]
    BY Zenon, <1>1, <2>1 DEF SafeInv, KeepInv, TypeOK
  <2>3. ~Complete(dirs[target]) \/ pc = "deleteOtherImages"
    BY Zenon, <1>1 DEF SafeInv, KeepInv, TypeOK, FillInv, CompleteInv, Complete
  <2>4. pc = "deleteOtherImages" /\ d # target
    BY ZenonT(60), <1>1, <2>1, <2>2, <2>3
  <2>5. Complete(dirs[target])
    BY ZenonT(60), <1>1, <2>4 DEF SafeInv, FillInv
  <2> QED
    BY <2>2, <2>4, <2>5 DEF Complete
<1>2. ASSUME SafeInv, [Next]_vars
      PROVE  [\A d \in Digests :
                Complete(dirs[d]) /\ ~Complete(dirs'[d]) /\ pc # "idle"
                    => \E n \in Digests \ {d} : Complete(dirs'[n])]_vars
  BY <1>1, <1>2
<1>3. ASSUME Init
      PROVE  FillInv
  BY <1>3 DEF Init, FillInv
<1>4. Spec => []SafeInv
  <2>1. Init => FillInv
    BY <1>3
  <2>2. KeepInv /\ FillInv /\ [Next]_vars => FillInv'
    BY FillNext DEF SafeInv
  <2>3. KeepInv /\ FillInv => SafeInv
    BY DEF SafeInv
  <2> QED
    BY <2>1, <2>2, <2>3, KeepAlways, PTL DEF Spec
<1> QED
  BY <1>2, <1>4, PTL DEF Spec, OldKeptUntilNew

-------------------------------------------------------------------------------
(* The auth file of the pulls (PullSecret).                                  *)
(*                                                                           *)
(* The invariant: unless a request is queued, the reconciler works on what   *)
(* the cache holds or has already brought the file to it; and nobody is left *)
(* to write the file once main has removed it.                               *)

Matches(f, s) == (s \in Versions => f = s) /\ (s = Absent => f = Nothing)

SyncInv ==
    process = "running" /\ ~queued =>
        /\ syncStep = "idle" => Matches(file, cache)
        /\ syncStep \in {"open", "write"} => data = cache
        /\ syncStep = "remove" => cache = Absent

StopInv == process \in {"removed", "exit0"} => syncStep = "idle" /\ file = Nothing

SecretInv == SecretTypeOK /\ SyncInv /\ StopInv

\* Every step preserves the type invariant.
LEMMA SecretTypeNext ==
    ASSUME SecretTypeOK, [SecretNext]_secretVars
    PROVE  SecretTypeOK'
<1> USE PullSecretAssumption DEF SecretTypeOK
<1>0. ASSUME NEW f, SyncFault(f)
      PROVE  syncFaults' \in 0 .. MaxSyncFaults
  BY <1>0 DEF SyncFault
<1>1. CASE EditSecret \/ Rotate
  <2>1. edits' \in 0 .. MaxEdits
    BY <1>1 DEF EditSecret, Rotate, Edit
  <2> QED
    BY <1>1, <2>1 DEF EditSecret, Rotate, syncVars, pullVars
<1>2. CASE Deliver
  BY ZenonT(60), <1>2 DEF Deliver, Enqueue, pullVars
<1>3. CASE Get
  BY ZenonT(60), <1>0, <1>3 DEF Get, pullVars
<1>4. CASE OpenFile
  BY ZenonT(60), <1>0, <1>4 DEF OpenFile, Retry, Enqueue, pullVars
<1>5. CASE WriteFile
  BY ZenonT(60), <1>0, <1>5 DEF WriteFile, Done, Retry, Enqueue, pullVars
<1>6. CASE deleteSecretFile
  BY ZenonT(60), <1>0, <1>6
     DEF deleteSecretFile, Done, Retry, Enqueue, pullVars
<1>7. CASE SourceContext
  BY ZenonT(60), <1>0, <1>7 DEF SourceContext, syncVars
<1>8. CASE PullFails \/ ResolveCanonicalRef \/ CopyImage
  BY ZenonT(60), <1>8
     DEF PullFails, ResolveCanonicalRef, CopyImage, syncVars
<1>9. CASE Stop \/ Exit
  BY <1>9 DEF Stop, Exit, syncVars, pullVars
<1>10. CASE StartFails
  BY <1>0, <1>10 DEF StartFails, syncVars, pullVars
<1>11. CASE RemoveAuthFile
  BY Zenon, <1>0, <1>11 DEF RemoveAuthFile, syncVars, pullVars
<1>12. CASE UNCHANGED secretVars
  BY SMTT(30), <1>12 DEF secretVars, syncVars, pullVars
<1> QED
  BY ZenonT(60), <1>1, <1>2, <1>3, <1>4, <1>5, <1>6, <1>7, <1>8, <1>9, <1>10, <1>11, <1>12
     DEF SecretNext, Reconciler, Pull

\* Every step of the two controllers, of main and of the cluster preserves the
\* other two.
LEMMA SecretStep ==
    ASSUME SecretInv, [SecretNext]_secretVars
    PROVE  SyncInv' /\ StopInv'
<1> USE PullSecretAssumption DEF SecretInv, SyncInv, StopInv, Matches, Working, Enqueue
<1>0. ASSUME Retry, UNCHANGED <<cache, process, file>>
      PROVE  SyncInv' /\ StopInv'
  BY <1>0 DEF Retry
<1>1. CASE EditSecret \/ Rotate
  BY ZenonT(60), <1>1 DEF EditSecret, Rotate, syncVars, pullVars
<1>2. CASE Deliver
  BY <1>2 DEF Deliver, SecretTypeOK
<1>3. CASE Get
  BY ZenonT(60), <1>3 DEF Get, SecretTypeOK
<1>4. CASE OpenFile
  <2>0. syncStep = "open" /\ UNCHANGED <<cache, process>>
    BY Zenon, <1>4 DEF OpenFile
  <2>1. CASE file' = Torn /\ syncStep' = "write" /\ UNCHANGED <<queued, data>>
    BY <2>0, <2>1
  <2>2. CASE Retry /\ UNCHANGED file
    BY Zenon, <1>0, <2>0, <2>2
  <2> QED
    BY Zenon, <1>4, <2>1, <2>2 DEF OpenFile
<1>5. CASE WriteFile
  <2>0. syncStep = "write" /\ UNCHANGED <<cache, process>>
    BY Zenon, <1>5 DEF WriteFile
  <2>1. CASE file' = data /\ Done
    BY <2>0, <2>1 DEF Done, SecretTypeOK
  <2>2. CASE Retry /\ UNCHANGED file
    BY Zenon, <1>0, <2>0, <2>2
  <2> QED
    BY Zenon, <1>5, <2>1, <2>2 DEF WriteFile
<1>6. CASE deleteSecretFile
  <2>0. syncStep = "remove" /\ UNCHANGED <<cache, process>>
    BY Zenon, <1>6 DEF deleteSecretFile
  <2>1. CASE file' = Nothing /\ Done
    BY <2>0, <2>1 DEF Done
  <2>2. CASE Retry /\ UNCHANGED file
    BY Zenon, <1>0, <2>0, <2>2
  <2> QED
    BY Zenon, <1>6, <2>1, <2>2 DEF deleteSecretFile
<1>7. CASE Pull
  BY Zenon, <1>7
     DEF Pull, SourceContext, PullFails, ResolveCanonicalRef, CopyImage, syncVars
<1>8. CASE Stop \/ Exit \/ StartFails
  BY Zenon, <1>8 DEF Stop, Exit, StartFails, syncVars, pullVars
<1>9. CASE RemoveAuthFile
  BY Zenon, <1>9 DEF RemoveAuthFile, syncVars
<1>10. CASE UNCHANGED secretVars
  BY <1>10 DEF secretVars, syncVars
<1> QED
  BY ZenonT(60), <1>1, <1>2, <1>3, <1>4, <1>5, <1>6, <1>7, <1>8, <1>9, <1>10
     DEF SecretNext, Reconciler

\* The invariant holds in every state.
LEMMA SecretInvariant == SecretSpec => []SecretInv
<1>1. ASSUME SecretInit
      PROVE  SecretInv
  <2>0. 0 \in 0 .. MaxEdits /\ 0 \in 0 .. MaxSyncFaults
    BY PullSecretAssumption
  <2>1. SecretTypeOK
    BY Zenon, <1>1, <2>0 DEF SecretInit, Started, SecretTypeOK
  <2> QED
    BY Zenon, <1>1, <2>1, PullSecretAssumption
       DEF SecretInit, Started, SecretInv, SyncInv, StopInv, Matches, Secrets
<1>2. ASSUME SecretInv, [SecretNext]_secretVars
      PROVE  SecretInv'
  BY <1>2, SecretTypeNext, SecretStep DEF SecretInv
<1> QED
  BY <1>1, <1>2, PTL DEF SecretSpec

\* The state of the two controllers and of main keeps its type.
THEOREM PullSecretTypeCorrect == SecretSpec => []SecretTypeOK
<1>1. SecretInv => SecretTypeOK
  BY DEF SecretInv
<1> QED
  BY <1>1, SecretInvariant, PTL

\* When the reconciler is at rest the auth file is the secret, whatever writes
\* failed before.
THEOREM FileFollowsSecretAlways == SecretSpec => []FileFollowsSecret
<1>1. SecretInv => FileFollowsSecret
  BY ZenonT(60) DEF SecretInv, SyncInv, Matches, FileFollowsSecret, AtRest
<1> QED
  BY <1>1, SecretInvariant, PTL

\* A process that exits with 0 has removed the auth file, and nobody wrote it again.
THEOREM NoCredentialsLeftAlways == SecretSpec => []NoCredentialsLeft
<1>1. SecretInv => NoCredentialsLeft
  BY DEF SecretInv, StopInv, NoCredentialsLeft
<1> QED
  BY <1>1, SecretInvariant, PTL
===============================================================================

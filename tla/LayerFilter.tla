------------------------------ MODULE LayerFilter ------------------------------
(***************************************************************************)
(* applyLayerFilter (containers_image.go): which entries of a layer are    *)
(* extracted, given the directory that the image's label names.            *)
(*                                                                         *)
(* A path is the sequence of its elements, split at every slash: "/a" is   *)
(* <<Empty, a>>, "a//b/" is <<a, Empty, b, Empty>> and "" is <<Empty>>.  A *)
(* cleaned path is [rooted, elems]; "." has no elements.                   *)
(***************************************************************************)
EXTENDS Naturals, Sequences

CONSTANTS Files,       \* names of files and directories
          Dotted,      \* those that begin with two dots, as "..data" does
          Up,          \* ".."
          Dot,         \* "."
          Empty,       \* nothing between two slashes
          MaxSrc, MaxName  \* bounds: elements of the label and of an entry's name

ASSUME LayerFilterAssumption ==
    /\ Dotted \subseteq Files /\ {Up, Dot, Empty} \cap Files = {}
    /\ Up # Dot /\ Up # Empty /\ Dot # Empty
    /\ MaxSrc \in Nat /\ MaxName \in Nat

VARIABLES srcPath,  \* the value of the label
          name,     \* the name of an entry, h.Name
          verdict   \* what the filter says of it

filterVars == <<srcPath, name, verdict>>

Paths(n) == UNION {[1 .. k -> Files \cup {Up, Dot, Empty}] : k \in 1 .. n}

-------------------------------------------------------------------------------

\* strings.TrimPrefix(p, "/")
TrimPrefix(p) == IF Len(p) > 1 /\ Head(p) = Empty THEN Tail(p) ELSE p

DropLast(s) == SubSeq(s, 1, Len(s) - 1)

\* path.Clean: what it does with the next element, and its output after each.
CleanStep(rooted, out, e) ==
    CASE e \in {Dot, Empty} -> out
      [] e = Up /\ out # <<>> /\ out[Len(out)] # Up -> DropLast(out)
      [] e = Up /\ rooted /\ out = <<>> -> out
      [] OTHER -> Append(out, e)

CleanSteps(rooted, p) ==
    LET out[i \in 0 .. Len(p)] ==
            IF i = 0 THEN <<>> ELSE CleanStep(rooted, out[i - 1], p[i])
    IN  out

Clean(p) ==
    LET rooted == Len(p) > 1 /\ Head(p) = Empty
    IN  [rooted |-> rooted, elems |-> CleanSteps(rooted, p)[Len(p)]]

\* filepath.Rel of cleaned paths: the elements base and targ share are dropped,
\* and the path goes up from what is left of base.  It does not exist when that
\* starts with "..", or when only one of the two is rooted.
Rel(base, targ) ==
    LET b == base.elems
        t == targ.elems
        n == CHOOSE k \in 0 .. Len(b) :
                /\ k <= Len(t) /\ \A i \in 1 .. k : b[i] = t[i]
                /\ k < Len(b) /\ k < Len(t) => b[k + 1] # t[k + 1]
    IN  [ok |-> base.rooted = targ.rooted /\ (n < Len(b) => b[n + 1] # Up),
         elems |-> [i \in 1 .. Len(b) - n |-> Up] \o SubSeq(t, n + 1, Len(t))]

\* Faulty variant: every relative path that begins with two dots is skipped.
applyLayerFilterDots(src, n) ==
    LET rel == Rel(Clean(TrimPrefix(src)), Clean(TrimPrefix(n)))
    IN  CASE ~rel.ok -> "error"
          [] rel.ok /\ rel.elems # <<>> /\ Head(rel.elems) \in Dotted \cup {Up} -> "skip"
          [] OTHER -> "keep"

applyLayerFilter(src, n) ==
    LET rel == Rel(Clean(TrimPrefix(src)), Clean(TrimPrefix(n)))
    IN  CASE ~rel.ok -> "error"
          [] rel.ok /\ rel.elems # <<>> /\ Head(rel.elems) = Up -> "skip"
          [] OTHER -> "keep"

-------------------------------------------------------------------------------

FilterInit == srcPath \in Paths(MaxSrc) /\ name \in Paths(MaxName) /\ verdict = "none"

\* archive.Apply calls the filter.
Apply ==
    /\ verdict = "none" /\ verdict' = applyLayerFilter(srcPath, name)
    /\ UNCHANGED <<srcPath, name>>

FilterNext == Apply

FilterSpec == FilterInit /\ [][FilterNext]_filterVars

-------------------------------------------------------------------------------
(* Properties.                                                               *)

\* Where a path leads that is followed from the root of the image, directory by
\* directory, and whether it leaves the root on its way to there.
FollowStep(at, e) ==
    CASE e \in {Dot, Empty} -> at
      [] e = Up /\ at.dir # <<>> -> [at EXCEPT !.dir = DropLast(@)]
      [] e = Up /\ at.dir = <<>> -> [at EXCEPT !.left = TRUE]
      [] OTHER -> [at EXCEPT !.dir = Append(@, e)]

FollowSteps(p) ==
    LET at[i \in 0 .. Len(p)] ==
            IF i = 0 THEN [dir |-> <<>>, left |-> FALSE] ELSE FollowStep(at[i - 1], p[i])
    IN  at

Follow(p) == FollowSteps(p)[Len(p)]

\* d is the directory dir or below it.
Within(dir, d) == Len(dir) <= Len(d) /\ \A i \in 1 .. Len(dir) : dir[i] = d[i]

TwoSlashes(p) == Len(p) > 2 /\ p[1] = Empty /\ p[2] = Empty

\* However the label and the name are spelled, what is extracted is the directory
\* that the label names and everything below it, "..data" included; nothing of an
\* entry that leaves the root is.  Labels that leave the root, and paths of which
\* one alone begins with two slashes, are apart: the filter reports errors there.
KeepsSubtree ==
    LET dir == Follow(srcPath)
        entry == Follow(name)
    IN  /\ verdict # "none" /\ ~dir.left
        /\ ~TwoSlashes(srcPath) /\ ~TwoSlashes(name)
        => verdict = IF ~entry.left /\ Within(dir.dir, entry.dir) THEN "keep" ELSE "skip"
===============================================================================

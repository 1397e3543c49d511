---------------------------- MODULE MCController ----------------------------
(* Small instances of ClusterCatalogController for TLC. *)
EXTENDS ClusterCatalogController, TLC

CONSTANTS d1, d2

MCResults == [ref : Refs, digest : Digests]

\* Two images, one of them polled, and a disabled catalog.
MCSpecs ==
    { [availabilityMode |-> "Available", ref |-> "tag", poll |-> TRUE],
      [availabilityMode |-> "Available", ref |-> "sha", poll |-> FALSE],
      [availabilityMode |-> "Unavailable", ref |-> "tag", poll |-> TRUE] }

\* The model compares digests only with one another.
DigestSymmetry == Permutations(Digests)
==============================================================================

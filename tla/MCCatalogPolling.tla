--------------------------- MODULE MCCatalogPolling ---------------------------
(***************************************************************************)
(* CatalogPolling with two images and intervals of two and three seconds.  *)
(***************************************************************************)
EXTENDS CatalogPolling, TLC

CONSTANTS d1, d2

MCIntervals == {2 * Second, 3 * Second}

\* The two images are interchangeable.
Images == Permutations(Digests)
===============================================================================

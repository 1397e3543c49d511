-------------------------- MODULE MCGarbageCollector --------------------------
(***************************************************************************)
(* GarbageCollector for catalogs 1 and 2 with images of two layers.        *)
(***************************************************************************)
EXTENDS GarbageCollector

MCNames == 1 .. 2
===============================================================================

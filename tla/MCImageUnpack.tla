---------------------------- MODULE MCImageUnpack ----------------------------
(***************************************************************************)
(* ImageUnpack with three images, one of them without the label.           *)
(***************************************************************************)
EXTENDS ImageUnpack

CONSTANTS d1, d2, d3

MCDigests == {d1, d2, d3}
MCLabelled == {d1, d2}
==============================================================================

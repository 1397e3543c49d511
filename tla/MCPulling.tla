------------------------------- MODULE MCPulling -------------------------------
(***************************************************************************)
(* The three parts of a pull: ImageUnpack with three images, one of them   *)
(* without the label, PullSecret with two versions of the credentials, and *)
(* LayerFilter with two names, one of them beginning with two dots.  They  *)
(* share no variable, so a behavior runs one of them: the others stand     *)
(* still, in a process that has ended.                                     *)
(***************************************************************************)
EXTENDS ImageUnpack, PullSecret, LayerFilter

CONSTANTS d1, d2, d3, v1, v2, a, dotted

MCDigests == {d1, d2, d3}
MCLabelled == {d1, d2}

VARIABLE part   \* the part that runs

pullingVars == <<vars, secretVars, filterVars, part>>

UnpackStands == tag = d1 /\ Init
SecretStands == secret = Absent /\ valid = v1 /\ process = "exit1" /\ Started
FilterStands == srcPath = <<Dot>> /\ name = <<Dot>> /\ FilterInit

PullingInit ==
    \/ part = "unpack" /\ Init /\ SecretStands /\ FilterStands
    \/ part = "secret" /\ UnpackStands /\ SecretInit /\ FilterStands
    \/ part = "filter" /\ UnpackStands /\ SecretStands /\ FilterInit

\* The process exits, and a filter is asked once.
Ended == \/ part = "secret" /\ process \in {"exit0", "exit1"} /\ UNCHANGED pullingVars
         \/ part = "filter" /\ verdict # "none" /\ UNCHANGED pullingVars

PullingNext ==
    \/ part = "unpack" /\ Next /\ UNCHANGED <<secretVars, filterVars, part>>
    \/ part = "secret" /\ SecretNext /\ UNCHANGED <<vars, filterVars, part>>
    \/ part = "filter" /\ FilterNext /\ UNCHANGED <<vars, secretVars, part>>
    \/ Ended

PullingSpec == PullingInit /\ [][PullingNext]_pullingVars /\ SecretFairness
================================================================================

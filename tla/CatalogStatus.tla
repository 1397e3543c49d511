---------------------------- MODULE CatalogStatus ----------------------------
(***************************************************************************)
(* The status of a ClusterCatalog, and the functions of                    *)
(* clustercatalog_controller.go that rewrite it.                           *)
(*                                                                         *)
(* A condition is its reason and its observedGeneration; reason "Absent"   *)
(* is a condition that is not in the list.  The condition's status (True,  *)
(* False) is a function of the reason, and its message matters only where  *)
(* two conditions share a reason: "Disabled" is Progressing=Succeeded with *)
(* the message "Catalog availability mode is set to Unavailable".          *)
(*                                                                         *)
(* resolvedSource, urls and lastUnpacked are set together and cleared      *)
(* together, so they are one field, resolved: the unpack result they were  *)
(* taken from, or None.                                                    *)
(***************************************************************************)
EXTENDS Naturals

CONSTANTS Results,  \* what an unpack can resolve to
          None      \* no result

ProgressingReasons == {"Absent", "Succeeded", "Disabled", "Retrying", "Blocked"}

ServingReasons == {"Absent", "Available", "Unavailable", "UserSpecifiedUnavailable"}

Status == [progressing : ProgressingReasons, progressingGen : Nat,
           serving     : ServingReasons,     servingGen     : Nat,
           resolved    : Results \cup {None}]

EmptyStatus == [progressing |-> "Absent", progressingGen |-> 0,
                serving     |-> "Absent", servingGen     |-> 0,
                resolved    |-> None]

\* The errors a reconcile can end with, as far as the controller tells them
\* apart: reconcile.TerminalError, or any other.
Errors == {"none", "retryable", "terminal"}

\* errors.Join: the joined error is a TerminalError when either part is one.
Join(e, f) == IF "terminal" \in {e, f} THEN "terminal"
              ELSE IF "retryable" \in {e, f} THEN "retryable" ELSE "none"

\* Faulty variant: the error is ignored.
updateStatusProgressingBlindly(status, generation, err) ==
    [status EXCEPT !.progressing = "Succeeded", !.progressingGen = generation]

updateStatusProgressing(status, generation, err) ==
    [status EXCEPT !.progressing = CASE err = "none"      -> "Succeeded"
                                     [] err = "retryable" -> "Retrying"
                                     [] err = "terminal"  -> "Blocked",
                   !.progressingGen = generation]

updateStatusServing(status, result, generation) ==
    [status EXCEPT !.resolved = result,
                   !.serving = "Available", !.servingGen = generation]

updateStatusNotServing(status, generation) ==
    [status EXCEPT !.resolved = None,
                   !.serving = "Unavailable", !.servingGen = generation]

updateStatusProgressingUserSpecifiedUnavailable(status, generation) ==
    [status EXCEPT !.progressing = "Disabled", !.progressingGen = generation,
                   !.serving = "UserSpecifiedUnavailable", !.servingGen = generation]
==============================================================================

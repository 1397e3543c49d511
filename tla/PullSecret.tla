------------------------------ MODULE PullSecret ------------------------------
(***************************************************************************)
(* The global pull secret: PullSecretReconciler copies it to the auth file *)
(* (pull_secret_controller.go), image pulls read the file meanwhile, and   *)
(* main removes it when the manager stops (main.go).                       *)
(*                                                                         *)
(* A secret is the version of its .dockerconfigjson, NoKey when it has     *)
(* none.  WriteFile truncates the file and then writes it; between the two *)
(* steps, and after a write that failed, the file is Torn: it exists and   *)
(* does not parse.  The secret's controller and the catalogs' controller   *)
(* run concurrently, each handling one request at a time.  When their      *)
(* context is cancelled the work queues take no more requests, those for   *)
(* retries included, and the ones in them are still worked off.            *)
(***************************************************************************)
EXTENDS Naturals

CONSTANTS Versions,      \* values of .dockerconfigjson
          Absent, NoKey, \* no secret; a secret without .dockerconfigjson
          Nothing, Torn, \* no file; a file that is empty or cut short
          SyncFaults,    \* the kinds of failure that can happen
          MaxEdits,      \* bound: edits of the secret and rotations
          MaxSyncFaults  \* bound: failures

Secrets == Versions \cup {Absent, NoKey}

ASSUME PullSecretAssumption ==
    /\ {Absent, NoKey, Nothing, Torn} \cap Versions = {}
    /\ Absent # NoKey /\ Nothing # Torn
    /\ SyncFaults \subseteq {"get", "disk", "manager"}
    /\ MaxEdits \in Nat /\ MaxSyncFaults \in Nat

VARIABLES
    secret,   \* the secret in the API server
    cache,    \* the informer's copy of it
    queued,   \* a request for it is in the work queue
    syncStep, \* the next step of PullSecretReconciler
    data,     \* dockerConfigJSON
    file,     \* the file at AuthFilePath
    valid,    \* the credentials the registry accepts
    pull,     \* the next step of an image pull
    useFile,  \* srcContext.AuthFilePath is set
    outcome,  \* how the last pull went
    process,  \* where main is
    edits, syncFaults  \* counters for the bounds

syncVars == <<cache, queued, syncStep, data>>
pullVars == <<pull, useFile, outcome>>
secretVars == <<secret, syncVars, file, valid, pullVars, process, edits, syncFaults>>

SecretTypeOK ==
    /\ secret \in Secrets /\ cache \in Secrets /\ queued \in BOOLEAN
    /\ syncStep \in {"idle", "open", "write", "remove"}
    /\ data \in Versions \cup {Nothing} /\ (syncStep \in {"open", "write"} => data # Nothing)
    /\ file \in Versions \cup {Nothing, Torn}
    /\ valid \in Versions
    /\ pull \in {"idle", "resolve", "copy"} /\ useFile \in BOOLEAN
    /\ outcome \in {"none", "ok", "retryable"}
    /\ process \in {"running", "stopping", "removed", "exit0", "exit1"}
    /\ edits \in 0 .. MaxEdits /\ syncFaults \in 0 .. MaxSyncFaults

Started ==
    /\ secret \in Secrets /\ cache = secret /\ queued = (secret # Absent)
    /\ syncStep = "idle" /\ data = Nothing /\ file = Nothing
    /\ valid \in Versions
    /\ pull = "idle" /\ useFile = FALSE /\ outcome = "none"
    /\ edits = 0 /\ syncFaults = 0

SecretInit == Started /\ process = "running"

SyncFault(f) == f \in SyncFaults /\ syncFaults < MaxSyncFaults /\ syncFaults' = syncFaults + 1

\* The work queues hand out requests.
Working == process \in {"running", "stopping"}
Enqueue == queued' = IF process = "running" THEN TRUE ELSE queued

Alive == process \in {"running", "stopping", "removed"}

-------------------------------------------------------------------------------
(* The cluster and the registry.                                             *)

Edit == edits < MaxEdits /\ edits' = edits + 1

EditSecret ==
    /\ Edit /\ secret' \in Secrets \ {secret}
    /\ UNCHANGED <<syncVars, file, valid, pullVars, process, syncFaults>>

Rotate ==
    /\ Edit /\ valid' \in Versions \ {valid}
    /\ UNCHANGED <<secret, syncVars, file, pullVars, process, syncFaults>>

-------------------------------------------------------------------------------
(* PullSecretReconciler.                                                     *)

\* Faulty variant: the predicate drops the events of deletion.
DeliverPresent ==
    /\ Working /\ cache # secret
    /\ cache' = secret /\ IF secret = Absent THEN UNCHANGED queued ELSE Enqueue
    /\ UNCHANGED <<secret, syncStep, data, file, valid, pullVars, process, edits, syncFaults>>

\* The informer reports the secret; the predicate lets it pass.
Deliver ==
    /\ Working /\ cache # secret
    /\ cache' = secret /\ Enqueue
    /\ UNCHANGED <<secret, syncStep, data, file, valid, pullVars, process, edits, syncFaults>>

\* Faulty variant: a secret without the key is written, as nothing.
GetUnchecked ==
    /\ Working /\ syncStep = "idle" /\ queued /\ queued' = FALSE
    /\ \/ cache = Absent /\ syncStep' = "remove" /\ UNCHANGED data
       \/ cache = NoKey /\ syncStep' = "open" /\ data' = Nothing
       \/ cache \in Versions /\ syncStep' = "open" /\ data' = cache
    /\ UNCHANGED <<secret, cache, file, valid, pullVars, process, edits, syncFaults>>

\* Reconcile up to the file.  A secret without the key is reported and left; when
\* the read fails the request is queued again.
Get ==
    /\ Working /\ syncStep = "idle" /\ queued
    /\ \/ /\ queued' = FALSE
          /\ \/ cache = Absent /\ syncStep' = "remove" /\ UNCHANGED data
             \/ cache = NoKey /\ UNCHANGED <<syncStep, data>>
             \/ cache \in Versions /\ syncStep' = "open" /\ data' = cache
          /\ UNCHANGED syncFaults
       \/ SyncFault("get") /\ queued' = (process = "running") /\ UNCHANGED <<syncStep, data>>
    /\ UNCHANGED <<secret, cache, file, valid, pullVars, process, edits>>

\* Reconcile returns, with or without an error.
Done == syncStep' = "idle" /\ data' = Nothing /\ UNCHANGED queued
Retry == syncStep' = "idle" /\ data' = Nothing /\ Enqueue

\* writeSecretToFile: WriteFile opens the file, which empties it,
OpenFile ==
    /\ Alive /\ syncStep = "open"
    /\ \/ file' = Torn /\ syncStep' = "write" /\ UNCHANGED <<queued, data, syncFaults>>
       \/ SyncFault("disk") /\ Retry /\ UNCHANGED file
    /\ UNCHANGED <<secret, cache, valid, pullVars, process, edits>>

\* Faulty variant: the error of WriteFile is not returned.
WriteFileLogged ==
    /\ Alive /\ syncStep = "write"
    /\ \/ file' = data /\ Done /\ UNCHANGED syncFaults
       \/ SyncFault("disk") /\ Done /\ UNCHANGED file
    /\ UNCHANGED <<secret, cache, valid, pullVars, process, edits>>

\* and writes it.
WriteFile ==
    /\ Alive /\ syncStep = "write"
    /\ \/ file' = data /\ Done /\ UNCHANGED syncFaults
       \/ SyncFault("disk") /\ Retry /\ UNCHANGED file
    /\ UNCHANGED <<secret, cache, valid, pullVars, process, edits>>

\* It is fine when there is no file.
deleteSecretFile ==
    /\ Alive /\ syncStep = "remove"
    /\ \/ file' = Nothing /\ Done /\ UNCHANGED syncFaults
       \/ SyncFault("disk") /\ Retry /\ UNCHANGED file
    /\ UNCHANGED <<secret, cache, valid, pullVars, process, edits>>

Reconciler == Get \/ OpenFile \/ WriteFile \/ deleteSecretFile

-------------------------------------------------------------------------------
(* Image pulls.                                                              *)

\* SourceContextFunc looks whether there is a file.  A catalog is due at any time.
SourceContext ==
    /\ Working /\ pull = "idle"
    /\ \/ /\ useFile' = (file # Nothing) /\ pull' = "resolve" /\ outcome' = "none"
          /\ UNCHANGED syncFaults
       \/ SyncFault("disk") /\ outcome' = "retryable" /\ UNCHANGED <<pull, useFile>>
    /\ UNCHANGED <<secret, syncVars, file, valid, process, edits>>

\* Each access to the registry reads the file again.  A missing file is no
\* credentials, one that does not parse is an error, and so is a context that was
\* cancelled.
Authorized == useFile /\ file = valid

PullFails ==
    /\ Alive /\ pull \in {"resolve", "copy"}
    /\ ~Authorized \/ process # "running"
    /\ pull' = "idle" /\ outcome' = "retryable" /\ useFile' = FALSE
    /\ UNCHANGED <<secret, syncVars, file, valid, process, edits, syncFaults>>

ResolveCanonicalRef ==
    /\ Alive /\ pull = "resolve" /\ Authorized /\ pull' = "copy"
    /\ UNCHANGED <<secret, syncVars, file, valid, useFile, outcome, process, edits, syncFaults>>

CopyImage ==
    /\ Alive /\ pull = "copy" /\ Authorized
    /\ pull' = "idle" /\ outcome' = "ok" /\ useFile' = FALSE
    /\ UNCHANGED <<secret, syncVars, file, valid, process, edits, syncFaults>>

Pull == SourceContext \/ PullFails \/ ResolveCanonicalRef \/ CopyImage

-------------------------------------------------------------------------------
(* main.                                                                     *)

\* The manager cancels the context of the controllers.  A request that waits for
\* its retry is lost.
Stop ==
    /\ process = "running" /\ process' = "stopping" /\ queued' \in {queued, FALSE}
    /\ UNCHANGED <<secret, cache, syncStep, data, file, valid, pullVars, edits, syncFaults>>

\* mgr.Start fails: a lost lease, a server that fails, or controllers that have
\* not returned when the grace period ends.
StartFails ==
    /\ Working /\ SyncFault("manager") /\ process' = "exit1"
    /\ UNCHANGED <<secret, syncVars, file, valid, pullVars, edits>>

\* Faulty variant: mgr.Start returns without waiting for the controllers.
RemoveAuthFileEarly ==
    /\ process = "stopping"
    /\ file # Nothing /\ file' = Nothing /\ process' = "removed"
    /\ UNCHANGED <<secret, syncVars, valid, pullVars, edits, syncFaults>>

\* mgr.Start returns once the controllers have, which work off their queues, and
\* the file is removed.  It is an error when there is none.
RemoveAuthFile ==
    /\ process = "stopping" /\ ~queued /\ syncStep = "idle" /\ pull = "idle"
    /\ \/ file # Nothing /\ file' = Nothing /\ process' = "removed" /\ UNCHANGED syncFaults
       \/ file = Nothing /\ process' = "exit1" /\ UNCHANGED <<file, syncFaults>>
       \/ SyncFault("disk") /\ process' = "exit1" /\ UNCHANGED file
    /\ UNCHANGED <<secret, syncVars, valid, pullVars, edits>>

Exit ==
    /\ process = "removed" /\ process' = "exit0"
    /\ UNCHANGED <<secret, syncVars, file, valid, pullVars, edits, syncFaults>>

SecretNext ==
    \/ EditSecret \/ Rotate \/ Deliver \/ Reconciler \/ Pull
    \/ Stop \/ StartFails \/ RemoveAuthFile \/ Exit

SecretSpec == SecretInit /\ [][SecretNext]_secretVars

\* The watch delivers, both controllers run and catalogs are polled.
SecretFairness ==
    WF_secretVars(Deliver) /\ WF_secretVars(Reconciler) /\ WF_secretVars(Pull)

-------------------------------------------------------------------------------
(* Properties.                                                               *)

AtRest == process = "running" /\ syncStep = "idle" /\ ~queued /\ cache = secret

\* Whatever writes failed and however the secret changed meanwhile: when the
\* reconciler has nothing left to do the file is the secret, and is gone when the
\* secret is.
FileFollowsSecret ==
    AtRest => /\ secret \in Versions => file = secret
              /\ secret = Absent => file = Nothing

\* Pulls that met a file being written, old credentials or none are retried: when
\* the secret has what the registry accepts, pulls go on to succeed.
PullsSucceed ==
    <>[](process = "running" /\ secret = valid) => []<>(outcome = "ok")

\* A process that ends well has left no credentials behind: what the reconciler
\* was writing when it was stopped, or wrote for a request that was still queued
\* then, is removed too.
NoCredentialsLeft == process = "exit0" => file = Nothing
===============================================================================

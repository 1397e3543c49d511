------------------------------- MODULE MCServing -------------------------------
(***************************************************************************)
(* The two parts of the web server: LocalDir, with a catalog of two metas  *)
(* and one of none, and CatalogServer.  They share no variable, so a       *)
(* behavior runs one of them: the other stands still, nothing being stored *)
(* or the process having ended.                                            *)
(***************************************************************************)
EXTENDS LocalDir, CatalogServer

CONSTANTS two, empty

MCSize == [c \in Catalogs |-> IF c = two THEN 2 ELSE 0]

VARIABLE part   \* the part that runs

servingVars == <<vars, serverVars, part>>

ServingInit ==
    \/ part = "files" /\ Init /\ Serving /\ manager = "nil"
    \/ part = "server" /\ Init /\ ServerInit

ServingNext ==
    \/ part = "files" /\ Next /\ UNCHANGED <<serverVars, part>>
    \/ part = "server" /\ ServerNext /\ UNCHANGED <<vars, part>>
    \* The process is gone.
    \/ part = "server" /\ ~Alive /\ UNCHANGED servingVars

ServingSpec == ServingInit /\ [][ServingNext]_servingVars /\ ServerFairness
================================================================================

------------------------------ MODULE AtomicStore ------------------------------
(***************************************************************************)
(* What storage promises the clients of one catalog: "clients accessing    *)
(* the content ... have atomic view of the content for a catalog"          *)
(* (localdir.go).  The content is replaced and removed as a whole, and a   *)
(* response is the whole content at the moment the request was opened.     *)
(***************************************************************************)
CONSTANTS Wholes,   \* the contents that can be stored
          Readers,  \* requests
          None      \* no content

VARIABLES content,  \* what is served
          reading,  \* requests that are open
          view,     \* what each of them will be answered with
          response  \* the answers

avars == <<content, reading, view, response>>

Init == /\ content = None /\ reading = {}
        /\ view = [r \in Readers |-> None] /\ response = [r \in Readers |-> None]

Put == /\ content' \in Wholes
       /\ UNCHANGED <<reading, view, response>>

Remove == content' = None /\ UNCHANGED <<reading, view, response>>

Open(r) == /\ r \notin reading /\ reading' = reading \cup {r}
           /\ view' = [view EXCEPT ![r] = content]
           /\ UNCHANGED <<content, response>>

Reply(r) == /\ r \in reading /\ reading' = reading \ {r}
            /\ response' = [response EXCEPT ![r] = view[r]]
            /\ view' = [view EXCEPT ![r] = None]
            /\ UNCHANGED content

\* The server dies: its clients get no answer.
Drop == /\ reading' = {} /\ view' = [r \in Readers |-> None]
        /\ UNCHANGED <<content, response>>

Next == Put \/ Remove \/ Drop \/ \E r \in Readers : Open(r) \/ Reply(r)

Spec == Init /\ [][Next]_avars
===============================================================================

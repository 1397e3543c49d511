------------------------------- MODULE LocalDir -------------------------------
(***************************************************************************)
(* LocalDirV1 (localdir.go) for one catalog: Store and Delete, which the   *)
(* reconciler calls one at a time, against HTTP requests that read the     *)
(* file meanwhile.                                                         *)
(*                                                                         *)
(* A file is an inode: names come and go (CreateTemp, Rename, Remove,      *)
(* RemoveAll), a request that has opened a file keeps reading it.  The     *)
(* content of a file is the sequence of FBC blobs written to it.           *)
(***************************************************************************)
EXTENDS Naturals, Sequences

CONSTANTS Catalogs,   \* file-based catalogs that can be stored
          Size,       \* the number of metas in each
          Readers,    \* HTTP requests
          None,       \* no file, no content
          Faults,     \* the kinds of failure that can happen
          MaxFiles,   \* bound: files created
          MaxFaults   \* bound: failures

ASSUME LocalDirAssumption ==
    /\ Size \in [Catalogs -> Nat]
    /\ None \notin Nat /\ None \notin Seq(Catalogs \X Nat) /\ None \notin Catalogs
    /\ Faults \subseteq {"disk", "remove", "crash"}
    /\ MaxFiles \in Nat /\ MaxFaults \in Nat

VARIABLES
    files,    \* the content of each inode created so far
    temps,    \* inodes that have a temporary name in RootDir
    leaked,   \* history: those whose Store was cut, or whose removal failed
    all,      \* the inode at RootDir/<catalog>/api/v1/all
    pc,       \* where Store is
    fsys,     \* the catalog being stored
    tempFile, \* the inode Store writes to
    reader,   \* the requests
    response, \* what each request was last answered with; None is "not found"
    faults    \* counter for the bound

storeVars == <<files, temps, leaked, all, pc, fsys, tempFile>>
vars == <<storeVars, reader, response, faults>>

Blobs == Catalogs \X Nat

\* WalkMetasFS reads the files of a catalog concurrently and yields every meta
\* once, in any order.
Metas(c) == {c} \X (1 .. Size[c])
NoRepeats(s) == \A i, j \in 1 .. Len(s) : s[i] = s[j] => i = j
Orders(c) == {s \in [1 .. Size[c] -> Metas(c)] : NoRepeats(s)}
Wholes == UNION {Orders(c) : c \in Catalogs}

Closed == [open |-> FALSE, file |-> None, size |-> 0, data |-> <<>>]

Reader == [open : BOOLEAN, file : Nat \cup {None}, size : Nat, data : Seq(Blobs)]

TypeOK ==
    /\ files \in Seq(Seq(Blobs))
    /\ temps \subseteq 1 .. Len(files) /\ leaked \subseteq 1 .. Len(files)
    /\ all \in (1 .. Len(files)) \cup {None}
    /\ pc \in {"idle", "write"}
    /\ fsys \in Catalogs \cup {None} /\ tempFile \in (1 .. Len(files)) \cup {None}
    /\ pc = "write" => fsys \in Catalogs /\ tempFile \in temps
    /\ reader \in [Readers -> Reader]
    /\ response \in [Readers -> Seq(Blobs) \cup {None}]
    /\ faults \in Nat

Init ==
    /\ files = <<>> /\ temps = {} /\ leaked = {} /\ all = None
    /\ pc = "idle" /\ fsys = None /\ tempFile = None
    /\ reader = [r \in Readers |-> Closed] /\ response = [r \in Readers |-> None]
    /\ faults = 0

Fault(f) == f \in Faults /\ faults < MaxFaults /\ faults' = faults + 1

-------------------------------------------------------------------------------
(* Store and Delete.                                                         *)

\* Faulty variant: Store opens and truncates the file that is served.
BeginInPlace ==
    /\ pc = "idle" /\ Len(files) < MaxFiles
    /\ fsys' \in Catalogs /\ pc' = "write"
    /\ tempFile' = (IF all # None THEN all ELSE Len(files) + 1)
    /\ files' = (IF all # None THEN [files EXCEPT ![all] = <<>>] ELSE Append(files, <<>>))
    /\ UNCHANGED <<temps, leaked, all, reader, response, faults>>

\* MkdirAll and CreateTemp.  If one of them fails Store has done nothing that a
\* client sees.
BeginStore ==
    /\ pc = "idle" /\ Len(files) < MaxFiles
    /\ \/ /\ fsys' \in Catalogs
          /\ files' = Append(files, <<>>)
          /\ tempFile' = Len(files) + 1 /\ temps' = temps \cup {tempFile'}
          /\ pc' = "write"
          /\ UNCHANGED <<leaked, all, faults>>
       \/ Fault("disk") /\ UNCHANGED storeVars
    /\ UNCHANGED <<reader, response>>

\* Faulty variant: a failed Store leaves its temporary file.
ReturnWithoutRemove ==
    /\ pc' = "idle" /\ fsys' = None /\ tempFile' = None
    /\ UNCHANGED <<temps, leaked>>

\* Store returns: the deferred Remove of the temporary name, whose error is
\* ignored.
Return ==
    /\ pc' = "idle" /\ fsys' = None /\ tempFile' = None
    /\ \/ temps' = temps \ {tempFile} /\ UNCHANGED leaked
       \/ "remove" \in Faults /\ leaked' = leaked \cup {tempFile} /\ UNCHANGED temps

\* One meta is written; reading it from the image or writing it can fail.
WriteMeta ==
    /\ pc = "write" /\ Len(files[tempFile]) < Size[fsys]
    /\ \/ /\ \E b \in Metas(fsys) :
                /\ \A i \in 1 .. Len(files[tempFile]) : files[tempFile][i] # b
                /\ files' = [files EXCEPT ![tempFile] = Append(@, b)]
          /\ UNCHANGED <<temps, leaked, pc, fsys, tempFile, faults>>
       \/ Fault("disk") /\ Return /\ UNCHANGED files
    /\ UNCHANGED <<all, reader, response>>

\* Faulty variant: an error of WalkMetasFS is not looked at.
RenameAnyway ==
    /\ pc = "write"
    /\ all' = tempFile /\ temps' = temps \ {tempFile}
    /\ pc' = "idle" /\ fsys' = None /\ tempFile' = None
    /\ UNCHANGED <<files, leaked, reader, response, faults>>

Rename ==
    /\ pc = "write" /\ Len(files[tempFile]) = Size[fsys]
    /\ \/ /\ all' = tempFile /\ temps' = temps \ {tempFile}
          /\ pc' = "idle" /\ fsys' = None /\ tempFile' = None
          /\ UNCHANGED <<leaked, faults>>
       \/ Fault("disk") /\ Return /\ UNCHANGED all
    /\ UNCHANGED <<files, reader, response>>

\* RemoveAll, which can fail before or after it has removed the file.
Delete ==
    /\ pc = "idle"
    /\ \/ all' = None /\ UNCHANGED faults
       \/ Fault("disk") /\ all' \in {all, None}
    /\ UNCHANGED <<files, temps, leaked, pc, fsys, tempFile, reader, response>>

\* The container dies, with its requests.
Crash ==
    /\ Fault("crash")
    /\ pc' = "idle" /\ fsys' = None /\ tempFile' = None /\ leaked' = temps
    /\ reader' = [r \in Readers |-> Closed]
    /\ UNCHANGED <<files, temps, all, response>>

ContentExists == all # None

-------------------------------------------------------------------------------
(* The file server.                                                          *)

\* filesOnlyFilesystem.Open, and the Stat that gives the size of the response.
Open(r) ==
    /\ ~reader[r].open
    /\ reader' = [reader EXCEPT ![r] =
                    IF all = None THEN [Closed EXCEPT !.open = TRUE]
                    ELSE [open |-> TRUE, file |-> all, size |-> Len(files[all]),
                          data |-> <<>>]]
    /\ UNCHANGED <<storeVars, response, faults>>

\* The next part of the file is copied to the client.
Read(r) ==
    /\ reader[r].open /\ Len(reader[r].data) < reader[r].size
    /\ Len(reader[r].data) < Len(files[reader[r].file])
    /\ reader' = [reader EXCEPT ![r].data =
                    Append(@, files[reader[r].file][Len(@) + 1])]
    /\ UNCHANGED <<storeVars, response, faults>>

Reply(r) ==
    /\ reader[r].open /\ Len(reader[r].data) = reader[r].size
    /\ response' = [response EXCEPT ![r] =
                      IF reader[r].file = None THEN None ELSE reader[r].data]
    /\ reader' = [reader EXCEPT ![r] = Closed]
    /\ UNCHANGED <<storeVars, faults>>

Store == BeginStore \/ WriteMeta \/ Rename

Serve == \E r \in Readers : Open(r) \/ Read(r) \/ Reply(r)

Next == Store \/ Delete \/ Crash \/ Serve

Spec == Init /\ [][Next]_vars

-------------------------------------------------------------------------------
(* Properties.                                                               *)

FileContent(f) == IF f = None THEN None ELSE files[f]

\* What clients see: the content served, the requests under way and the file
\* each of them has opened.
Content == FileContent(all)
Reading == {r \in Readers : reader[r].open}
View == [r \in Readers |-> FileContent(reader[r].file)]

Atomic == INSTANCE AtomicStore WITH content <- Content, reading <- Reading, view <- View

\* The comment on LocalDirV1: clients have an atomic view of the content.  Store
\* and Delete, crashes included, change what is served in one step, and every
\* response is the whole content that was served when its request was opened.
AtomicView == Atomic!Spec

\* What ContentExists finds is a whole catalog.
ServedIsWhole == ContentExists => files[all] \in Wholes

\* Whatever fails in it, Store leaves no temporary file behind, but for those of a
\* container that died or whose removal failed.
TempsRemoved == pc = "idle" => temps = leaked
===============================================================================

---------------------------- MODULE LocalDirProofs ----------------------------
(***************************************************************************)
(* LocalDir implements AtomicStore, for any catalogs, requests and faults. *)
(* At the end, the theorems about CatalogServer, the HTTP server that      *)
(* sends what LocalDir stores.                                             *)
(*                                                                         *)
(* The invariant: a file is written only while it has a temporary name,    *)
(* and a file with a temporary name is neither served nor read.            *)
(***************************************************************************)
EXTENDS LocalDir, CatalogServer, SequenceTheorems, TLAPS

\* A sequence holds metas of a catalog, each at most once.
Part(s, c) == /\ Len(s) <= Size[c] /\ NoRepeats(s)
              /\ \A i \in 1 .. Len(s) : s[i] \in Metas(c)

\* The file Store writes to holds metas of the catalog it stores.
WriteInv == pc = "write" => Part(files[tempFile], fsys)

\* What is served is whole, and is not what Store writes to.
ServedInv == all # None => all \notin temps /\ files[all] \in Wholes

\* A request has copied the beginning of a file nobody writes to any more.
Copies(q) ==
    \/ /\ q.file = None /\ q.size = 0 /\ q.data = <<>>
    \/ /\ q.open
       /\ q.file \in 1 .. Len(files) /\ q.file \notin temps
       /\ q.size = Len(files[q.file]) /\ Len(q.data) <= q.size
       /\ \A i \in 1 .. Len(q.data) : q.data[i] = files[q.file][i]

ReaderInv == \A r \in Readers : Copies(reader[r])

Inv == TypeOK /\ WriteInv /\ ServedInv /\ ReaderInv

\* A sequence that holds as many metas as the catalog has, none twice, is whole.
LEMMA WholeFile ==
    ASSUME NEW s \in Seq(Blobs), NEW c \in Catalogs, Len(s) = Size[c], Part(s, c)
    PROVE  s \in Wholes
<1>1. DOMAIN s = 1 .. Size[c] /\ s = [i \in DOMAIN s |-> s[i]]
  OBVIOUS
<1>2. \A i \in DOMAIN s : s[i] \in Metas(c)
  BY <1>1 DEF Part
<1>3. s \in [1 .. Size[c] -> Metas(c)]
  BY Zenon, <1>1, <1>2
<1>4. s \in Orders(c)
  BY Zenon, <1>3 DEF Orders, Part
<1> QED
  BY Zenon, <1>4 DEF Wholes

\* Another meta of the catalog is added to them.
LEMMA LongerPart ==
    ASSUME NEW s \in Seq(Blobs), NEW t \in Seq(Blobs), NEW c \in Catalogs, NEW b \in Metas(c),
           Part(s, c), Len(s) < Size[c], Len(t) = Len(s) + 1, t[Len(s) + 1] = b,
           \A i \in 1 .. Len(s) : t[i] = s[i] /\ s[i] # b
    PROVE  Part(t, c)
<1> DEFINE n == Len(s)
<1>1. n \in Nat /\ Size[c] \in Nat
  BY LocalDirAssumption
<1>2. \A i \in 1 .. n + 1 : i \in 1 .. n \/ i = n + 1
  BY <1>1
<1>3. \A i \in 1 .. n + 1 : t[i] \in Metas(c)
  BY Zenon, <1>2 DEF Part
<1>4. \A i, j \in 1 .. n + 1 : t[i] = t[j] => i = j
  BY Zenon, <1>2 DEF Part, NoRepeats
<1>5. n + 1 <= Size[c]
  BY <1>1
<1> QED
  BY Zenon, <1>3, <1>4, <1>5 DEF Part, NoRepeats

\* Two sequences with the same elements are equal.
LEMMA SameElements ==
    ASSUME NEW s \in Seq(Blobs), NEW t \in Seq(Blobs), Len(s) = Len(t),
           \A i \in 1 .. Len(s) : s[i] = t[i]
    PROVE  s = t
  OBVIOUS

\* A new file changes no other.
LEMMA NewFile ==
    ASSUME TypeOK
    PROVE  /\ Append(files, <<>>) \in Seq(Seq(Blobs))
           /\ Len(Append(files, <<>>)) = Len(files) + 1
           /\ \A f \in 1 .. Len(files) : Append(files, <<>>)[f] = files[f]
           /\ Append(files, <<>>)[Len(files) + 1] = <<>>
<1>1. <<>> \in Seq(Blobs) /\ files \in Seq(Seq(Blobs))
  BY DEF TypeOK
<1> QED
  BY <1>1

\* Writing a meta changes one file, by one blob at its end.
LEMMA WrittenFile ==
    ASSUME TypeOK, pc = "write", NEW b \in Blobs
    PROVE  LET fs == [files EXCEPT ![tempFile] = Append(@, b)]
           IN  /\ fs \in Seq(Seq(Blobs)) /\ Len(fs) = Len(files)
               /\ \A f \in (1 .. Len(files)) \ {tempFile} : fs[f] = files[f]
               /\ Len(fs[tempFile]) = Len(files[tempFile]) + 1
               /\ \A i \in 1 .. Len(files[tempFile]) : fs[tempFile][i] = files[tempFile][i]
               /\ fs[tempFile][Len(files[tempFile]) + 1] = b
<1>1. tempFile \in 1 .. Len(files) /\ files \in Seq(Seq(Blobs))
  BY DEF TypeOK
<1>2. files[tempFile] \in Seq(Blobs)
  BY <1>1
<1>3. Append(files[tempFile], b) \in Seq(Blobs)
  BY <1>2
<1> DEFINE fs == [files EXCEPT ![tempFile] = Append(files[tempFile], b)]
<1>4. fs \in Seq(Seq(Blobs)) /\ Len(fs) = Len(files)
  BY <1>1, <1>3
<1>5. /\ \A f \in (1 .. Len(files)) \ {tempFile} : fs[f] = files[f]
      /\ fs[tempFile] = Append(files[tempFile], b)
  BY <1>1
<1> HIDE DEF fs
<1>6. /\ Len(fs[tempFile]) = Len(files[tempFile]) + 1
      /\ \A i \in 1 .. Len(files[tempFile]) : fs[tempFile][i] = files[tempFile][i]
      /\ fs[tempFile][Len(files[tempFile]) + 1] = b
  BY <1>2, <1>5
<1> QED
  BY <1>4, <1>5, <1>6 DEF fs

-------------------------------------------------------------------------------
(* The steps of Store, Delete and the file server.                           *)

\* Nothing that clients can see, or have read, is changed by Store before it
\* renames its file.
LEMMA FilesKept ==
    ASSUME Inv, NEW fs \in Seq(Seq(Blobs)), Len(fs) >= Len(files),
           \A f \in (1 .. Len(files)) \ temps : fs[f] = files[f]
    PROVE  /\ all # None => fs[all] = files[all]
           /\ \A r \in Readers : reader[r].file # None =>
                  fs[reader[r].file] = files[reader[r].file]
<1>1. all # None => all \in (1 .. Len(files)) \ temps
  BY DEF Inv, TypeOK, ServedInv
<1>2. \A r \in Readers : reader[r].file # None =>
         reader[r].file \in (1 .. Len(files)) \ temps
  BY DEF Inv, ReaderInv, Copies
<1> QED
  BY <1>1, <1>2

\* Requests keep what they have copied while unpublished files change.
LEMMA ReadersKept ==
    ASSUME Inv, Len(files') >= Len(files), files' \in Seq(Seq(Blobs)),
           \A f \in (1 .. Len(files)) \ temps : files'[f] = files[f],
           \A f \in 1 .. Len(files) : f \in temps' => f \in temps,
           UNCHANGED reader
    PROVE  ReaderInv'
<1> SUFFICES ASSUME NEW r \in Readers
             PROVE  Copies(reader[r])'
  BY DEF ReaderInv
<1>1. Copies(reader[r])
  BY DEF Inv, ReaderInv
<1>2. Len(files) \in Nat /\ Len(files') \in Nat
  BY DEF Inv, TypeOK
<1>3. CASE reader[r].file = None /\ reader[r].size = 0 /\ reader[r].data = <<>>
  BY <1>3 DEF Copies
<1>4. CASE /\ reader[r].open
           /\ reader[r].file \in 1 .. Len(files) /\ reader[r].file \notin temps
           /\ reader[r].size = Len(files[reader[r].file])
           /\ Len(reader[r].data) <= reader[r].size
           /\ \A i \in 1 .. Len(reader[r].data) :
                 reader[r].data[i] = files[reader[r].file][i]
  <2>1. reader[r].file \in 1 .. Len(files')
    BY <1>2, <1>4
  <2>2. reader[r].file \notin temps' /\ files'[reader[r].file] = files[reader[r].file]
    BY <1>4
  <2> QED
    BY <1>4, <2>1, <2>2 DEF Copies
<1> QED
  BY Zenon, <1>1, <1>3, <1>4 DEF Copies

\* There is an element after the first k.
LEMMA NextElement ==
    ASSUME NEW t \in Seq(Blobs), NEW k \in Nat, k < Len(t)
    PROVE  t[k + 1] \in Blobs
  OBVIOUS

\* Every step preserves Inv.
LEMMA InvNext == Inv /\ [Next]_vars => Inv'
<1> SUFFICES ASSUME Inv, [Next]_vars
             PROVE  Inv'
  OBVIOUS
<1> USE DEF Inv
<1>0. /\ files \in Seq(Seq(Blobs)) /\ Len(files) \in Nat
      /\ \A f \in 1 .. Len(files) : files[f] \in Seq(Blobs)
  BY DEF TypeOK
<1>1. CASE BeginStore
  <2>1. CASE UNCHANGED storeVars
    <3>1. TypeOK'
      BY <1>1, <2>1 DEF BeginStore, storeVars, TypeOK, Fault
    <3> QED
      BY <1>1, <2>1, <3>1
         DEF BeginStore, storeVars, WriteInv, ServedInv, ReaderInv, Copies
  <2>2. CASE /\ fsys' \in Catalogs /\ files' = Append(files, <<>>)
             /\ tempFile' = Len(files) + 1 /\ temps' = temps \cup {tempFile'}
             /\ pc' = "write" /\ UNCHANGED <<leaked, all, faults, reader, response>>
    <3>1. /\ files' \in Seq(Seq(Blobs)) /\ Len(files') = Len(files) + 1
          /\ \A f \in 1 .. Len(files) : files'[f] = files[f]
          /\ files'[tempFile'] = <<>>
      BY <2>2, NewFile
    <3>2. TypeOK'
      <4>1. 1 .. Len(files) \subseteq 1 .. Len(files') /\ tempFile' \in 1 .. Len(files')
        BY <1>0, <2>2, <3>1
      <4>2. /\ temps \subseteq 1 .. Len(files) /\ all \in (1 .. Len(files)) \cup {None}
            /\ leaked \subseteq 1 .. Len(files)
        BY DEF TypeOK
      <4>3. /\ temps' \subseteq 1 .. Len(files') /\ all' \in (1 .. Len(files')) \cup {None}
            /\ tempFile' \in temps' /\ leaked' \subseteq 1 .. Len(files')
        BY Zenon, <2>2, <4>1, <4>2
      <4> QED
        BY <2>2, <3>1, <4>1, <4>3 DEF TypeOK
    <3>3. WriteInv'
      <4>1. Len(files'[tempFile']) = 0 /\ Size[fsys'] \in Nat
        BY <2>2, <3>1, LocalDirAssumption
      <4>2. Part(files'[tempFile'], fsys')
        BY <4>1 DEF Part, NoRepeats
      <4> QED
        BY Zenon, <4>2 DEF WriteInv
    <3>4. ServedInv'
      BY <1>0, <2>2, <3>1 DEF ServedInv, TypeOK
    <3>5. ReaderInv'
      BY <1>0, <2>2, <3>1, ReadersKept DEF TypeOK
    <3> QED
      BY <3>2, <3>3, <3>4, <3>5
  <2> QED
    BY <1>1, <2>1, <2>2 DEF BeginStore
<1>2. CASE WriteMeta
  <2>1. CASE /\ Return /\ UNCHANGED files
    <3>1. /\ pc' = "idle" /\ fsys' = None /\ tempFile' = None /\ temps' \subseteq temps
          /\ leaked' \in {leaked, leaked \cup {tempFile}} /\ tempFile \in 1 .. Len(files)
          /\ UNCHANGED <<all, reader, response>> /\ faults' \in Nat
      BY <1>2, <2>1 DEF WriteMeta, Return, Fault, TypeOK
    <3>2. TypeOK'
      BY SMTT(30), <2>1, <3>1 DEF TypeOK
    <3> QED
      BY <1>0, <2>1, <3>1, <3>2, ReadersKept DEF WriteInv, ServedInv
  <2>2. ASSUME NEW b \in Metas(fsys),
               \A i \in 1 .. Len(files[tempFile]) : files[tempFile][i] # b,
               files' = [files EXCEPT ![tempFile] = Append(@, b)],
               UNCHANGED <<temps, leaked, pc, fsys, tempFile, faults>>
        PROVE  Inv'
    <3> DEFINE n == Len(files[tempFile])
    <3>0. /\ pc = "write" /\ n < Size[fsys] /\ UNCHANGED <<all, reader, response>>
      BY <1>2 DEF WriteMeta
    <3>1. /\ tempFile \in temps /\ tempFile \in 1 .. Len(files) /\ fsys \in Catalogs
          /\ n \in Nat /\ Size[fsys] \in Nat
      BY <1>0, <3>0, LocalDirAssumption DEF TypeOK
    <3>2. b \in Blobs
      BY <3>1 DEF Blobs, Metas
    <3>3. /\ files' \in Seq(Seq(Blobs)) /\ Len(files') = Len(files)
          /\ \A f \in (1 .. Len(files)) \ {tempFile} : files'[f] = files[f]
          /\ Len(files'[tempFile]) = n + 1
          /\ \A i \in 1 .. n : files'[tempFile][i] = files[tempFile][i]
          /\ files'[tempFile][n + 1] = b
      BY <2>2, <3>0, <3>2, WrittenFile
    <3>4. TypeOK'
      BY Zenon, <2>2, <3>0, <3>3 DEF TypeOK
    <3>5. WriteInv'
      <4>1. files[tempFile] \in Seq(Blobs) /\ files'[tempFile] \in Seq(Blobs)
        BY <1>0, <3>1, <3>3 DEF TypeOK
      <4>2. Part(files[tempFile], fsys)
        BY Zenon, <3>0 DEF WriteInv
      <4>3. \A i \in 1 .. Len(files[tempFile]) :
                files'[tempFile][i] = files[tempFile][i] /\ files[tempFile][i] # b
        BY <2>2, <3>3
      <4>4. Part(files'[tempFile], fsys)
        BY <2>2, <3>0, <3>1, <3>3, <4>1, <4>2, <4>3, LongerPart
      <4> QED
        BY Zenon, <2>2, <4>4 DEF WriteInv
    <3>6. ServedInv'
      BY <2>2, <3>0, <3>1, <3>3 DEF ServedInv, TypeOK
    <3>7. ReaderInv'
      BY <1>0, <2>2, <3>0, <3>1, <3>3, ReadersKept
    <3> QED
      BY <3>4, <3>5, <3>6, <3>7
  <2> QED
    BY Zenon, <1>2, <2>1, <2>2 DEF WriteMeta
<1>3. CASE Rename
  <2>1. /\ pc = "write" /\ Len(files[tempFile]) = Size[fsys]
        /\ pc' = "idle" /\ fsys' = None /\ tempFile' = None /\ temps' \subseteq temps
        /\ leaked' \in {leaked, leaked \cup {tempFile}} /\ tempFile \in 1 .. Len(files)
        /\ UNCHANGED <<files, reader, response>> /\ faults' \in Nat
        /\ \/ all' = tempFile /\ tempFile \notin temps'
           \/ UNCHANGED all
    BY SMTT(30), <1>3 DEF Rename, Return, Fault, TypeOK
  <2>2. TypeOK'
    BY SMTT(30), <2>1 DEF TypeOK
  <2>3. files[tempFile] \in Wholes
    BY ZenonT(60), <1>0, <2>1, WholeFile DEF TypeOK, WriteInv
  <2>4. ServedInv'
    BY <2>1, <2>3 DEF ServedInv
  <2> QED
    BY <1>0, <2>1, <2>2, <2>4, ReadersKept DEF WriteInv
<1>4. CASE Delete
  <2>1. /\ all' \in {all, None} /\ faults' \in Nat
        /\ UNCHANGED <<files, temps, leaked, pc, fsys, tempFile, reader, response>>
    BY <1>4 DEF Delete, Fault, TypeOK
  <2>2. TypeOK'
    BY ZenonT(60), <2>1 DEF TypeOK
  <2> QED
    BY <2>1, <2>2 DEF WriteInv, ServedInv, ReaderInv, Copies
<1>5. CASE Crash
  <2>1. /\ pc' = "idle" /\ fsys' = None /\ tempFile' = None /\ faults' \in Nat
        /\ reader' = [r \in Readers |-> Closed] /\ leaked' = temps
        /\ UNCHANGED <<files, temps, all, response>>
    BY <1>5 DEF Crash, Fault, TypeOK
  <2>2. TypeOK'
    <3>1. Closed \in Reader
      BY DEF Closed, Reader
    <3> QED
      BY <2>1, <3>1 DEF TypeOK
  <2>3. ReaderInv'
    BY <2>1 DEF ReaderInv, Copies, Closed
  <2> QED
    BY <2>1, <2>2, <2>3 DEF WriteInv, ServedInv
<1>6. CASE Serve
  <2>1. PICK r \in Readers : Open(r) \/ Read(r) \/ Reply(r)
    BY ZenonT(60), <1>6 DEF Serve
  <2>2. UNCHANGED <<files, temps, leaked, all, pc, fsys, tempFile, faults>>
    BY <2>1 DEF Open, Read, Reply, storeVars
  <2>3. reader[r] \in Reader /\ Copies(reader[r])
    BY ZenonT(60) DEF TypeOK, ReaderInv
  <2>4. ASSUME NEW q \in Reader, Copies(q), reader' = [reader EXCEPT ![r] = q],
               response' \in [Readers -> Seq(Blobs) \cup {None}]
        PROVE  Inv'
    <3>1. TypeOK'
      BY <2>2, <2>4 DEF TypeOK
    <3>2. \A p \in Readers : Copies(reader'[p])
      BY ZenonT(60), <2>4 DEF ReaderInv, TypeOK
    <3>3. ReaderInv'
      BY <2>2, <3>2 DEF ReaderInv, Copies
    <3> QED
      BY <2>2, <3>1, <3>3 DEF WriteInv, ServedInv
  <2>5. CASE Open(r)
    <3> DEFINE q == IF all = None THEN [Closed EXCEPT !.open = TRUE]
                    ELSE [open |-> TRUE, file |-> all, size |-> Len(files[all]),
                          data |-> <<>>]
    <3>1. q \in Reader /\ Copies(q)
      <4>1. CASE all = None
        <5>1. q = [open |-> TRUE, file |-> None, size |-> 0, data |-> <<>>]
          BY Zenon, <4>1 DEF Closed
        <5> HIDE DEF q
        <5> QED
          BY <5>1 DEF Reader, Copies
      <4>2. CASE all # None
        <5>1. all \in 1 .. Len(files) /\ all \notin temps /\ Len(files[all]) \in Nat
          BY <1>0, <4>2 DEF TypeOK, ServedInv
        <5>2. <<>> \in Seq(Blobs) /\ Len(<<>>) = 0
          OBVIOUS
        <5> QED
          BY <1>0, <4>2, <5>1, <5>2 DEF Reader, Copies
      <4> QED
        BY ZenonT(60), <4>1, <4>2
    <3>2. reader' = [reader EXCEPT ![r] = q] /\ UNCHANGED response
      BY <2>5 DEF Open
    <3> HIDE DEF q
    <3> QED
      BY Zenon, <2>4, <3>1, <3>2 DEF TypeOK
  <2>6. CASE Read(r)
    <3> DEFINE n == Len(reader[r].data)
               f == reader[r].file
               d == Append(reader[r].data, files[f][n + 1])
               q == [reader[r] EXCEPT !.data = d]
    <3>1. reader[r].open /\ n < reader[r].size /\ UNCHANGED response
      BY <2>6 DEF Read
    <3>2. /\ n \in Nat /\ reader[r].size \in Nat /\ reader[r].data \in Seq(Blobs)
      BY <2>3 DEF Reader
    <3>3. /\ f \in 1 .. Len(files) /\ f \notin temps /\ reader[r].size = Len(files[f])
          /\ \A i \in 1 .. n : reader[r].data[i] = files[f][i]
      BY SMTT(30), <2>3, <3>1, <3>2 DEF Copies
    <3>4. files[f][n + 1] \in Blobs
      <4>1. files[f] \in Seq(Blobs) /\ n < Len(files[f])
        BY Zenon, <1>0, <3>1, <3>3
      <4> QED
        BY Zenon, <3>2, <4>1, NextElement
    <3>5. d \in Seq(Blobs) /\ Len(d) = n + 1 /\ \A i \in 1 .. n + 1 : d[i] = files[f][i]
      <4>1. ASSUME NEW t \in Seq(Blobs), NEW b \in Blobs
            PROVE  /\ Append(t, b) \in Seq(Blobs) /\ Len(Append(t, b)) = Len(t) + 1
                   /\ \A i \in 1 .. Len(t) : Append(t, b)[i] = t[i]
                   /\ Append(t, b)[Len(t) + 1] = b
        BY SMTT(30)
      <4>2. /\ d \in Seq(Blobs) /\ Len(d) = n + 1 /\ d[n + 1] = files[f][n + 1]
            /\ \A i \in 1 .. n : d[i] = reader[r].data[i]
        BY <3>2, <3>4, <4>1
      <4>3. \A i \in 1 .. n + 1 : i \in 1 .. n \/ i = n + 1
        BY <3>2
      <4> HIDE DEF d
      <4> QED
        BY Zenon, <3>3, <4>2, <4>3
    <3>6. reader' = [reader EXCEPT ![r] = q]
      BY <2>6 DEF Read, TypeOK
    <3> HIDE DEF d
    <3>7. /\ q \in Reader /\ q.open = reader[r].open /\ q.file = f
          /\ q.size = reader[r].size /\ q.data = d
      BY Zenon, <2>3, <3>5 DEF Reader
    <3> HIDE DEF n, f, q
    <3>8. Copies(q)
      BY <3>1, <3>2, <3>3, <3>5, <3>7 DEF Copies
    <3> QED
      BY Zenon, <2>4, <3>1, <3>6, <3>7, <3>8 DEF TypeOK
  <2>7. CASE Reply(r)
    <3>1. Closed \in Reader /\ Copies(Closed)
      BY DEF Closed, Reader, Copies
    <3>2. response' \in [Readers -> Seq(Blobs) \cup {None}]
      BY Zenon, <2>3, <2>7 DEF Reply, TypeOK, Reader
    <3> QED
      BY Zenon, <2>4, <2>7, <3>1, <3>2 DEF Reply
  <2> QED
    BY <2>1, <2>5, <2>6, <2>7
<1>7. CASE UNCHANGED vars
  BY ZenonT(60), <1>7 DEF vars, storeVars, TypeOK, WriteInv, ServedInv, ReaderInv, Copies
<1> QED
  BY <1>1, <1>2, <1>3, <1>4, <1>5, <1>6, <1>7 DEF Next, Store

\* Inv is inductive.
LEMMA Invariant == Spec => []Inv
<1>1. Init => Inv
  <2> SUFFICES ASSUME Init
               PROVE  Inv
    OBVIOUS
  <2>1. Closed \in Reader /\ <<>> \in Seq(Seq(Blobs)) /\ Len(<<>>) = 0
    BY DEF Closed, Reader
  <2>2. TypeOK
    BY <2>1 DEF Init, TypeOK
  <2>3. ReaderInv
    BY DEF Init, ReaderInv, Copies, Closed
  <2> QED
    BY <2>2, <2>3 DEF Init, Inv, WriteInv, ServedInv
<1> QED
  BY <1>1, InvNext, PTL DEF Spec

\* Every reachable state is well typed; Store writes only to a file that has a
\* temporary name.
THEOREM LocalDirTypeCorrect == Spec => []TypeOK
  BY Invariant, PTL DEF Inv

\* The file at the path clients read is at all times a whole catalog.
THEOREM AlwaysWhole == Spec => []ServedIsWhole
<1>1. Inv => ServedIsWhole
  BY DEF Inv, ServedInv, ServedIsWhole, ContentExists
<1> QED
  BY <1>1, Invariant, PTL

-------------------------------------------------------------------------------
(* Refinement.                                                               *)

\* While Store has not renamed its file, clients see no change.
LEMMA Unseen ==
    ASSUME Inv, files' \in Seq(Seq(Blobs)), Len(files') >= Len(files),
           \A f \in (1 .. Len(files)) \ temps : files'[f] = files[f],
           UNCHANGED <<reader, response>>
    PROVE  /\ UNCHANGED <<Reading, View, response>>
           /\ UNCHANGED all => UNCHANGED Content
<1>1. \A r \in Readers : UNCHANGED FileContent(reader[r].file)
  BY Zenon, FilesKept DEF FileContent
<1>2. UNCHANGED all => UNCHANGED Content
  BY FilesKept DEF FileContent, Content
<1> QED
  BY <1>1, <1>2 DEF Reading, View

\* Every step of LocalDir is a step of AtomicStore or leaves it unchanged.
LEMMA StepImplements == Inv /\ [Next]_vars => [Atomic!Next]_(Atomic!avars)
<1> SUFFICES ASSUME Inv, [Next]_vars
             PROVE  Atomic!Next \/ UNCHANGED <<Content, Reading, View, response>>
  BY DEF Atomic!avars
<1> USE DEF Inv
<1>0. /\ files \in Seq(Seq(Blobs)) /\ Len(files) \in Nat
      /\ \A f \in 1 .. Len(files) : files[f] \in Seq(Blobs)
  BY DEF TypeOK
<1>1. CASE BeginStore
  <2>1. CASE UNCHANGED storeVars
    BY <1>0, <1>1, <2>1, Unseen DEF BeginStore, storeVars
  <2>2. CASE files' = Append(files, <<>>)
    BY <1>0, <1>1, <2>2, NewFile, Unseen DEF BeginStore, storeVars
  <2> QED
    BY <1>1, <2>1, <2>2 DEF BeginStore
<1>2. CASE WriteMeta
  <2>0. UNCHANGED <<all, reader, response>> /\ pc = "write"
    BY <1>2 DEF WriteMeta
  <2>1. CASE UNCHANGED files
    BY <1>0, <2>0, <2>1, Unseen
  <2>2. ASSUME NEW b \in Metas(fsys), files' = [files EXCEPT ![tempFile] = Append(@, b)]
        PROVE  UNCHANGED <<Content, Reading, View, response>>
    <3>1. tempFile \in temps /\ b \in Blobs
      BY <1>0, <2>0, LocalDirAssumption DEF TypeOK, Blobs, Metas
    <3>2. /\ files' \in Seq(Seq(Blobs)) /\ Len(files') = Len(files)
          /\ \A f \in (1 .. Len(files)) \ {tempFile} : files'[f] = files[f]
      BY <2>0, <2>2, <3>1, WrittenFile
    <3> QED
      BY <1>0, <2>0, <2>2, <3>1, <3>2, Unseen
  <2> QED
    BY Zenon, <1>2, <2>1, <2>2 DEF WriteMeta
<1>3. CASE Rename
  <2>1. /\ UNCHANGED <<files, reader, response>>
        /\ pc = "write" /\ Len(files[tempFile]) = Size[fsys]
        /\ all' = tempFile \/ UNCHANGED all
    BY <1>3 DEF Rename
  <2>2. UNCHANGED <<Reading, View, response>> /\ (UNCHANGED all => UNCHANGED Content)
    BY <1>0, <2>1, Unseen
  <2>3. CASE all' = tempFile
    <3>1. tempFile \in 1 .. Len(files) /\ fsys \in Catalogs
      BY <2>1 DEF TypeOK
    <3>2. files[tempFile] \in Wholes
      BY Zenon, <1>0, <2>1, <3>1, WholeFile DEF WriteInv, TypeOK
    <3>3. tempFile # None
      BY <1>0, <3>1, LocalDirAssumption
    <3>4. Content' \in Wholes
      BY <2>1, <2>3, <3>2, <3>3 DEF Content, FileContent
    <3> QED
      BY <2>2, <3>4 DEF Atomic!Next, Atomic!Put
  <2> QED
    BY <2>1, <2>2, <2>3
<1>4. CASE Delete
  <2>1. UNCHANGED <<files, reader, response>> /\ all' \in {all, None}
    BY <1>4 DEF Delete
  <2>2. UNCHANGED <<Reading, View, response>> /\ (UNCHANGED all => UNCHANGED Content)
    BY <1>0, <2>1, Unseen
  <2>3. all' = None => Content' = None
    BY DEF Content, FileContent
  <2> QED
    BY <2>1, <2>2, <2>3 DEF Atomic!Next, Atomic!Remove
<1>5. CASE Crash
  <2>1. Reading' = {} /\ View' = [r \in Readers |-> None] /\ UNCHANGED <<Content, response>>
    BY <1>5 DEF Crash, Reading, View, Content, FileContent, Closed
  <2> QED
    BY Zenon, <2>1 DEF Atomic!Next, Atomic!Drop
<1>6. CASE Serve
  <2>1. PICK r \in Readers : Open(r) \/ Read(r) \/ Reply(r)
    BY <1>6 DEF Serve
  <2>2. UNCHANGED Content /\ UNCHANGED <<files, all>>
    BY <2>1 DEF Open, Read, Reply, storeVars, Content, FileContent
  <2>3. reader[r] \in Reader /\ Copies(reader[r]) /\ reader \in [Readers -> Reader]
    BY DEF TypeOK, ReaderInv
  <2>4. CASE Open(r)
    <3>1. r \notin Reading /\ UNCHANGED response
      BY <2>4 DEF Open, Reading
    <3>2. reader'[r].open /\ reader'[r].file = all
      BY <2>3, <2>4 DEF Open, Closed
    <3>3. \A p \in Readers \ {r} : reader'[p] = reader[p]
      BY <2>3, <2>4 DEF Open
    <3>4. Reading' = Reading \cup {r}
      BY <3>2, <3>3 DEF Reading
    <3>5. View' = [View EXCEPT ![r] = Content]
      BY Zenon, <2>2, <3>2, <3>3 DEF View, Content, FileContent
    <3> QED
      BY Zenon, <2>2, <3>1, <3>4, <3>5 DEF Atomic!Next, Atomic!Open
  <2>5. CASE Read(r)
    <3>1. \A p \in Readers : /\ reader'[p].open = reader[p].open
                             /\ reader'[p].file = reader[p].file
      BY ZenonT(60), <2>3, <2>5 DEF Read, Reader
    <3>2. UNCHANGED response
      BY <2>5 DEF Read
    <3> QED
      BY Zenon, <2>2, <3>1, <3>2 DEF Reading, View, FileContent
  <2>6. CASE Reply(r)
    <3>1. r \in Reading
      BY Zenon, <2>6 DEF Reply, Reading
    <3>2. ~reader'[r].open /\ reader'[r].file = None
      BY ZenonT(60), <2>3, <2>6 DEF Reply, Closed
    <3>3. \A p \in Readers \ {r} : reader'[p] = reader[p]
      BY <2>3, <2>6 DEF Reply
    <3>4. Reading' = Reading \ {r}
      BY <3>2, <3>3 DEF Reading
    <3>5. View' = [View EXCEPT ![r] = None]
      BY Zenon, <2>2, <3>2, <3>3 DEF View, FileContent
    <3>6. reader[r].file # None => reader[r].data = files[reader[r].file]
      <4> SUFFICES ASSUME reader[r].file # None
                   PROVE  reader[r].data = files[reader[r].file]
        OBVIOUS
      <4>1. /\ reader[r].file \in 1 .. Len(files)
            /\ Len(reader[r].data) = Len(files[reader[r].file])
            /\ \A i \in 1 .. Len(reader[r].data) :
                  reader[r].data[i] = files[reader[r].file][i]
        BY <2>3, <2>6 DEF Reply, Copies
      <4>2. reader[r].data \in Seq(Blobs) /\ files[reader[r].file] \in Seq(Blobs)
        BY <1>0, <2>3, <4>1 DEF Reader
      <4> QED
        BY ZenonT(60), <4>1, <4>2, SameElements
    <3>7. response' = [response EXCEPT ![r] = View[r]]
      BY Zenon, <2>6, <3>6 DEF Reply, View, FileContent
    <3> QED
      BY Zenon, <2>2, <3>1, <3>4, <3>5, <3>7 DEF Atomic!Next, Atomic!Reply
  <2> QED
    BY Zenon, <2>1, <2>4, <2>5, <2>6
<1>7. CASE UNCHANGED vars
  BY <1>7 DEF vars, storeVars, Content, Reading, View, FileContent
<1> QED
  BY <1>1, <1>2, <1>3, <1>4, <1>5, <1>6, <1>7 DEF Next, Store

\* Clients have an atomic view of the content: what LocalDirV1 does on disk,
\* crashes and failures included, implements a store whose content is replaced
\* and read as a whole.
THEOREM LocalDirIsAtomic == Spec => AtomicView
<1>1. Init => Atomic!Init
  BY DEF Init, Atomic!Init, Content, Reading, View, FileContent, Closed
<1> QED
  BY <1>1, StepImplements, Invariant, PTL DEF Spec, AtomicView, Atomic!Spec


-------------------------------------------------------------------------------

\* The only temporary name, but for those of the files that leaked, is that of the
\* file Store is writing.
TempInv ==
    IF pc = "write" THEN temps = leaked \cup {tempFile} /\ tempFile \notin leaked
    ELSE temps = leaked

\* Store leaves no temporary file behind when it fails, unless the container died
\* in it or the removal failed.
THEOREM StoreCleansUp == Spec => []TempsRemoved
<1>1. Init => TempInv
  BY DEF Init, TempInv
<1>2. ASSUME TypeOK, TempInv, [Next]_vars
      PROVE  TempInv'
  <2>1. ASSUME BeginStore
        PROVE  TempInv'
    <3>1. Len(files) + 1 \notin temps
      BY <1>2 DEF TypeOK
    <3> QED
      BY <1>2, <2>1, <3>1 DEF TempInv, BeginStore, storeVars
  <2>2. ASSUME WriteMeta \/ Rename
        PROVE  TempInv'
    BY Zenon, <1>2, <2>2 DEF TempInv, WriteMeta, Rename, Return
  <2>3. ASSUME Delete
        PROVE  TempInv'
    BY <1>2, <2>3 DEF TempInv, Delete
  <2>4. ASSUME Crash
        PROVE  TempInv'
    BY ZenonT(60), <2>4 DEF TempInv, Crash
  <2>5. ASSUME Serve \/ UNCHANGED vars
        PROVE  TempInv'
    BY <1>2, <2>5 DEF TempInv, Serve, Open, Read, Reply, storeVars, vars
  <2> QED
    BY <1>2, <2>1, <2>2, <2>3, <2>4, <2>5 DEF Next, Store
<1>3. TempInv => TempsRemoved
  BY Zenon DEF TempInv, TempsRemoved
<1> QED
  BY <1>1, <1>2, <1>3, LocalDirTypeCorrect, PTL DEF Spec

-------------------------------------------------------------------------------
(* The server that hands the files out (CatalogServer): a stop lets the      *)
(* downloads finish that it had accepted, for any downloads and timeouts.    *)

\* Start returns nil only after the channel was closed, the channel is closed only
\* when no download is left or Shutdown gave up, and the controllers are stopped
\* only after Start has returned.
ShutdownInv ==
    /\ manager = "controllers" => start \in {"nil", "error"}
    /\ start = "nil" => shutdown = "closed"
    /\ shutdown = "closed" => Active = {} \/ waited = ShutdownTimeout

\* While the process lives, only the write timeout cuts.
CutInv == Alive => \A r \in Requests : request[r] = "cut" => age[r] = WriteTimeout

ServerInv == ServerTypeOK /\ ShutdownInv /\ CutInv /\ DownloadsFinish

\* A clock stays between zero and its limit.
LEMMA UpStays ==
    ASSUME NEW limit \in Nat, NEW clock \in 0 .. limit
    PROVE  Up(clock, limit) \in 0 .. limit /\ (clock = limit => Up(clock, limit) = limit)
BY DEF Up

\* A step keeps the types.
LEMMA ServerTypeNext ==
    ASSUME ServerTypeOK, [ServerNext]_serverVars
    PROVE  ServerTypeOK'
<1> USE DEF ServerTypeOK
<1>1. ASSUME NEW r \in Requests, Request(r) \/ Respond(r) \/ WriteFails(r)
      PROVE  ServerTypeOK'
  <2>1. /\ request' \in [Requests -> {"none", "active", "served", "cut"}]
        /\ UNCHANGED <<open, start, shutdown, manager, sigterm, clocks>>
    BY <1>1 DEF Request, Respond, WriteFails
  <2> QED
    BY Zenon, <2>1 DEF clocks
<1>2. CASE ServeFails \/ ServeReturns \/ StartReturns \/ BeginShutdown \/ ShutdownReturns
  <2>1. open' = FALSE
    <3>1. CASE ServeFails \/ BeginShutdown
      BY Zenon, <3>1 DEF ServeFails, BeginShutdown
    <3>2. CASE ServeReturns \/ StartReturns \/ ShutdownReturns
      <4>1. open = FALSE /\ open' = open
        BY Zenon, <3>2 DEF ServeReturns, StartReturns, ShutdownReturns
      <4> QED
        BY <4>1
    <3> QED
      BY Zenon, <1>2, <3>1, <3>2
  <2>2. /\ start' \in {"serve", "await", "nil", "error"}
        /\ shutdown' \in {"wait", "drain", "closed"}
        /\ UNCHANGED <<request, manager, sigterm, clocks>>
    BY Zenon, <1>2
       DEF ServeFails, ServeReturns, StartReturns, BeginShutdown, ShutdownReturns
  <2> QED
    BY Zenon, <2>1, <2>2 DEF clocks
<1>3. CASE Stop \/ StopControllers \/ Terminate
  <2>1. /\ manager' \in {"running", "stopping", "controllers", "nil", "error", "killed"}
        /\ sigterm' \in BOOLEAN /\ UNCHANGED <<open, request, start, shutdown, clocks>>
    BY ZenonT(60), <1>3 DEF Stop, StopControllers, Terminate
  <2> QED
    BY Zenon, <2>1 DEF clocks
<1>4. ASSUME NEW result \in {"nil", "error", "killed"}, Exit(result)
      PROVE  ServerTypeOK'
  <2>1. request' \in [Requests -> {"none", "active", "served", "cut"}]
    BY Zenon, <1>4 DEF Exit
  <2> QED
    BY Zenon, <1>4, <2>1 DEF Exit, clocks
<1>5. CASE ControllersStopped
  BY ZenonT(60), <1>4, <1>5 DEF ControllersStopped
<1>6. CASE GraceExpires \/ Kill
  BY Zenon, <1>4, <1>6 DEF GraceExpires, Kill
<1>7. CASE Tick
  <2>1. age' \in [Requests -> 0 .. WriteTimeout]
    BY Zenon, <1>7, UpStays, CatalogServerAssumption DEF Tick
  <2>2. /\ waited' \in 0 .. ShutdownTimeout /\ elapsed' \in 0 .. GracePeriod
        /\ podElapsed' \in 0 .. PodGracePeriod
    BY Zenon, <1>7, UpStays, CatalogServerAssumption DEF Tick
  <2> QED
    BY Zenon, <1>7, <2>1, <2>2 DEF Tick
<1>8. CASE UNCHANGED serverVars
  BY Zenon, <1>8 DEF serverVars, clocks
<1> QED
  BY ZenonT(60), <1>1, <1>2, <1>3, <1>5, <1>6, <1>7, <1>8 DEF ServerNext, Server

\* The server, its goroutine, the manager, the downloads and the clocks are always
\* in one of their states.  The listener is open only before Shutdown.
THEOREM CatalogServerTypeCorrect == ServerSpec => []ServerTypeOK
<1>1. ASSUME ServerInit
      PROVE  ServerTypeOK
  <2>1. /\ 0 \in 0 .. WriteTimeout /\ 0 \in 0 .. ShutdownTimeout
        /\ 0 \in 0 .. GracePeriod /\ 0 \in 0 .. PodGracePeriod
    BY CatalogServerAssumption
  <2> QED
    BY Zenon, <1>1, <2>1 DEF ServerInit, Serving, ServerTypeOK
<1> QED
  BY <1>1, ServerTypeNext, PTL DEF ServerSpec

\* The order of a stop is kept: a download that ends leaves the set of active ones,
\* and none is added after the listener was closed.
LEMMA ShutdownNext ==
    ASSUME ServerTypeOK, ShutdownInv, [ServerNext]_serverVars
    PROVE  ShutdownInv'
<1> USE DEF ServerTypeOK, ShutdownInv
<1>1. ASSUME NEW r \in Requests, Request(r)
      PROVE  ShutdownInv'
  BY <1>1 DEF Request, clocks
<1>2. ASSUME NEW r \in Requests, Respond(r) \/ WriteFails(r)
      PROVE  ShutdownInv'
  <2>1. Active' \subseteq Active
    BY <1>2 DEF Respond, WriteFails, Active
  <2>2. UNCHANGED <<start, shutdown, manager, waited>>
    BY Zenon, <1>2 DEF Respond, WriteFails, clocks
  <2> QED
    BY <2>1, <2>2
<1>3. CASE ServeFails \/ ServeReturns \/ StartReturns \/ Stop \/ Terminate \/ StopControllers
  <2>1. UNCHANGED <<shutdown, waited, Active>>
    BY Zenon, <1>3
       DEF ServeFails, ServeReturns, StartReturns, Stop, Terminate, StopControllers,
           Active, clocks
  <2>2. /\ manager' = "controllers" => start' \in {"nil", "error"}
        /\ start' = "nil" => shutdown = "closed"
    BY ZenonT(60), <1>3
       DEF ServeFails, ServeReturns, StartReturns, Stop, Terminate, StopControllers
  <2> QED
    BY Zenon, <2>1, <2>2
<1>4. CASE BeginShutdown \/ ShutdownReturns
  BY <1>4 DEF BeginShutdown, ShutdownReturns, Active, clocks
<1>5. ASSUME NEW result \in {"nil", "error", "killed"}, Exit(result)
      PROVE  ShutdownInv'
  <2>1. Active' = {}
    BY Zenon, <1>5 DEF Exit, Active
  <2> QED
    BY Zenon, <1>5, <2>1 DEF Exit
<1>6. CASE ControllersStopped \/ GraceExpires \/ Kill
  BY Zenon, <1>5, <1>6 DEF ControllersStopped, GraceExpires, Kill
<1>7. CASE Tick
  <2>1. waited = ShutdownTimeout => waited' = ShutdownTimeout
    BY Zenon, <1>7, UpStays, CatalogServerAssumption DEF Tick
  <2> QED
    BY Zenon, <1>7, <2>1 DEF Tick, Active
<1>8. CASE UNCHANGED serverVars
  BY Zenon, <1>8 DEF serverVars, Active, clocks
<1> QED
  BY ZenonT(60), <1>1, <1>2, <1>3, <1>4, <1>6, <1>7, <1>8 DEF ServerNext, Server

\* What is cut, and when.
LEMMA CutNext ==
    ASSUME ServerInv, [ServerNext]_serverVars
    PROVE  CutInv' /\ DownloadsFinish'
<1> USE DEF ServerInv
<1>1. ASSUME Alive, \A r \in Requests : request'[r] = "cut" => age'[r] = WriteTimeout
      PROVE  CutInv' /\ DownloadsFinish'
  BY Zenon, <1>1 DEF CutInv, DownloadsFinish
<1>2. ASSUME NEW r \in Requests, Request(r) \/ Respond(r) \/ WriteFails(r)
      PROVE  CutInv' /\ DownloadsFinish'
  <2>1. /\ Alive /\ UNCHANGED age
        /\ \A q \in Requests : request'[q] = "cut" =>
               request[q] = "cut" \/ age[q] = WriteTimeout
    BY <1>2 DEF Request, Respond, WriteFails, ServerTypeOK, clocks
  <2> QED
    BY Zenon, <1>1, <2>1 DEF CutInv
<1>3. CASE Tick
  <2>1. Alive /\ UNCHANGED request
    BY Zenon, <1>3 DEF Tick
  <2>2. \A q \in Requests : request[q] = "cut" => age'[q] = age[q]
    BY Zenon, <1>3 DEF Tick, Active
  <2> QED
    BY Zenon, <1>1, <2>1, <2>2 DEF CutInv
<1>4. CASE ServeFails \/ Server \/ Stop \/ Terminate \/ StopControllers
  <2>1. Alive /\ UNCHANGED <<request, age>>
    BY ZenonT(60), <1>4
       DEF ServeFails, Server, ServeReturns, StartReturns, BeginShutdown, ShutdownReturns,
           Stop, Terminate, StopControllers, Alive, Stopping, clocks
  <2> QED
    BY Zenon, <1>1, <2>1 DEF CutInv
<1>5. ASSUME NEW result \in {"nil", "error", "killed"}, Exit(result), Alive
      PROVE  /\ CutInv' /\ UNCHANGED <<start, clocks>> /\ manager' = result
             /\ \A r \in Requests : request'[r] = "cut" =>
                    r \in Active \/ age[r] = WriteTimeout
  <2>1. manager' = result /\ UNCHANGED <<start, clocks>>
    BY Zenon, <1>5 DEF Exit
  <2>2. ~Alive'
    BY <2>1 DEF Alive, Stopping
  <2>3. \A r \in Requests : request'[r] = "cut" => r \in Active \/ request[r] = "cut"
    BY Zenon, <1>5 DEF Exit
  <2> QED
    BY Zenon, <1>5, <2>1, <2>2, <2>3 DEF CutInv
<1>6. CASE ControllersStopped
  <2>1. PICK result \in {"nil", "error", "killed"} : Exit(result)
    BY Zenon, <1>6 DEF ControllersStopped
  <2>2. Alive
    BY Zenon, <1>6 DEF ControllersStopped, Alive, Stopping
  <2>3. start = "error" \/ waited = ShutdownTimeout \/ Active = {}
    BY Zenon, <1>6 DEF ControllersStopped, ShutdownInv
  <2>4. /\ CutInv' /\ UNCHANGED <<start, clocks>>
        /\ \A r \in Requests : request'[r] = "cut" => r \in Active \/ age[r] = WriteTimeout
    BY Zenon, <1>5, <2>1, <2>2
  <2> QED
    BY ZenonT(60), <2>3, <2>4 DEF DownloadsFinish, clocks
<1>7. CASE GraceExpires
  <2>1. Exit("error") /\ Alive /\ elapsed = GracePeriod
    BY Zenon, <1>7 DEF GraceExpires, Alive
  <2>2. CutInv' /\ UNCHANGED clocks /\ manager' = "error"
    BY Zenon, <1>5, <2>1
  <2> QED
    BY Zenon, <2>1, <2>2 DEF DownloadsFinish, clocks
<1>8. CASE Kill
  <2>1. Exit("killed") /\ Alive /\ podElapsed = PodGracePeriod
    BY Zenon, <1>8 DEF Kill
  <2>2. CutInv' /\ UNCHANGED clocks /\ manager' = "killed"
    BY Zenon, <1>5, <2>1
  <2> QED
    BY Zenon, <2>1, <2>2 DEF DownloadsFinish, clocks
<1>9. CASE UNCHANGED serverVars
  BY Zenon, <1>9 DEF serverVars, clocks, Alive, Stopping, CutInv, DownloadsFinish
<1> QED
  BY ZenonT(60), <1>2, <1>3, <1>4, <1>6, <1>7, <1>8, <1>9 DEF ServerNext

\* A download that the server accepted is cut short only when it went on past the
\* write timeout or the server failed, or else at a stop, when Shutdown or the
\* manager had waited for their full time, or the kubelet for the pod's.
THEOREM DownloadsFinishAlways == ServerSpec => []DownloadsFinish
<1> DEFINE I == ShutdownInv /\ CutInv /\ DownloadsFinish
<1>1. ASSUME ServerInit
      PROVE  I
  BY <1>1 DEF ServerInit, Serving, ShutdownInv, CutInv, DownloadsFinish
<1>2. ASSUME ServerTypeOK, I, [ServerNext]_serverVars
      PROVE  I'
  BY Zenon, <1>2, ShutdownNext, CutNext DEF ServerInv
<1>3. I => DownloadsFinish
  OBVIOUS
<1> HIDE DEF I
<1> QED
  BY <1>1, <1>2, <1>3, CatalogServerTypeCorrect, PTL DEF ServerSpec
===============================================================================

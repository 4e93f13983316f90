---------------------------- MODULE GoogleDrive ----------------------------
(* The Google Drive lab (C06): uploads in chunks that are stored once per       *)
(* content hash, the resumable upload whose progress is a Redis set, and the    *)
(* save with a base version that a conflicting editor turns into a copy.  A     *)
(* file is the sequence of its chunk hashes.                                    *)
EXTENDS Integers, Sequences, FiniteSets, Functions, FiniteSetsExt

CONSTANTS
  Hashes,      \* the chunk hashes there are
  Contents,    \* the contents a user may have: sequences of hashes
  Uploaders,   \* clients that upload or save
  FileNames,   \* the shared files; a client's own file has the client's name
  MaxVersions, \* bound: rows of file_versions
  MaxReferences \* bound: the references counted when an upload begins

VARIABLES
  chunkRows,   \* hash -> ref_count, on the rows of chunks
  objects,     \* the hashes whose object is in the bucket
  fileHash,    \* name -> the content files.file_hash names, on the rows of files
  fileVersions,\* name -> the contents of its versions 1, 2, ...
  received,    \* client -> the chunk numbers in its Redis set
  client       \* client -> what it is doing: [op, name, content, next, seen, base]

vars == <<chunkRows, objects, fileHash, fileVersions, received, client>>

Idle == [op |-> "idle", name |-> "", content |-> <<>>, next |-> 0, seen |-> FALSE, base |-> 0]

\* The tables, all empty, and the bucket, with nothing in it.
InitDb == chunkRows = <<>> /\ fileHash = <<>> /\ fileVersions = <<>>
EnsureBucket == objects = {}

Init ==
  /\ InitDb /\ EnsureBucket
  /\ received = [u \in Uploaders |-> {}]
  /\ client = [u \in Uploaders |-> Idle]

With(f, k, v) == [x \in DOMAIN f \cup {k} |-> IF x = k THEN v ELSE f[x]]
Versions(n) == IF n \in DOMAIN fileVersions THEN fileVersions[n] ELSE <<>>
Rows == FoldFunction(LAMBDA v, sum : Len(v) + sum, 0, fileVersions)
Refs(rows, h) == IF h \in DOMAIN rows THEN rows[h] ELSE 0
AllRefs == FoldFunction(LAMBDA r, sum : r + sum, 0, chunkRows)

Set(u, c) == client' = [client EXCEPT ![u] = c]

\* upload_chunks (upload), phase 4 (resume) and phase 5 (save, with the version
\* the editor started from) begin.
Begin(u, op, n, content) ==
  /\ client[u].op = "idle" /\ Rows < MaxVersions
  /\ AllRefs < MaxReferences
  /\ op = "save" => n \in DOMAIN fileVersions
  /\ op = "resume" => n = u /\ n \notin DOMAIN fileHash
  /\ \E base \in 0..Len(Versions(n)) :
       /\ (op = "save") = (base > 0)
       /\ Set(u, [op |-> op, name |-> n, content |-> content, next |-> 1,
                  seen |-> FALSE, base |-> base])
  /\ received' = [received EXCEPT ![u] = {}]
  /\ UNCHANGED <<chunkRows, objects, fileHash, fileVersions>>

\* phase 5: the base version is compared with the latest once, before the save;
\* a stale editor uploads a conflict copy of its own instead.
CheckBase(u, copyName) ==
  LET c == client[u]
      latest == Len(Versions(c.name))
  IN /\ c.op = "save"
     /\ Set(u, IF c.base = latest
               THEN [c EXCEPT !.op = "saving"]
               ELSE [c EXCEPT !.op = "upload", !.name = copyName])
     /\ UNCHANGED <<chunkRows, objects, fileHash, fileVersions, received>>

Chunk(c) == c.content[c.next]
Uploading(c) == c.op \in {"upload", "saving"} /\ c.next \in DOMAIN c.content

\* Mutation: the row of the chunk is written before its object.
LookUpRowFirst(u) ==
  /\ Uploading(client[u]) /\ ~client[u].seen
  /\ Set(u, [client[u] EXCEPT !.next = IF Chunk(client[u]) \in DOMAIN chunkRows THEN @ + 1 ELSE @,
                              !.seen = Chunk(client[u]) \notin DOMAIN chunkRows])
  /\ chunkRows' = With(chunkRows, Chunk(client[u]), Refs(chunkRows, Chunk(client[u])) + 1)
  /\ UNCHANGED <<objects, fileHash, fileVersions, received>>

\* SELECT hash FROM chunks, with the put_object or the UPDATE that follows it: rows and
\* objects are never removed and the UPDATE is atomic, so that nothing of another client
\* that comes in between changes what these two do.  The INSERT is a step of its own.
LookUp(u) ==
  /\ Uploading(client[u]) /\ ~client[u].seen
  /\ IF Chunk(client[u]) \in DOMAIN chunkRows
     THEN \* upload_chunks counts the reference; the save of phase 5 does not.
          /\ Set(u, [client[u] EXCEPT !.next = @ + 1])
          /\ chunkRows' = IF client[u].op = "saving" THEN chunkRows
                          ELSE [chunkRows EXCEPT ![Chunk(client[u])] = @ + 1]
          /\ UNCHANGED objects
     ELSE /\ Set(u, [client[u] EXCEPT !.seen = TRUE])
          /\ objects' = objects \cup {Chunk(client[u])}
          /\ UNCHANGED chunkRows
  /\ UNCHANGED <<fileHash, fileVersions, received>>

\* INSERT ... ON CONFLICT DO UPDATE, once the object is in the bucket.
InsertChunk(u) ==
  /\ Uploading(client[u]) /\ client[u].seen
  /\ chunkRows' = With(chunkRows, Chunk(client[u]), Refs(chunkRows, Chunk(client[u])) + 1)
  /\ Set(u, [client[u] EXCEPT !.next = @ + 1, !.seen = FALSE])
  /\ UNCHANGED <<objects, fileHash, fileVersions, received>>

\* Mutation: a resumed upload takes the chunks it has tried for the received ones.
ReceivedTried(c, u) == 1..(c.next - 1)

Received(c, u) == received[u]

\* Phase 4: object, row and then SADD, for a chunk that is not received.
ResumePut(u) ==
  /\ client[u].op = "resume"
  /\ \E i \in DOMAIN client[u].content \ received[u] :
       LET h == client[u].content[i]
       IN /\ objects' = objects \cup {h}
          /\ chunkRows' = With(chunkRows, h, Refs(chunkRows, h) + 1)
          /\ \/ received' = [received EXCEPT ![u] = @ \cup {i}]
             \/ AllRefs < MaxReferences /\ UNCHANGED received  \* it fails before the SADD
          /\ Set(u, [client[u] EXCEPT !.next = i + 1])
  /\ UNCHANGED <<fileHash, fileVersions>>

\* The row of files and the row of file_versions in one transaction.
Save(n, content) ==
  /\ fileHash' = With(fileHash, n, content)
  /\ fileVersions' = With(fileVersions, n, Append(Versions(n), content))

\* The end of upload_chunks: the version is MAX(version) + 1 at this moment;
\* two that read the same one leave the second to UNIQUE, and it dies.
Complete(u) ==
  /\ client[u].op = "upload" /\ client[u].next > Len(client[u].content)
  /\ Save(client[u].name, client[u].content)
  /\ Set(u, Idle)
  /\ UNCHANGED <<chunkRows, objects, received>>

\* Phase 4: a new file once nothing is missing; the session is deleted.
CompleteResumed(u) ==
  /\ client[u].op = "resume"
  /\ DOMAIN client[u].content \subseteq Received(client[u], u)
  /\ Save(client[u].name, client[u].content)
  /\ received' = [received EXCEPT ![u] = {}]
  /\ Set(u, Idle)
  /\ UNCHANGED <<chunkRows, objects>>

\* Mutation: the save takes the version number that is free.
CompleteSaveNext(u) ==
  /\ client[u].op = "saving" /\ client[u].next > Len(client[u].content)
  /\ Save(client[u].name, client[u].content)
  /\ Set(u, Idle)
  /\ UNCHANGED <<chunkRows, objects, received>>

\* Phase 5: version base + 1; UNIQUE (file_id, version) refuses it, and rolls
\* the update of files back, when another editor has taken the number.
CompleteSave(u) ==
  LET c == client[u]
  IN /\ c.op = "saving" /\ c.next > Len(c.content)
     /\ IF Len(Versions(c.name)) = c.base
        THEN Save(c.name, c.content)
        ELSE UNCHANGED <<fileHash, fileVersions>>
     /\ Set(u, Idle)
     /\ UNCHANGED <<chunkRows, objects, received>>

\* A client dies; the Redis session, the chunks and the rows stay.
Dies(u) ==
  /\ client[u].op \notin {"idle", "resume"}
  /\ Set(u, Idle)
  /\ UNCHANGED <<chunkRows, objects, fileHash, fileVersions, received>>

DriveFull ==
  /\ \A u \in Uploaders : client[u].op = "idle"
  /\ UNCHANGED vars

\* The rest of an upload, the first one of a file and the re-upload of a modified one alike:
\* the chunks already stored are looked up, the changed ones are stored.
DeltaSync(u) == LookUp(u) \/ InsertChunk(u) \/ Complete(u)

Next ==
  \/ \E u \in Uploaders :
       \/ \E op \in {"upload", "resume", "save"}, n \in FileNames \cup {u}, c \in Contents : Begin(u, op, n, c)
       \/ DeltaSync(u)
       \/ ResumePut(u) \/ CompleteResumed(u) \/ Dies(u)
       \/ CheckBase(u, u) \/ CompleteSave(u)
  \/ DriveFull

Spec == Init /\ [][Next]_vars

-------------------------------------------------------------------------------
\* Where the versions name the chunk h.
References(h) ==
  UNION {{<<v, j>> : j \in {k \in DOMAIN fileVersions[v[1]][v[2]] : fileVersions[v[1]][v[2]][k] = h}} :
           v \in UNION {{n} \X DOMAIN fileVersions[n] : n \in DOMAIN fileVersions}}

TypeOK ==
  /\ DOMAIN chunkRows \subseteq Hashes /\ objects \subseteq Hashes
  /\ DOMAIN fileHash = DOMAIN fileVersions
  /\ \A u \in Uploaders : client[u].op \in {"idle", "upload", "resume", "save", "saving"}

\* Whatever interleaves and dies: a chunk with a row has its object, so a version
\* can be downloaded; the file's hash is that of its latest version.
FilesAreWhole ==
  /\ DOMAIN chunkRows \subseteq objects
  /\ \A n \in DOMAIN fileVersions :
       /\ \A i \in DOMAIN fileVersions[n] : Range(fileVersions[n][i]) \subseteq DOMAIN chunkRows
       /\ fileHash[n] = fileVersions[n][Len(fileVersions[n])]

\* A save never replaces a version its editor has not seen.
OverwritesSeen ==
  \A u \in Uploaders :
    client[u].op = "saving" /\ client'[u].op = "idle" /\ fileVersions' # fileVersions
      => Len(Versions(client[u].name)) = client[u].base

NoSilentOverwrite == [][OverwritesSeen]_vars

\* The references of the versions to a chunk are counted (a count of zero lets
\* the chunk be collected).
CountsReferences == \A h \in Hashes : Refs(chunkRows, h) >= Cardinality(References(h))

=============================================================================

----------------------------- MODULE BlobUpload -----------------------------
(***************************************************************************)
(* The resumable uploads of src/blobs.rs for one vault: create_upload,     *)
(* get_upload, put_upload, discard_upload and the sweeper, over the tables *)
(* blob_uploads and blobs and the files of the blob directory.             *)
(*                                                                         *)
(* Every query and every file operation is a step of its own; at each      *)
(* await in between other requests and the sweeper come in, or the request *)
(* ends early (error, client gone, process killed), leaving tables and     *)
(* files as they are.  Only put_upload locks, by the claimed hash.         *)
(*                                                                         *)
(* Data.  A file is a sequence of units; a unit is TRUE if it is the one   *)
(* the claimed hash was computed from, so a file has the claimed hash iff  *)
(* it has the right length and all units are TRUE.  A hole reads as FALSE. *)
(***************************************************************************)
EXTENDS Naturals, Sequences, FiniteSetsExt

CONSTANTS
    Conns,          \* HTTP requests in flight
    Sweeper,        \* the hourly task
    Uploads,        \* upload ids (uuids, never reused)
    Hashes,         \* hashes clients claim
    Length,         \* Length[h]: the size of the content with hash h
    Unsanitized,    \* hashes of SVGs that are no fixpoint of the sanitizer
    Sizes,          \* sizes clients claim
    Segments,       \* bodies of PUT requests
    AbsoluteMax,    \* ABSOLUTE_MAX
    MaxOpen,        \* MAX_OPEN_UPLOADS
    Quota,          \* the vault's effective quota, 0 for none
    NoFile, NoHash, NoUpload

Procs == Conns \cup {Sweeper}
Files == Seq(BOOLEAN)

ASSUME ConstantsAssumption ==
    /\ Sweeper \notin Conns
    /\ NoUpload \notin Uploads /\ NoHash \notin Hashes /\ NoFile \notin Files
    /\ Length \in [Hashes -> Nat]
    /\ Unsanitized \subseteq Hashes
    /\ Sizes \subseteq Nat \ {0}
    /\ \A s \in Segments : s \in Files /\ s # <<>>
    /\ AbsoluteMax \in Nat /\ MaxOpen \in Nat /\ Quota \in Nat

VARIABLES
    uploads,        \* uploads[u]: the row of blob_uploads, or NoRow
    blobs,          \* hashes with a row in blobs
    tmp,            \* tmp[u]: the staging file of u, or NoFile
    files,          \* files[h]: the content-addressed file, or NoFile
    used,           \* upload ids handed out so far
    pc, job,        \* where each request is, and its locals
    todo,           \* the rest of the sweeper's list
    want, hold      \* the upload locks, see KeyedMutex

tableVars == <<uploads, blobs>>
fileVars == <<tmp, files>>
lockVars == <<want, hold>>
vars == <<tableVars, fileVars, used, pc, job, todo, lockVars>>

Locks == INSTANCE KeyedMutex WITH Tasks <- Conns, Keys <- Hashes, NoKey <- NoHash

-----------------------------------------------------------------------------
UploadRow == [hash : Hashes \cup {NoHash}, size : Nat, received : Nat, expired : BOOLEAN]
NoRow == [hash |-> NoHash, size |-> 0, received |-> 0, expired |-> FALSE]
Open(u) == uploads[u].size # 0

Job == [upload : Uploads \cup {NoUpload}, hash : Hashes \cup {NoHash}, size : Nat,
        at : Nat, bytes : Files, destExisted : BOOLEAN]
NoJob == [upload |-> NoUpload, hash |-> NoHash, size |-> 0,
          at |-> 0, bytes |-> <<>>, destExisted |-> FALSE]

PcValues == {"idle", "admit", "stage", "insert", "lock", "row", "write", "update",
             "verify", "find", "move", "record", "undo", "close",
             "discard_row", "discard_file", "sweep"}

TypeOK ==
    /\ uploads \in [Uploads -> UploadRow]
    /\ \A u \in Uploads : uploads[u].received <= uploads[u].size
    /\ blobs \in SUBSET Hashes
    /\ tmp \in [Uploads -> {NoFile} \cup Files]
    /\ files \in [Hashes -> {NoFile} \cup Files]
    /\ used \in SUBSET Uploads
    /\ pc \in [Procs -> PcValues]
    /\ job \in [Procs -> Job]
    /\ todo \in SUBSET Uploads
    /\ Locks!MutexTypeOK

Init ==
    /\ uploads = [u \in Uploads |-> NoRow]
    /\ blobs = {}
    /\ tmp = [u \in Uploads |-> NoFile]
    /\ files = [h \in Hashes |-> NoFile]
    /\ used = {}
    /\ pc = [p \in Procs |-> "idle"]
    /\ job = [p \in Procs |-> NoJob]
    /\ todo = {}
    /\ Locks!MutexInit

-----------------------------------------------------------------------------
(* The course of a request.                                                *)

\* Go on at label l, with the locals j.
Goto(p, l, j) ==
    /\ pc' = [pc EXCEPT ![p] = l]
    /\ job' = [job EXCEPT ![p] = j]

\* The handler returns, or its future is dropped: the guard goes with it.
End(p) ==
    /\ Goto(p, "idle", NoJob)
    /\ IF p \in Conns /\ want[p] # NoHash THEN Locks!Release(p) ELSE UNCHANGED lockVars

\* discard_upload, from its DELETE on.
Discard(p, u) ==
    Goto(p, "discard_row", [job[p] EXCEPT !.upload = u]) /\ UNCHANGED lockVars

(* create_upload.                                                          *)

\* A hash that is stored already is answered at once, and so is a size over
\* the ceiling.
CreateUpload(c) ==
    /\ pc[c] = "idle"
    /\ \E h \in Hashes \ blobs, n \in Sizes :
          /\ n <= AbsoluteMax
          /\ Goto(c, "admit", [NoJob EXCEPT !.hash = h, !.size = n])
    /\ UNCHANGED <<tableVars, fileVars, used, todo, lockVars>>

\* Uploads that count: not older than 24 hours.
Current == {u \in Uploads : Open(u) /\ ~uploads[u].expired}

Stored == MapThenSumSet(LAMBDA h : Length[h], blobs)
Inflight == MapThenSumSet(LAMBDA u : uploads[u].size - uploads[u].received, Current)

\* The limit of open uploads and the quota.
Admissible(n) ==
    /\ Cardinality(Current) < MaxOpen
    /\ Quota > 0 => Stored + Inflight + n <= Quota

\* Both are checked under one lock of the database, which is let go before
\* the row exists.
AdmitUpload(c) ==
    /\ pc[c] = "admit"
    /\ \/ /\ Admissible(job[c].size)
          /\ \E u \in Uploads \ used :
                /\ used' = used \cup {u}
                /\ Goto(c, "stage", [job[c] EXCEPT !.upload = u])
          /\ UNCHANGED lockVars
       \/ ~Admissible(job[c].size) /\ End(c) /\ UNCHANGED used
    /\ UNCHANGED <<tableVars, fileVars, todo>>

\* tokio::fs::File::create
StageFile(c) ==
    /\ pc[c] = "stage"
    /\ tmp' = [tmp EXCEPT ![job[c].upload] = <<>>]
    /\ Goto(c, "insert", job[c])
    /\ UNCHANGED <<tableVars, files, used, todo, lockVars>>

InsertUpload(c) ==
    /\ pc[c] = "insert"
    /\ \/ /\ uploads' = [uploads EXCEPT ![job[c].upload] =
                [hash |-> job[c].hash, size |-> job[c].size, received |-> 0, expired |-> FALSE]]
          /\ End(c)
       \/ \* the INSERT fails: the file is removed
          Goto(c, "discard_file", job[c]) /\ UNCHANGED <<uploads, lockVars>>
    /\ UNCHANGED <<blobs, fileVars, used, todo>>

-----------------------------------------------------------------------------
(* get_upload and put_upload.                                              *)

\* get_upload only changes anything if the upload has expired.
GetUpload(c) ==
    /\ pc[c] = "idle"
    /\ \E u \in used : Open(u) /\ uploads[u].expired /\ Discard(c, u)
    /\ UNCHANGED <<tableVars, fileVars, used, todo>>

\* The body is read completely; then the row tells which hash to lock.
PutUpload(c) ==
    /\ pc[c] = "idle"
    /\ \E u \in used :
          /\ Open(u)
          /\ \/ uploads[u].expired /\ Discard(c, u)
             \/ /\ ~uploads[u].expired
                /\ Locks!Request(c, uploads[u].hash)
                /\ \E at \in 0..(AbsoluteMax - 1), s \in Segments, n \in Sizes :
                      Goto(c, "lock", [NoJob EXCEPT !.upload = u, !.at = at, !.bytes = s, !.size = n])
    /\ UNCHANGED <<tableVars, fileVars, used, todo>>

\* Mutant: no lock, the offset check alone.
LockNotTaken(c) ==
    /\ pc[c] = "lock"
    /\ Goto(c, "row", job[c])
    /\ UNCHANGED <<tableVars, fileVars, used, todo, lockVars>>

LockUpload(c) ==
    /\ pc[c] = "lock"
    /\ Locks!Acquire(c)
    /\ Goto(c, "row", job[c])
    /\ UNCHANGED <<tableVars, fileVars, used, todo>>

NextOffset(c) == job[c].at + Len(job[c].bytes)

\* Mutant: no check against the claimed size.
AcceptableUnbounded(c) ==
    LET row == uploads[job[c].upload] IN
    job[c].size = row.size /\ job[c].at = row.received

\* The size matches the upload, the segment starts where the last one ended
\* (409 otherwise) and does not reach past the claimed size.
Acceptable(c) ==
    LET row == uploads[job[c].upload] IN
    job[c].size = row.size /\ job[c].at = row.received /\ NextOffset(c) <= row.size

\* Under the lock the row is read again.
ReadRow(c) ==
    LET u == job[c].upload IN
    /\ pc[c] = "row"
    /\ \/ Open(u) /\ uploads[u].expired /\ Discard(c, u)
       \/ /\ Open(u) /\ ~uploads[u].expired /\ Acceptable(c)
          /\ Goto(c, "write", [job[c] EXCEPT !.hash = uploads[u].hash])
          /\ UNCHANGED lockVars
       \/ (Open(u) => ~uploads[u].expired /\ ~Acceptable(c)) /\ End(c)
    /\ UNCHANGED <<tableVars, fileVars, used, todo>>

\* What a file that holds old holds after bytes were written at offset at;
\* the seek alone does not extend it.
Written(old, at, bytes) ==
    LET end == IF bytes = <<>> THEN 0 ELSE at + Len(bytes)
        len == IF end > Len(old) THEN end ELSE Len(old)
    IN  [i \in 1..len |-> IF i > at /\ i <= end THEN bytes[i - at]
                          ELSE i <= Len(old) /\ old[i]]

\* Mutant: the error of write_all is not looked at.
WriteUnchecked(c) ==
    LET u == job[c].upload
        old == IF tmp[u] = NoFile THEN <<>> ELSE tmp[u]
    IN  /\ pc[c] = "write"
        /\ \E n \in 0..Len(job[c].bytes) :
              tmp' = [tmp EXCEPT ![u] = Written(old, job[c].at, SubSeq(job[c].bytes, 1, n))]
        /\ Goto(c, "update", job[c])
        /\ UNCHANGED <<tableVars, files, used, todo, lockVars>>

\* open(create), seek, write_all, sync_all; the write may be cut short.
WriteSegment(c) ==
    LET u == job[c].upload
        old == IF tmp[u] = NoFile THEN <<>> ELSE tmp[u]
    IN  /\ pc[c] = "write"
        /\ \/ /\ tmp' = [tmp EXCEPT ![u] = Written(old, job[c].at, job[c].bytes)]
              /\ Goto(c, "update", job[c]) /\ UNCHANGED lockVars
           \/ /\ \E n \in 0..(Len(job[c].bytes) - 1) :
                    tmp' = [tmp EXCEPT ![u] = Written(old, job[c].at, SubSeq(job[c].bytes, 1, n))]
              /\ End(c)
        /\ UNCHANGED <<tableVars, files, used, todo>>

\* UPDATE .. SET received_bytes, which finds no row after a discard.
UpdateReceived(c) ==
    LET u == job[c].upload IN
    /\ pc[c] = "update"
    /\ uploads' = [uploads EXCEPT ![u] = IF Open(u) THEN [@ EXCEPT !.received = NextOffset(c)] ELSE @]
    /\ \/ NextOffset(c) # job[c].size /\ End(c)
       \/ NextOffset(c) = job[c].size /\ Goto(c, "verify", job[c]) /\ UNCHANGED lockVars
    /\ UNCHANGED <<blobs, fileVars, used, todo>>

-----------------------------------------------------------------------------
(* The final segment.                                                      *)

HasHash(bytes, h) == Len(bytes) = Length[h] /\ \A i \in 1..Len(bytes) : bytes[i]

\* The staged file is read back, hashed and, if it is an SVG, sanitized.
Verify(c) ==
    LET bytes == tmp[job[c].upload] IN
    /\ pc[c] = "verify"
    /\ \/ bytes = NoFile /\ End(c)
       \/ /\ bytes # NoFile
          /\ ~HasHash(bytes, job[c].hash) \/ job[c].hash \in Unsanitized
          /\ Discard(c, job[c].upload)
       \/ /\ bytes # NoFile
          /\ HasHash(bytes, job[c].hash) /\ job[c].hash \notin Unsanitized
          /\ Goto(c, "find", job[c]) /\ UNCHANGED lockVars
    /\ UNCHANGED <<tableVars, fileVars, used, todo>>

\* tokio::fs::try_exists(&dest)
FindDest(c) ==
    /\ pc[c] = "find"
    /\ Goto(c, "move", [job[c] EXCEPT !.destExisted = (files[job[c].hash] # NoFile)])
    /\ UNCHANGED <<tableVars, fileVars, used, todo, lockVars>>

\* The staged file is dropped if its content is there, else renamed.
MoveFile(c) ==
    LET u == job[c].upload
        h == job[c].hash
    IN  /\ pc[c] = "move"
        /\ \/ ~job[c].destExisted /\ tmp[u] = NoFile /\ End(c) /\ UNCHANGED fileVars
           \/ /\ job[c].destExisted \/ tmp[u] # NoFile
              /\ files' = IF job[c].destExisted THEN files ELSE [files EXCEPT ![h] = tmp[u]]
              /\ tmp' = [tmp EXCEPT ![u] = NoFile]
              /\ Goto(c, "record", job[c]) /\ UNCHANGED lockVars
        /\ UNCHANGED <<tableVars, used, todo>>

\* INSERT OR IGNORE INTO blobs
RecordBlob(c) ==
    /\ pc[c] = "record"
    /\ \/ blobs' = blobs \cup {job[c].hash} /\ Goto(c, "close", job[c])
       \/ \* the INSERT fails
          Goto(c, "undo", job[c]) /\ UNCHANGED blobs
    /\ UNCHANGED <<uploads, fileVars, used, todo, lockVars>>

\* Mutant: the file is removed whoever put it there.
UndoAlways(c) ==
    /\ pc[c] = "undo"
    /\ files' = [files EXCEPT ![job[c].hash] = NoFile]
    /\ Discard(c, job[c].upload)
    /\ UNCHANGED <<tableVars, tmp, used, todo>>

\* A file this request has put in place is removed again.
UndoMove(c) ==
    /\ pc[c] = "undo"
    /\ files' = IF job[c].destExisted THEN files ELSE [files EXCEPT ![job[c].hash] = NoFile]
    /\ Discard(c, job[c].upload)
    /\ UNCHANGED <<tableVars, tmp, used, todo>>

CloseUpload(c) ==
    /\ pc[c] = "close"
    /\ uploads' = [uploads EXCEPT ![job[c].upload] = NoRow]
    /\ End(c)
    /\ UNCHANGED <<blobs, fileVars, used, todo>>

-----------------------------------------------------------------------------
(* discard_upload, and the sweeper, which takes no upload lock.            *)

\* DELETE FROM blob_uploads; its errors are ignored.
DiscardRow(p) ==
    /\ pc[p] = "discard_row"
    /\ \/ uploads' = [uploads EXCEPT ![job[p].upload] = NoRow]
       \/ UNCHANGED uploads
    /\ Goto(p, "discard_file", job[p])
    /\ UNCHANGED <<blobs, fileVars, used, todo, lockVars>>

\* remove_file; the sweeper goes on with its list.
DiscardFile(p) ==
    /\ pc[p] = "discard_file"
    /\ tmp' = [tmp EXCEPT ![job[p].upload] = NoFile]
    /\ IF p = Sweeper THEN Goto(p, "sweep", NoJob) /\ UNCHANGED lockVars ELSE End(p)
    /\ UNCHANGED <<tableVars, files, used, todo>>

\* sweep_expired_uploads reads its list under one lock of the database ...
StartSweep ==
    /\ pc[Sweeper] = "idle"
    /\ todo' = {u \in Uploads : Open(u) /\ uploads[u].expired}
    /\ todo' # {}
    /\ Goto(Sweeper, "sweep", NoJob)
    /\ UNCHANGED <<tableVars, fileVars, used, lockVars>>

\* ... and discards one upload after the other.
SweepNext ==
    /\ pc[Sweeper] = "sweep"
    /\ \/ \E u \in todo : todo' = todo \ {u} /\ Discard(Sweeper, u)
       \/ todo = {} /\ End(Sweeper) /\ UNCHANGED todo
    /\ UNCHANGED <<tableVars, fileVars, used>>

\* The request ends where it is: a query or file operation fails and ? returns
\* it, the client is gone, or the process dies (then all of them end).
Abort(p) ==
    /\ pc[p] # "idle"
    /\ End(p)
    /\ todo' = IF p = Sweeper THEN {} ELSE todo
    /\ UNCHANGED <<tableVars, fileVars, used>>

\* 24 hours have passed since the upload was created.
Expire(u) ==
    /\ Open(u) /\ ~uploads[u].expired
    /\ uploads' = [uploads EXCEPT ![u].expired = TRUE]
    /\ UNCHANGED <<blobs, fileVars, used, pc, job, todo, lockVars>>

Next ==
    \/ \E c \in Conns :
          \/ CreateUpload(c) \/ AdmitUpload(c) \/ StageFile(c) \/ InsertUpload(c)
          \/ GetUpload(c)
          \/ PutUpload(c) \/ LockUpload(c) \/ ReadRow(c) \/ WriteSegment(c) \/ UpdateReceived(c)
          \/ Verify(c) \/ FindDest(c) \/ MoveFile(c) \/ RecordBlob(c) \/ UndoMove(c) \/ CloseUpload(c)
    \/ \E p \in Procs : DiscardRow(p) \/ DiscardFile(p) \/ Abort(p)
    \/ StartSweep \/ SweepNext
    \/ \E u \in Uploads : Expire(u)

Spec == Init /\ [][Next]_vars

-----------------------------------------------------------------------------
(* Properties.                                                             *)

\* A stored blob is there and is what its hash says: no request, sweep or
\* early end between the hash check, the rename and the INSERT leaves a row
\* without its file, or a file with other bytes.
BlobSound ==
    /\ \A h \in blobs : files[h] # NoFile
    /\ \A h \in Hashes : files[h] # NoFile => HasHash(files[h], h)

\* An upload can be resumed where the server says: every byte before
\* next_offset is in the staging file, wherever an earlier PUT stopped.
ResumeSafe ==
    \A u \in Current : uploads[u].received < uploads[u].size =>
        tmp[u] # NoFile /\ Len(tmp[u]) >= uploads[u].received

\* Bytes the server has counted as received are not written again: a PUT
\* that is repeated, or comes late, does not touch them.
ReceivedStays ==
    [][\A u \in Uploads :
          u \in Current /\ Open(u)' /\ uploads[u].received < uploads[u].size =>
              /\ uploads'[u].received >= uploads[u].received
              /\ tmp'[u] # NoFile =>
                    \A i \in 1..uploads[u].received : tmp'[u][i] = tmp[u][i]]_vars

-----------------------------------------------------------------------------
(* What the documents say and the code does not do.                        *)

\* "Enforcement is only at creation. Concurrent creates can overshoot": a
\* create that runs alone stays within the quota, all bytes of the open
\* uploads counted.
QuotaEnforced ==
    [][\A c \in Conns :
          /\ Quota > 0 /\ pc[c] = "admit" /\ pc'[c] = "stage"
          /\ \A e \in Conns \ {c} : pc[e] \notin {"admit", "stage", "insert"}
          =>
             Stored + MapThenSumSet(LAMBDA u : uploads[u].size, Current) + job[c].size <= Quota]_vars

\* "a startup and hourly sweeper discards upload rows and staging files": the
\* sweeper finds a staging file by its row, so one without a request at work
\* has a row.
StagingSwept ==
    \A u \in Uploads : tmp[u] # NoFile => Open(u) \/ \E p \in Procs : job[p].upload = u

\* "Chunked resumable uploads": an upload nobody is working on waits for a
\* segment that the server would accept.
UploadResumable ==
    \A u \in Current :
        (\A p \in Procs : job[p].upload # u) => uploads[u].received < uploads[u].size
=============================================================================

------------------------------ MODULE BlobPaths ------------------------------
(***************************************************************************)
(* The attachment paths of one vault: post_blob_path and list_blob_paths   *)
(* of src/blobs.rs over the tables blob_path_states, blobs and counters.   *)
(*                                                                         *)
(* A POST holds the path's lock (KeyedMutex) from its read of the stored   *)
(* row to its broadcast; the sequence number it allocates is common to all *)
(* paths.  Listings take no lock: a client walks the table in pages up to  *)
(* a fence, the max_seq of its first page, while POSTs go on.              *)
(***************************************************************************)
EXTENDS Naturals, FiniteSets

CONSTANTS
    Conns,          \* POST requests in flight
    Readers,        \* clients that walk the listing
    Paths,          \* path keys
    SvgPaths,       \* the path keys that end in .svg
    Bodies,         \* the POST bodies clients send
    Hashes,         \* content hashes, ordered as their strings are
    Unsanitized,    \* hashes of SVGs that are no fixpoint of the sanitizer
    Limit,          \* rows per page
    MaxSeq,         \* bound on the sequence counter
    NoPath

Body == [path : Paths, generation : Nat, state : {"live", "deleted"},
         hash : {0} \cup Hashes, peer : Nat]

ASSUME ConstantsAssumption ==
    /\ NoPath \notin Paths /\ SvgPaths \subseteq Paths
    /\ Hashes \subseteq Nat \ {0} /\ Unsanitized \subseteq Hashes
    /\ \A b \in Bodies : b \in Body /\ (b.state = "live" => b.hash # 0)
    /\ Limit \in Nat \ {0} /\ MaxSeq \in Nat

VARIABLES
    rows,           \* rows[p]: the row of blob_path_states; seq 0 if none
    blobs,          \* hashes with a row in blobs
    seq,            \* counters.value of blob_seq
    pc, body,       \* where a POST is, and what it posts
    allocated,      \* the seq a POST has committed, 0 before
    sent,           \* BlobPathChanged events broadcast so far
    walk,           \* the walks of the readers
    want, hold      \* the path locks, see KeyedMutex

lockVars == <<want, hold>>
postVars == <<pc, body, allocated, lockVars>>
vars == <<rows, blobs, seq, postVars, sent, walk>>

Locks == INSTANCE KeyedMutex WITH Tasks <- Conns, Keys <- Paths, NoKey <- NoPath

PathRow == [generation : Nat, state : {"live", "deleted"}, hash : {0} \cup Hashes,
            peer : Nat, seq : Nat]
NoRow == [generation |-> 0, state |-> "deleted", hash |-> 0, peer |-> 0, seq |-> 0]
Present(p) == rows[p].seq # 0

NoBody == [path |-> NoPath, generation |-> 0, state |-> "deleted", hash |-> 0, peer |-> 0]

\* A walk starts without a fence, and is done when the client stops paging.
Entry == [path : Paths, seq : Nat]
Walk == [phase : {"idle", "walking", "done"}, cursor : Nat, fence : Nat, applied : SUBSET Entry]
NoWalk == [phase |-> "idle", cursor |-> 0, fence |-> 0, applied |-> {}]

PcValues == {"idle", "lock", "read", "check", "commit", "notify"}

TypeOK ==
    /\ rows \in [Paths -> PathRow]
    /\ blobs \in SUBSET Hashes
    /\ seq \in 0..MaxSeq /\ \A p \in Paths : rows[p].seq <= seq
    /\ pc \in [Conns -> PcValues]
    /\ body \in [Conns -> Body \cup {NoBody}]
    /\ allocated \in [Conns -> Nat]
    /\ sent \in SUBSET Entry
    /\ walk \in [Readers -> Walk]
    /\ Locks!MutexTypeOK

Init ==
    /\ rows = [p \in Paths |-> NoRow]
    /\ blobs = {}
    /\ seq = 0
    /\ pc = [c \in Conns |-> "idle"]
    /\ body = [c \in Conns |-> NoBody]
    /\ allocated = [c \in Conns |-> 0]
    /\ sent = {}
    /\ walk = [r \in Readers |-> NoWalk]
    /\ Locks!MutexInit

-----------------------------------------------------------------------------
(* post_blob_path.                                                         *)

\* The handler returns; its guard is dropped.
End(c) ==
    /\ pc' = [pc EXCEPT ![c] = "idle"]
    /\ body' = [body EXCEPT ![c] = NoBody]
    /\ allocated' = [allocated EXCEPT ![c] = 0]
    /\ Locks!Release(c)

Goto(c, l) ==
    /\ pc' = [pc EXCEPT ![c] = l]
    /\ UNCHANGED <<body, allocated>>

\* A valid body arrives and asks for the lock of its path.
PostPath(c) ==
    /\ pc[c] = "idle"
    /\ \E b \in Bodies :
          /\ body' = [body EXCEPT ![c] = b]
          /\ Locks!Request(c, b.path)
    /\ pc' = [pc EXCEPT ![c] = "lock"]
    /\ UNCHANGED <<rows, blobs, seq, allocated, sent, walk>>

\* Mutant: the path is not locked.
LockNotTaken(c) ==
    /\ pc[c] = "lock"
    /\ Goto(c, "read")
    /\ UNCHANGED <<rows, blobs, seq, sent, walk, lockVars>>

LockPath(c) ==
    /\ pc[c] = "lock"
    /\ Locks!Acquire(c)
    /\ Goto(c, "read")
    /\ UNCHANGED <<rows, blobs, seq, sent, walk>>

\* The same transition again, whoever sends it.
Repeated(b, row) ==
    b.generation = row.generation /\ b.hash = row.hash /\ b.state = row.state

\* Last writer wins: by generation, then by peer, then by hash.
Outranks(b, row) ==
    \/ b.generation > row.generation
    \/ b.generation = row.generation /\ b.peer > row.peer
    \/ b.generation = row.generation /\ b.peer = row.peer /\ b.hash > row.hash

\* The stored row decides: 200 for a repetition, 409 for a loser; a delete
\* without a hash needs no blob.
ReadPath(c) ==
    LET b == body[c]
        row == rows[b.path]
    IN  /\ pc[c] = "read"
        /\ \/ /\ Present(b.path)
              /\ Repeated(b, row) \/ ~Outranks(b, row)
              /\ End(c)
           \/ /\ Present(b.path) => ~Repeated(b, row) /\ Outranks(b, row)
              /\ Goto(c, IF b.hash = 0 THEN "commit" ELSE "check")
              /\ UNCHANGED lockVars
        /\ UNCHANGED <<rows, blobs, seq, sent, walk>>

\* Mutant: the blob is looked for only when the path is new.
CheckNewOnly(c) ==
    LET b == body[c] IN
    /\ pc[c] = "check"
    /\ \/ ~Present(b.path) /\ b.hash \notin blobs /\ End(c)
       \/ /\ Present(b.path) \/ b.hash \in blobs
          /\ Goto(c, "commit") /\ UNCHANGED lockVars
    /\ UNCHANGED <<rows, blobs, seq, sent, walk>>

\* A live .svg path whose content is no fixpoint of the sanitizer.
BadSvg(b) == b.state = "live" /\ b.path \in SvgPaths /\ b.hash \in Unsanitized

\* 412 without the blob, 422 for an SVG that is not sanitized.
CheckBlob(c) ==
    LET b == body[c]
        good == b.hash \in blobs /\ ~BadSvg(b)
    IN  /\ pc[c] = "check"
        /\ \/ ~good /\ End(c)
           \/ good /\ Goto(c, "commit") /\ UNCHANGED lockVars
        /\ UNCHANGED <<rows, blobs, seq, sent, walk>>

RowOf(b, n) ==
    [generation |-> b.generation, state |-> b.state, hash |-> b.hash, peer |-> b.peer, seq |-> n]

\* Mutant: the new value of the counter is not stored.
CommitUncounted(c) ==
    /\ pc[c] = "commit"
    /\ seq < MaxSeq
    /\ rows' = [rows EXCEPT ![body[c].path] = RowOf(body[c], seq + 1)]
    /\ allocated' = [allocated EXCEPT ![c] = seq + 1]
    /\ pc' = [pc EXCEPT ![c] = "notify"]
    /\ UNCHANGED <<blobs, seq, body, sent, walk, lockVars>>

\* Mutant: the transaction is dropped without a commit, which rolls it back.
CommitForgotten(c) ==
    /\ pc[c] = "commit"
    /\ seq < MaxSeq
    /\ allocated' = [allocated EXCEPT ![c] = seq + 1]
    /\ pc' = [pc EXCEPT ![c] = "notify"]
    /\ UNCHANGED <<rows, blobs, seq, body, sent, walk, lockVars>>

\* One transaction allocates the sequence number and writes the row.
CommitPath(c) ==
    /\ pc[c] = "commit"
    /\ seq < MaxSeq
    /\ seq' = seq + 1
    /\ rows' = [rows EXCEPT ![body[c].path] = RowOf(body[c], seq + 1)]
    /\ allocated' = [allocated EXCEPT ![c] = seq + 1]
    /\ pc' = [pc EXCEPT ![c] = "notify"]
    /\ UNCHANGED <<blobs, body, sent, walk, lockVars>>

\* The broadcast: after the commit, before the lock is let go.
Notify(c) ==
    /\ pc[c] = "notify"
    /\ sent' = sent \cup {[path |-> body[c].path, seq |-> allocated[c]]}
    /\ End(c)
    /\ UNCHANGED <<rows, blobs, seq, walk>>

\* The request ends early: an error, or its client is gone.  There is no
\* await between commit and broadcast; only the end of the process is there.
AbortPost(c) ==
    /\ pc[c] # "idle"
    /\ End(c)
    /\ UNCHANGED <<rows, blobs, seq, sent, walk>>

\* put_upload records a blob (BlobUpload); no blob is ever removed.  SVGs
\* stored before uploads were checked need not be sanitized.
UploadBlob(h) ==
    /\ h \notin blobs
    /\ blobs' = blobs \cup {h}
    /\ UNCHANGED <<rows, seq, postVars, sent, walk>>

-----------------------------------------------------------------------------
(* list_blob_paths, and the client that pages through it.                  *)

After(n) == {p \in Paths : rows[p].seq > n}

\* ORDER BY seq LIMIT: a set of rows is a page if none before them is left
\* out and it is full, or there are no more.
IsPage(page, n) ==
    /\ page \subseteq After(n)
    /\ \A p \in page, q \in After(n) : rows[q].seq < rows[p].seq => q \in page
    /\ Cardinality(page) <= Limit
    /\ Cardinality(page) = Limit \/ page = After(n)

\* Mutant: the next value of the counter instead of the last one.
IsNextSeq(n) == n = seq + 1

\* SELECT MAX(seq)
IsMaxSeq(n) ==
    /\ \A p \in Paths : rows[p].seq <= n
    /\ n = 0 \/ \E p \in Paths : rows[p].seq = n

\* The first page of a walk sets its fence; rows beyond it are not applied.
Fence(w, max) == IF w.phase = "idle" THEN max ELSE w.fence
Taken(page, fence) == {p \in page : rows[p].seq <= fence}

\* The cursor of the next request is the last number taken.
IsCursor(n, w, taken) ==
    /\ \A p \in taken : rows[p].seq <= n
    /\ IF taken = {} THEN n = w.cursor ELSE \E p \in taken : rows[p].seq = n

\* The walk stops at a row beyond the fence, at a short page, or at the fence.
Stops(page, fence, cursor) ==
    Taken(page, fence) # page \/ Cardinality(page) < Limit \/ cursor = fence

Walked(w, page, fence, cursor) ==
    [phase |-> IF Stops(page, fence, cursor) THEN "done" ELSE "walking",
     cursor |-> cursor, fence |-> fence,
     applied |-> w.applied \cup {[path |-> p, seq |-> rows[p].seq] : p \in Taken(page, fence)}]

\* One request of a walk.
ListPage(r) ==
    /\ walk[r].phase # "done"
    /\ \E page \in SUBSET Paths, max \in 0..MaxSeq, cursor \in 0..MaxSeq :
          /\ IsPage(page, walk[r].cursor)
          /\ IsMaxSeq(max)
          /\ IsCursor(cursor, walk[r], Taken(page, Fence(walk[r], max)))
          /\ walk' = [walk EXCEPT ![r] = Walked(walk[r], page, Fence(walk[r], max), cursor)]
    /\ UNCHANGED <<rows, blobs, seq, postVars, sent>>

\* The client is through with a walk and may start another one.
EndWalk(r) ==
    /\ walk[r].phase = "done"
    /\ walk' = [walk EXCEPT ![r] = NoWalk]
    /\ UNCHANGED <<rows, blobs, seq, postVars, sent>>

Next ==
    \/ \E c \in Conns :
          \/ PostPath(c) \/ LockPath(c) \/ ReadPath(c) \/ CheckBlob(c)
          \/ CommitPath(c) \/ Notify(c) \/ AbortPost(c)
    \/ \E h \in Hashes : UploadBlob(h)
    \/ \E r \in Readers : ListPage(r) \/ EndWalk(r)

Spec == Init /\ [][Next]_vars

-----------------------------------------------------------------------------
(* Properties.                                                             *)

\* The premise of the listing fence: a walk that is done has applied every
\* row that is still current and not beyond its fence, whatever was posted
\* between its pages.
WalkComplete ==
    \A r \in Readers : walk[r].phase = "done" =>
        \A p \in After(0) : rows[p].seq <= walk[r].fence =>
            [path |-> p, seq |-> rows[p].seq] \in walk[r].applied

\* Last writer wins: a row gives way only to a transition that outranks it,
\* although the decision is made some awaits before the row is written.
LastWriterWins ==
    [][\A p \in Paths : Present(p) /\ rows'[p] # rows[p] => Outranks(rows'[p], rows[p])]_vars

\* A row that names content names content that is stored, and a live
\* SVG is sanitized, though neither is checked in the transaction that writes it.
NamesStoredBlob ==
    \A p \in After(0) :
        /\ rows[p].hash # 0 => rows[p].hash \in blobs
        /\ rows[p].state = "live" /\ p \in SvgPaths => rows[p].hash \notin Unsanitized

\* A client that is woken by an event and asks finds the change it was told
\* of, or a later one.
EventAfterCommit == \A e \in sent : rows[e.path].seq >= e.seq
=============================================================================

--------------------------- MODULE BlobPathsProofs ---------------------------
(***************************************************************************)
(* BlobPaths for any number of requests, readers, paths, pages and posts.  *)
(*                                                                         *)
(* The invariant has two independent halves.  Under the path's lock a      *)
(* decision stays valid until it is written (LocksOK, DecisionsOK).  And   *)
(* because a sequence number is allocated in the transaction that writes   *)
(* the row, no row ever appears at or below a fence (SeqsOK, WalksOK).     *)
(***************************************************************************)
EXTENDS BlobPaths, TLAPS

InsidePcs == {"read", "check", "commit", "notify"}

\* A POST is inside its path's lock exactly while it works on the path.
LocksOK ==
    /\ \A c \in Conns : c \in hold <=> pc[c] \in InsidePcs
    /\ \A c \in Conns : want[c] = IF pc[c] = "idle" THEN NoPath ELSE body[c].path
    /\ \A c \in Conns : pc[c] # "idle" => body[c] \in Bodies
    /\ Locks!MutualExclusion

\* What was decided still holds when it is written.
DecisionsOK ==
    \A c \in Conns :
        /\ pc[c] \in {"check", "commit"} /\ Present(body[c].path) =>
              Outranks(body[c], rows[body[c].path])
        /\ pc[c] = "check" => body[c].hash # 0
        /\ pc[c] = "commit" => (body[c].hash # 0 => body[c].hash \in blobs) /\ ~BadSvg(body[c])
        /\ pc[c] = "notify" => rows[body[c].path].seq >= allocated[c]

\* No two rows share a number.
SeqsOK == \A p, q \in Paths : Present(p) /\ rows[p].seq = rows[q].seq => p = q

\* A walk has applied every row up to its cursor, and its fence is not ahead
\* of the counter.
WalkOK(r) ==
    /\ walk[r].phase = "idle" => walk[r].cursor = 0
    /\ walk[r].fence <= seq /\ walk[r].cursor <= walk[r].fence
    /\ \A p \in After(0) : rows[p].seq <= walk[r].cursor =>
          [path |-> p, seq |-> rows[p].seq] \in walk[r].applied
WalksOK == \A r \in Readers : WalkOK(r)

IndInv ==
    /\ TypeOK /\ LocksOK /\ DecisionsOK /\ SeqsOK /\ WalksOK
    /\ WalkComplete /\ NamesStoredBlob /\ EventAfterCommit

-----------------------------------------------------------------------------
LEMMA InitIndInv == Init => IndInv
<1> SUFFICES ASSUME Init PROVE IndInv
  OBVIOUS
<1>1. TypeOK
  BY ConstantsAssumption
  DEF Init, TypeOK, PathRow, NoRow, PcValues, Walk, NoWalk, Locks!MutexInit, Locks!MutexTypeOK
<1>2. LocksOK
  BY DEF Init, LocksOK, InsidePcs, Locks!MutexInit, Locks!MutualExclusion
<1>3. DecisionsOK /\ SeqsOK
  BY DEF Init, DecisionsOK, SeqsOK, Present, NoRow
<1>4. After(0) = {}
  BY DEF Init, After, NoRow
<1>5. WalksOK /\ WalkComplete /\ NamesStoredBlob /\ EventAfterCommit
  BY <1>4 DEF Init, WalksOK, WalkOK, WalkComplete, NoWalk, NamesStoredBlob, EventAfterCommit
<1> QED BY <1>1, <1>2, <1>3, <1>5 DEF IndInv

\* A step that leaves the tables and the walks alone keeps what is said of
\* them.
LEMMA TablesSame ==
    ASSUME IndInv, UNCHANGED <<rows, blobs, seq, walk, sent>>
    PROVE  SeqsOK' /\ WalksOK' /\ WalkComplete' /\ NamesStoredBlob' /\ EventAfterCommit'
<1>1. SeqsOK /\ WalksOK /\ WalkComplete /\ NamesStoredBlob /\ EventAfterCommit
  BY DEF IndInv
<1>2. After(0)' = After(0)
  BY DEF After
<1> QED
  BY <1>1, <1>2
  DEF SeqsOK, Present, WalksOK, WalkOK, WalkComplete, NamesStoredBlob, EventAfterCommit

\* A request that ends leaves its lock.
LEMMA EndKeeps ==
    ASSUME IndInv, NEW c \in Conns, pc[c] # "idle", End(c), UNCHANGED <<rows, blobs, seq, walk>>
    PROVE  /\ pc' \in [Conns -> PcValues] /\ body' \in [Conns -> Body \cup {NoBody}]
           /\ allocated' \in [Conns -> Nat] /\ Locks!MutexTypeOK'
           /\ LocksOK' /\ DecisionsOK'
<1>1. TypeOK /\ LocksOK /\ DecisionsOK
  BY DEF IndInv
<1>2. /\ pc' = [pc EXCEPT ![c] = "idle"] /\ body' = [body EXCEPT ![c] = NoBody]
      /\ allocated' = [allocated EXCEPT ![c] = 0]
      /\ want' = [want EXCEPT ![c] = NoPath] /\ hold' = hold \ {c}
  BY DEF End, Locks!Release
<1>3. /\ pc' \in [Conns -> PcValues] /\ body' \in [Conns -> Body \cup {NoBody}]
      /\ allocated' \in [Conns -> Nat] /\ Locks!MutexTypeOK'
  BY <1>1, <1>2 DEF TypeOK, PcValues, Locks!MutexTypeOK
<1>4. LocksOK'
  BY <1>1, <1>2 DEF TypeOK, Locks!MutexTypeOK, LocksOK, InsidePcs, Locks!MutualExclusion
<1>5. DecisionsOK'
  BY <1>1, <1>2 DEF TypeOK, DecisionsOK, Present
<1> QED BY <1>3, <1>4, <1>5

\* Ends that change no table: refusals and early ends.
LEMMA QuietEnd ==
    ASSUME IndInv, NEW c \in Conns, pc[c] # "idle", End(c), UNCHANGED <<rows, blobs, seq, sent, walk>>
    PROVE  IndInv'
<1>1. TypeOK'
  BY EndKeeps DEF IndInv, TypeOK
<1> QED BY <1>1, EndKeeps, TablesSame DEF IndInv

\* A POST asks for the lock of its path.
LEMMA PostIndInv ==
    ASSUME IndInv, NEW c \in Conns, PostPath(c)
    PROVE  IndInv'
<1>1. TypeOK /\ LocksOK /\ DecisionsOK /\ pc[c] = "idle"
  BY DEF IndInv, PostPath
<1>2. PICK b \in Bodies :
          /\ body' = [body EXCEPT ![c] = b] /\ want' = [want EXCEPT ![c] = b.path]
          /\ hold' = hold
  BY DEF PostPath, Locks!Request
<1>3. /\ pc' = [pc EXCEPT ![c] = "lock"] /\ UNCHANGED <<rows, blobs, seq, allocated, sent, walk>>
  BY DEF PostPath
<1>4. b \in Body /\ b.path \in Paths
  BY ConstantsAssumption DEF Body
<1>5. TypeOK'
  BY <1>1, <1>2, <1>3, <1>4 DEF TypeOK, PcValues, Locks!MutexTypeOK
<1>6. c \notin hold
  BY <1>1 DEF LocksOK, InsidePcs
<1>7. LocksOK'
  BY <1>1, <1>2, <1>3, <1>6
  DEF TypeOK, Locks!MutexTypeOK, LocksOK, InsidePcs, Locks!MutualExclusion
<1>8. DecisionsOK'
  BY <1>1, <1>2, <1>3 DEF TypeOK, DecisionsOK, Present
<1> QED BY <1>3, <1>5, <1>7, <1>8, TablesSame DEF IndInv

LEMMA LockIndInv ==
    ASSUME IndInv, NEW c \in Conns, LockPath(c)
    PROVE  IndInv'
<1>1. TypeOK /\ LocksOK /\ DecisionsOK
  BY DEF IndInv
<1>2. /\ pc[c] = "lock" /\ c \notin hold /\ \A u \in hold : want[u] # want[c]
      /\ hold' = hold \cup {c} /\ want' = want
      /\ pc' = [pc EXCEPT ![c] = "read"]
      /\ UNCHANGED <<body, allocated, rows, blobs, seq, sent, walk>>
  BY DEF LockPath, Goto, Locks!Acquire
<1>3. TypeOK'
  BY <1>1, <1>2 DEF TypeOK, PcValues, Locks!MutexTypeOK
<1>4. LocksOK'
  BY <1>1, <1>2 DEF TypeOK, Locks!MutexTypeOK, LocksOK, InsidePcs, Locks!MutualExclusion
<1>5. DecisionsOK'
  BY <1>1, <1>2 DEF TypeOK, DecisionsOK, Present
<1> QED BY <1>2, <1>3, <1>4, <1>5, TablesSame DEF IndInv

\* A decision in favour of the body.
LEMMA GoOnIndInv ==
    ASSUME IndInv, NEW c \in Conns, NEW l \in {"check", "commit"}, Goto(c, l),
           pc[c] \in {"read", "check"},
           Present(body[c].path) => Outranks(body[c], rows[body[c].path]),
           l = "check" => body[c].hash # 0,
           l = "commit" => (body[c].hash # 0 => body[c].hash \in blobs) /\ ~BadSvg(body[c]),
           UNCHANGED <<rows, blobs, seq, sent, walk, lockVars>>
    PROVE  IndInv'
<1>1. TypeOK /\ LocksOK /\ DecisionsOK
  BY DEF IndInv
<1>2. /\ pc' = [pc EXCEPT ![c] = l] /\ UNCHANGED <<body, allocated, want, hold>>
  BY DEF Goto, lockVars
<1>3. TypeOK'
  BY <1>1, <1>2 DEF TypeOK, PcValues, Locks!MutexTypeOK
<1>4. LocksOK'
  BY <1>1, <1>2 DEF TypeOK, LocksOK, InsidePcs, Locks!MutualExclusion
<1>5. DecisionsOK'
  BY <1>1, <1>2 DEF TypeOK, DecisionsOK, Present, BadSvg
<1> QED BY <1>3, <1>4, <1>5, TablesSame DEF IndInv

LEMMA ReadIndInv ==
    ASSUME IndInv, NEW c \in Conns, ReadPath(c)
    PROVE  IndInv'
<1>1. /\ LocksOK /\ pc[c] = "read" /\ UNCHANGED <<rows, blobs, seq, sent, walk>>
  BY DEF IndInv, ReadPath
<1>2. CASE End(c)
  BY <1>1, <1>2, QuietEnd
<1>3. CASE ~End(c)
  <2>1. /\ Present(body[c].path) => Outranks(body[c], rows[body[c].path])
        /\ Goto(c, IF body[c].hash = 0 THEN "commit" ELSE "check")
        /\ UNCHANGED lockVars
    BY <1>3 DEF ReadPath
  <2>2. body[c].hash = 0 => ~BadSvg(body[c])
    BY <1>1, ConstantsAssumption DEF LocksOK, BadSvg
  <2>3. CASE body[c].hash = 0
    BY <1>1, <2>1, <2>2, <2>3, GoOnIndInv
  <2>4. CASE body[c].hash # 0
    BY <1>1, <2>1, <2>4, GoOnIndInv
  <2> QED BY <2>3, <2>4
<1> QED BY <1>2, <1>3

LEMMA CheckIndInv ==
    ASSUME IndInv, NEW c \in Conns, CheckBlob(c)
    PROVE  IndInv'
<1>1. /\ pc[c] = "check" /\ UNCHANGED <<rows, blobs, seq, sent, walk>>
  BY DEF CheckBlob
<1>2. CASE End(c)
  BY <1>1, <1>2, QuietEnd
<1>3. CASE ~End(c)
  <2>1. body[c].hash \in blobs /\ ~BadSvg(body[c]) /\ Goto(c, "commit") /\ UNCHANGED lockVars
    BY <1>3 DEF CheckBlob
  <2>2. Present(body[c].path) => Outranks(body[c], rows[body[c].path])
    BY <1>1 DEF IndInv, DecisionsOK
  <2> QED BY <1>1, <2>1, <2>2, GoOnIndInv
<1> QED BY <1>2, <1>3

\* The commit: its row lies beyond every row and every fence.
LEMMA CommitIndInv ==
    ASSUME IndInv, NEW c \in Conns, CommitPath(c)
    PROVE  IndInv'
<1>1. TypeOK /\ LocksOK /\ DecisionsOK /\ SeqsOK /\ WalksOK /\ WalkComplete /\ NamesStoredBlob /\ EventAfterCommit
  BY DEF IndInv
<1>2. PICK p : p = body[c].path
  OBVIOUS
<1>3. /\ pc[c] = "commit" /\ seq < MaxSeq /\ seq' = seq + 1
      /\ rows' = [rows EXCEPT ![p] = RowOf(body[c], seq + 1)]
      /\ allocated' = [allocated EXCEPT ![c] = seq + 1]
      /\ pc' = [pc EXCEPT ![c] = "notify"]
      /\ UNCHANGED <<blobs, body, sent, walk, want, hold>>
  BY <1>2 DEF CommitPath, lockVars
<1>4. body[c] \in Body /\ body[c] \in Bodies /\ p \in Paths
  BY <1>1, <1>2, <1>3, ConstantsAssumption DEF LocksOK, Body
<1>5. seq \in Nat /\ \A q \in Paths : rows[q].seq \in Nat /\ rows[q].seq <= seq
  BY <1>1 DEF TypeOK, PathRow
<1>6. RowOf(body[c], seq + 1) \in PathRow
  BY <1>4, <1>5 DEF RowOf, Body, PathRow
<1>7. /\ rows'[p] = RowOf(body[c], seq + 1)
      /\ \A q \in Paths \ {p} : rows'[q] = rows[q]
  BY <1>1, <1>3, <1>4 DEF TypeOK
<1>8. rows'[p].seq = seq + 1
  BY <1>7 DEF RowOf
<1>9. TypeOK'
  <2>1. rows' \in [Paths -> PathRow]
    BY <1>1, <1>3, <1>6 DEF TypeOK
  <2>2. seq' \in 0..MaxSeq /\ \A q \in Paths : rows'[q].seq <= seq'
    BY <1>1, <1>3, <1>5, <1>7, <1>8, ConstantsAssumption DEF TypeOK
  <2>3. allocated' \in [Conns -> Nat] /\ pc' \in [Conns -> PcValues]
    BY <1>1, <1>3, <1>5 DEF TypeOK, PcValues
  <2> QED BY <1>1, <1>3, <2>1, <2>2, <2>3 DEF TypeOK, Locks!MutexTypeOK
<1>10. LocksOK'
  BY <1>1, <1>3 DEF TypeOK, LocksOK, InsidePcs, Locks!MutualExclusion
<1>11. \A e \in Conns \ {c} : pc[e] \in InsidePcs => body[e].path # p
  BY <1>1, <1>2, <1>3 DEF LocksOK, InsidePcs, Locks!MutualExclusion
<1>12. DecisionsOK'
  <2>1. ASSUME NEW e \in Conns \ {c}, pc[e] \in InsidePcs
        PROVE  rows'[body[e].path] = rows[body[e].path] /\ allocated'[e] = allocated[e]
    <3>1. body[e].path \in Paths
      BY <1>1, <2>1, ConstantsAssumption DEF LocksOK, InsidePcs, Body
    <3> QED BY <1>1, <1>3, <1>7, <1>11, <2>1, <3>1 DEF TypeOK
  <2>2. \A e \in Conns \ {c} : pc'[e] = pc[e]
    BY <1>1, <1>3 DEF TypeOK
  <2>3. pc'[c] = "notify" /\ rows'[body[c].path].seq >= allocated'[c]
    BY <1>1, <1>2, <1>3, <1>5, <1>8 DEF TypeOK
  <2> QED BY <1>1, <1>3, <2>1, <2>2, <2>3 DEF DecisionsOK, InsidePcs, Present, BadSvg
<1>13. SeqsOK'
  BY <1>1, <1>5, <1>7, <1>8 DEF SeqsOK, Present
<1>14. \A q \in Paths : rows'[q].seq <= seq => q # p
  BY <1>5, <1>8
<1>15. ASSUME NEW r \in Readers
       PROVE  /\ walk[r].fence \in Nat /\ walk[r].cursor \in Nat
              /\ walk[r].fence <= seq /\ walk[r].cursor <= seq
  BY <1>1, <1>5 DEF TypeOK, Walk, WalksOK, WalkOK
<1>16. WalksOK'
  BY <1>1, <1>3, <1>5, <1>7, <1>8, <1>15 DEF WalksOK, WalkOK, After
<1>17. WalkComplete'
  BY <1>1, <1>3, <1>5, <1>7, <1>8, <1>15 DEF WalkComplete, After
<1>18. NamesStoredBlob'
  <2>1. /\ rows'[p].hash = body[c].hash /\ rows'[p].state = body[c].state
        /\ body[c].hash # 0 => body[c].hash \in blobs
        /\ body[c].state = "live" /\ p \in SvgPaths => body[c].hash \notin Unsanitized
    BY <1>1, <1>2, <1>3, <1>7 DEF RowOf, DecisionsOK, BadSvg
  <2> QED BY <1>1, <1>3, <1>7, <2>1 DEF NamesStoredBlob, After
<1>19. EventAfterCommit'
  <2>1. ASSUME NEW e \in sent PROVE rows'[e.path].seq >= e.seq
    <3>1. e.path \in Paths /\ e.seq \in Nat /\ rows[e.path].seq >= e.seq
      BY <1>1, <2>1 DEF TypeOK, Entry, EventAfterCommit
    <3> QED BY <1>5, <1>7, <1>8, <3>1
  <2> QED BY <1>3, <2>1 DEF EventAfterCommit
<1> QED BY <1>9, <1>10, <1>12, <1>13, <1>16, <1>17, <1>18, <1>19 DEF IndInv

LEMMA NotifyIndInv ==
    ASSUME IndInv, NEW c \in Conns, Notify(c)
    PROVE  IndInv'
<1>1. TypeOK /\ LocksOK /\ DecisionsOK /\ SeqsOK /\ WalksOK /\ WalkComplete /\ NamesStoredBlob /\ EventAfterCommit
  BY DEF IndInv
<1>2. PICK e : e = [path |-> body[c].path, seq |-> allocated[c]]
  OBVIOUS
<1>3. /\ pc[c] = "notify" /\ sent' = sent \cup {e} /\ End(c) /\ UNCHANGED <<rows, blobs, seq, walk>>
  BY <1>2 DEF Notify
<1>4. e \in Entry
  BY <1>1, <1>2, <1>3, ConstantsAssumption DEF LocksOK, Body, TypeOK, Entry
<1>5. TypeOK'
  BY <1>1, <1>3, <1>4, EndKeeps DEF TypeOK
<1>6. LocksOK' /\ DecisionsOK'
  BY <1>3, EndKeeps
<1>7. rows[e.path].seq >= e.seq
  BY <1>1, <1>2, <1>3 DEF DecisionsOK
<1>8. EventAfterCommit'
  BY <1>1, <1>3, <1>7 DEF EventAfterCommit
<1>9. After(0)' = After(0)
  BY <1>3 DEF After
<1>10. SeqsOK' /\ WalksOK' /\ WalkComplete' /\ NamesStoredBlob'
  BY <1>1, <1>3, <1>9 DEF SeqsOK, Present, WalksOK, WalkOK, WalkComplete, NamesStoredBlob
<1> QED BY <1>5, <1>6, <1>8, <1>10 DEF IndInv

LEMMA UploadIndInv ==
    ASSUME IndInv, NEW h \in Hashes, UploadBlob(h)
    PROVE  IndInv'
<1>1. TypeOK /\ LocksOK /\ DecisionsOK /\ SeqsOK /\ WalksOK /\ WalkComplete /\ NamesStoredBlob /\ EventAfterCommit
  BY DEF IndInv
<1>2. blobs' = blobs \cup {h} /\ UNCHANGED <<rows, seq, pc, body, allocated, want, hold, sent, walk>>
  BY DEF UploadBlob, postVars, lockVars
<1>3. TypeOK'
  BY <1>1, <1>2 DEF TypeOK, Locks!MutexTypeOK
<1>4. LocksOK'
  BY <1>1, <1>2 DEF LocksOK, Locks!MutualExclusion
<1>5. DecisionsOK' /\ SeqsOK'
  BY <1>1, <1>2 DEF DecisionsOK, SeqsOK, Present, BadSvg
<1>6. After(0)' = After(0)
  BY <1>2 DEF After
<1>7. WalksOK' /\ WalkComplete' /\ NamesStoredBlob' /\ EventAfterCommit'
  BY <1>1, <1>2, <1>6 DEF WalksOK, WalkOK, WalkComplete, NamesStoredBlob, EventAfterCommit
<1> QED BY <1>3, <1>4, <1>5, <1>7 DEF IndInv

\* A page of a walk.  What it leaves out lies beyond what it takes: rows come
\* in the order of their numbers, and no two have the same.
LEMMA PageIndInv ==
    ASSUME IndInv, NEW r \in Readers, ListPage(r)
    PROVE  IndInv'
<1>1. TypeOK /\ LocksOK /\ DecisionsOK /\ SeqsOK /\ WalksOK /\ WalkComplete /\ NamesStoredBlob /\ EventAfterCommit
  BY DEF IndInv
<1>2. PICK w : w = walk[r]
  OBVIOUS
<1>3. PICK page \in SUBSET Paths, max \in 0..MaxSeq, cursor \in 0..MaxSeq :
          /\ IsPage(page, w.cursor) /\ IsMaxSeq(max)
          /\ IsCursor(cursor, w, Taken(page, Fence(w, max)))
          /\ walk' = [walk EXCEPT ![r] = Walked(w, page, Fence(w, max), cursor)]
  BY <1>2 DEF ListPage
<1> DEFINE fence == Fence(w, max)
           taken == Taken(page, fence)
           applied == w.applied \cup {[path |-> p, seq |-> rows[p].seq] : p \in taken}
<1>4. /\ taken = {p \in page : rows[p].seq <= fence}
      /\ \A p \in taken : rows[p].seq <= cursor
      /\ taken = {} => cursor = w.cursor
      /\ taken # {} => \E p \in taken : rows[p].seq = cursor
  BY <1>3 DEF IsCursor, Taken
<1>5. UNCHANGED <<rows, blobs, seq, pc, body, allocated, want, hold, sent>>
  BY DEF ListPage, postVars, lockVars
<1>6. w \in Walk /\ seq \in Nat /\ \A p \in Paths : rows[p].seq \in Nat /\ rows[p].seq <= seq
  BY <1>1, <1>2 DEF TypeOK, PathRow
<1>7. /\ w.phase = "idle" => w.cursor = 0
      /\ w.fence <= seq /\ w.cursor <= w.fence
      /\ \A p \in After(0) : rows[p].seq <= w.cursor => [path |-> p, seq |-> rows[p].seq] \in w.applied
  BY <1>1, <1>2 DEF WalksOK, WalkOK
<1>8. max \in Nat /\ max <= seq
  BY <1>3, <1>6 DEF IsMaxSeq
<1>9. w.cursor \in Nat /\ fence \in Nat /\ fence <= seq /\ w.cursor <= fence
  BY <1>6, <1>7, <1>8 DEF Walk, Fence
<1>10. cursor \in Nat /\ cursor <= fence
  BY <1>4, <1>9
<1>11. applied \in SUBSET Entry
  <2>1. taken \subseteq Paths
    BY <1>4
  <2>2. w.applied \in SUBSET Entry
    BY <1>6 DEF Walk
  <2> QED BY <1>6, <2>1, <2>2 DEF Entry
<1> HIDE DEF fence, taken, applied
<1>12. /\ walk'[r] = [phase |-> IF Stops(page, fence, cursor) THEN "done" ELSE "walking",
                      cursor |-> cursor, fence |-> fence, applied |-> applied]
       /\ \A s \in Readers \ {r} : walk'[s] = walk[s]
       /\ walk' \in [Readers -> Walk]
  BY <1>1, <1>3, <1>9, <1>10, <1>11 DEF TypeOK, Walk, Walked, fence, taken, applied
<1>13. TypeOK' /\ LocksOK' /\ DecisionsOK' /\ SeqsOK' /\ NamesStoredBlob' /\ EventAfterCommit'
  <2>1. TypeOK'
    BY <1>1, <1>5, <1>12 DEF TypeOK, Locks!MutexTypeOK
  <2>2. LocksOK'
    BY <1>1, <1>5 DEF LocksOK, Locks!MutualExclusion
  <2>3. DecisionsOK' /\ SeqsOK'
    BY <1>1, <1>5 DEF DecisionsOK, SeqsOK, Present, BadSvg
  <2>4. After(0)' = After(0)
    BY <1>5 DEF After
  <2>5. NamesStoredBlob' /\ EventAfterCommit'
    BY <1>1, <1>5, <2>4 DEF NamesStoredBlob, EventAfterCommit
  <2> QED BY <2>1, <2>2, <2>3, <2>5
<1>14. ASSUME NEW p \in After(w.cursor), NEW q \in page, rows[p].seq <= rows[q].seq
       PROVE  p \in page
  <2>1. p \in Paths /\ q \in Paths /\ q \in After(w.cursor)
    BY <1>3, <1>14 DEF IsPage, After
  <2>2. CASE rows[p].seq = rows[q].seq
    <3>1. Present(p)
      BY <1>6, <1>9, <1>14, <2>1 DEF After, Present
    <3> QED BY <1>1, <1>14, <2>1, <2>2, <3>1 DEF SeqsOK
  <2>3. CASE rows[p].seq < rows[q].seq
    BY <1>3, <1>14, <2>1, <2>3 DEF IsPage
  <2> QED BY <1>6, <1>14, <2>1, <2>2, <2>3
<1>15. \A p \in After(w.cursor) : rows[p].seq <= cursor => p \in taken
  <2> SUFFICES ASSUME NEW p \in After(w.cursor), rows[p].seq <= cursor
               PROVE  p \in taken
    OBVIOUS
  <2>1. p \in Paths /\ rows[p].seq > w.cursor
    BY DEF After
  <2>2. taken # {}
    BY <1>4, <1>6, <1>9, <1>10, <2>1
  <2>3. PICK q \in taken : rows[q].seq = cursor
    BY <1>4, <2>2
  <2>4. p \in page
    BY <1>4, <1>10, <1>14, <2>3
  <2> QED BY <1>4, <1>6, <1>9, <1>10, <2>1, <2>4
<1>16. \A p \in After(w.cursor) : rows[p].seq <= fence /\ Stops(page, fence, cursor) => p \in taken
  <2> SUFFICES ASSUME NEW p \in After(w.cursor), rows[p].seq <= fence, Stops(page, fence, cursor)
               PROVE  p \in taken
    OBVIOUS
  <2>1. CASE taken # page
    <3>1. PICK q \in page : ~(rows[q].seq <= fence)
      BY <1>4, <2>1
    <3>2. p \in Paths /\ q \in Paths
      BY <3>1 DEF After
    <3>3. rows[p].seq <= rows[q].seq
      BY <1>6, <1>9, <3>1, <3>2
    <3>4. p \in page
      BY <1>14, <3>1, <3>3
    <3> QED BY <1>4, <3>4
  <2>2. CASE Cardinality(page) < Limit
    <3>1. page = After(w.cursor)
      BY <1>3, <2>2, ConstantsAssumption DEF IsPage
    <3> QED BY <1>4, <3>1
  <2>3. CASE cursor = fence
    BY <1>15, <2>3
  <2> QED BY <2>1, <2>2, <2>3 DEF Stops, taken
<1>17. \A p \in taken : [path |-> p, seq |-> rows[p].seq] \in applied
  BY DEF applied
<1>18. \A p \in After(0) : p \in After(w.cursor) \/ [path |-> p, seq |-> rows[p].seq] \in applied
  BY <1>6, <1>7, <1>9 DEF After, applied
<1>19. After(0)' = After(0)
  BY <1>5 DEF After
<1>20. WalksOK'
  <2>1. WalkOK(r)'
    BY <1>5, <1>9, <1>10, <1>12, <1>15, <1>17, <1>18, <1>19 DEF WalkOK
  <2>2. \A s \in Readers \ {r} : WalkOK(s)'
    BY <1>1, <1>5, <1>12, <1>19 DEF WalksOK, WalkOK
  <2> QED BY <2>1, <2>2 DEF WalksOK
<1>21. WalkComplete'
  <2>1. ASSUME NEW s \in Readers, walk'[s].phase = "done", NEW p \in After(0),
               rows[p].seq <= walk'[s].fence
        PROVE  [path |-> p, seq |-> rows[p].seq] \in walk'[s].applied
    <3>1. CASE s = r
      BY <1>12, <1>16, <1>17, <1>18, <2>1, <3>1
    <3>2. CASE s # r
      BY <1>1, <1>12, <2>1, <3>2 DEF WalkComplete
    <3> QED BY <3>1, <3>2
  <2> QED BY <1>5, <1>19, <2>1 DEF WalkComplete
<1> QED BY <1>13, <1>20, <1>21 DEF IndInv

LEMMA EndWalkIndInv ==
    ASSUME IndInv, NEW r \in Readers, EndWalk(r)
    PROVE  IndInv'
<1>1. TypeOK /\ LocksOK /\ DecisionsOK /\ SeqsOK /\ WalksOK /\ WalkComplete /\ NamesStoredBlob /\ EventAfterCommit
  BY DEF IndInv
<1>2. /\ walk' = [walk EXCEPT ![r] = NoWalk]
      /\ UNCHANGED <<rows, blobs, seq, pc, body, allocated, want, hold, sent>>
  BY DEF EndWalk, postVars, lockVars
<1>3. NoWalk \in Walk
  BY DEF NoWalk, Walk
<1>4. TypeOK'
  BY <1>1, <1>2, <1>3 DEF TypeOK, Locks!MutexTypeOK
<1>5. LocksOK'
  BY <1>1, <1>2 DEF LocksOK, Locks!MutualExclusion
<1>6. DecisionsOK' /\ SeqsOK'
  BY <1>1, <1>2 DEF DecisionsOK, SeqsOK, Present, BadSvg
<1>7. After(0)' = After(0)
  BY <1>2 DEF After
<1>8. NamesStoredBlob' /\ EventAfterCommit'
  BY <1>1, <1>2, <1>7 DEF NamesStoredBlob, EventAfterCommit
<1>9. /\ walk'[r] = NoWalk
      /\ \A s \in Readers \ {r} : walk'[s] = walk[s]
  BY <1>1, <1>2 DEF TypeOK
<1>10. seq \in Nat /\ \A p \in After(0) : rows[p].seq \in Nat /\ rows[p].seq > 0
  BY <1>1 DEF TypeOK, PathRow, After
<1>11. WalksOK'
  <2>1. WalkOK(r)'
    BY <1>2, <1>7, <1>9, <1>10 DEF WalkOK, NoWalk
  <2>2. \A s \in Readers \ {r} : WalkOK(s)'
    BY <1>1, <1>2, <1>7, <1>9 DEF WalksOK, WalkOK
  <2> QED BY <2>1, <2>2 DEF WalksOK
<1>12. WalkComplete'
  BY <1>1, <1>2, <1>7, <1>9 DEF WalkComplete, NoWalk
<1> QED BY <1>4, <1>5, <1>6, <1>8, <1>11, <1>12 DEF IndInv

LEMMA NextIndInv ==
    ASSUME IndInv, [Next]_vars
    PROVE  IndInv'
<1>1. ASSUME NEW c \in Conns, PostPath(c) PROVE IndInv'
  BY <1>1, PostIndInv
<1>2. ASSUME NEW c \in Conns, LockPath(c) PROVE IndInv'
  BY <1>2, LockIndInv
<1>3. ASSUME NEW c \in Conns, ReadPath(c) PROVE IndInv'
  BY <1>3, ReadIndInv
<1>4. ASSUME NEW c \in Conns, CheckBlob(c) PROVE IndInv'
  BY <1>4, CheckIndInv
<1>5. ASSUME NEW c \in Conns, CommitPath(c) PROVE IndInv'
  BY <1>5, CommitIndInv
<1>6. ASSUME NEW c \in Conns, Notify(c) PROVE IndInv'
  BY <1>6, NotifyIndInv
<1>7. ASSUME NEW c \in Conns, AbortPost(c) PROVE IndInv'
  BY <1>7, QuietEnd DEF AbortPost
<1>8. ASSUME NEW h \in Hashes, UploadBlob(h) PROVE IndInv'
  BY <1>8, UploadIndInv
<1>9. ASSUME NEW r \in Readers, ListPage(r) PROVE IndInv'
  BY <1>9, PageIndInv
<1>10. ASSUME NEW r \in Readers, EndWalk(r) PROVE IndInv'
  BY <1>10, EndWalkIndInv
<1>11. CASE UNCHANGED vars
  BY <1>11
  DEF vars, postVars, lockVars, IndInv, TypeOK, Locks!MutexTypeOK, LocksOK, Locks!MutualExclusion,
      DecisionsOK, SeqsOK, WalksOK, WalkOK, WalkComplete, NamesStoredBlob, EventAfterCommit,
      Present, BadSvg, After
<1> QED
  BY <1>1, <1>2, <1>3, <1>4, <1>5, <1>6, <1>7, <1>8, <1>9, <1>10, <1>11 DEF Next

\* The inductive invariant: decisions made under a path's lock stay valid
\* until they are written, and nothing is ever written at or below a fence.
THEOREM PathsInvariant == Spec => []IndInv
<1>1. Init => IndInv
  BY InitIndInv
<1>2. IndInv /\ [Next]_vars => IndInv'
  BY NextIndInv
<1> QED BY <1>1, <1>2, PTL DEF Spec

\* Every table, lock and walk keeps its type, and no row is numbered beyond
\* the counter.
THEOREM PathsTypeCorrect == Spec => []TypeOK
<1>1. IndInv => TypeOK
  BY DEF IndInv
<1> QED BY <1>1, PathsInvariant, PTL

\* The fence of list_blob_paths: a walk that is done has missed no row that
\* is current and not beyond its fence.
THEOREM PathsWalkComplete == Spec => []WalkComplete
<1>1. IndInv => WalkComplete
  BY DEF IndInv
<1> QED BY <1>1, PathsInvariant, PTL

\* post_blob_path never lets a row name content that is not stored, nor a
\* live SVG that is not sanitized.
THEOREM PathsNamesStoredBlob == Spec => []NamesStoredBlob
<1>1. IndInv => NamesStoredBlob
  BY DEF IndInv
<1> QED BY <1>1, PathsInvariant, PTL

\* No event of post_blob_path is ahead of the table it announces.
THEOREM PathsEventAfterCommit == Spec => []EventAfterCommit
<1>1. IndInv => EventAfterCommit
  BY DEF IndInv
<1> QED BY <1>1, PathsInvariant, PTL

\* A row gives way only to a transition that outranks it.
LEMMA StepOutranks ==
    ASSUME IndInv, [Next]_vars, NEW p \in Paths, Present(p), rows'[p] # rows[p]
    PROVE  Outranks(rows'[p], rows[p])
<1>1. PICK c \in Conns : CommitPath(c)
  BY DEF Next, vars, PostPath, LockPath, ReadPath, CheckBlob, Notify, AbortPost, UploadBlob,
         ListPage, EndWalk
<1>2. TypeOK /\ DecisionsOK /\ pc[c] = "commit" /\ rows' = [rows EXCEPT ![body[c].path] = RowOf(body[c], seq + 1)]
  BY <1>1 DEF IndInv, CommitPath
<1>3. p = body[c].path /\ rows'[p] = RowOf(body[c], seq + 1)
  BY <1>2 DEF TypeOK
<1>4. Outranks(body[c], rows[p])
  BY <1>2, <1>3 DEF DecisionsOK
<1> QED BY <1>3, <1>4 DEF Outranks, RowOf

\* Last writer wins for every interleaving of posts to a path.
THEOREM PathsLastWriterWins == Spec => LastWriterWins
<1>1. IndInv /\ [Next]_vars =>
          [\A p \in Paths : Present(p) /\ rows'[p] # rows[p] => Outranks(rows'[p], rows[p])]_vars
  BY StepOutranks
<1> QED BY <1>1, PathsInvariant, PTL DEF Spec, LastWriterWins
=============================================================================

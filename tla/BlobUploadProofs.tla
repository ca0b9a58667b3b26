-------------------------- MODULE BlobUploadProofs --------------------------
(***************************************************************************)
(* BlobUpload for any number of requests, uploads, hashes and segments.    *)
(*                                                                         *)
(* Ids and locks: an upload id belongs to one create until its row exists, *)
(* and all PUTs on one upload ask for the same hash, so the lock of the    *)
(* hash orders them (IdsOK, LocksOK).  Rows: between its check of the row  *)
(* and its UPDATE a PUT is the only one to move the offset, and an upload  *)
(* is thrown away only when it has expired or is complete (RowsOK).        *)
(* Files: what was hashed is what is renamed, and a file is removed again  *)
(* only where no row names it (FilesOK).  Staging: the bytes are on disk   *)
(* before they are counted (StagedOK).                                     *)
(***************************************************************************)
EXTENDS BlobUpload, TLAPS

\* A create that has its id but not its row.
FreshPcs == {"stage", "insert"}
\* A PUT inside the lock, and one that waits for it.
LockedPcs == {"row", "write", "update", "verify", "find", "move", "record", "undo", "close"}
PutPcs == {"lock"} \cup LockedPcs
DiscardPcs == {"discard_row", "discard_file"}

\* Ids are handed out before they are used.
IdsOK ==
    /\ \A u \in Uploads : Open(u) => u \in used /\ uploads[u].hash \in Hashes
    /\ todo \subseteq used
    /\ \A p \in Procs : job[p].upload \in used \cup {NoUpload}
    /\ \A p \in Procs : pc[p] \in FreshPcs \cup PutPcs \cup DiscardPcs => job[p].upload \in Uploads
    /\ \A c \in Conns : pc[c] \in {"admit"} \cup FreshPcs => job[c].hash \in Hashes
    /\ \A c \in Conns : pc[c] # "sweep"
    /\ pc[Sweeper] \in {"idle", "sweep"} \cup DiscardPcs

\* The id of a create is known to nobody else: no request, no list, no row.
FreshOK ==
    \A c \in Conns : pc[c] \in FreshPcs =>
        /\ ~Open(job[c].upload) /\ job[c].upload \notin todo
        /\ \A p \in Procs \ {c} : job[p].upload # job[c].upload

\* Two PUTs on one upload ask for the same hash, that of its row.
LocksOK ==
    /\ \A c \in hold : want[c] # NoHash
    /\ \A c \in Conns : pc[c] \in PutPcs => want[c] # NoHash
    /\ \A c \in Conns : pc[c] \in LockedPcs => c \in hold
    /\ \A c \in Conns : pc[c] \in LockedPcs \ {"row"} => job[c].hash = want[c]
    /\ \A c \in Conns : pc[c] \in PutPcs /\ Open(job[c].upload) =>
          want[c] = uploads[job[c].upload].hash
    /\ \A c, d \in Conns : pc[c] \in PutPcs /\ pc[d] \in PutPcs /\ job[c].upload = job[d].upload =>
          want[c] = want[d]
    /\ Locks!MutualExclusion

\* Nothing that is still to come is lost with u.
Spent(u) == Open(u) => uploads[u].expired \/ uploads[u].received = uploads[u].size

\* While a PUT writes, its row is as it read it; afterwards it is complete.
RowsOK ==
    /\ \A c \in Conns : pc[c] \in {"lock", "row", "write", "update"} => job[c].bytes # <<>>
    /\ \A c \in Conns : pc[c] \in {"write", "update"} /\ Open(job[c].upload) => Acceptable(c)
    /\ \A c \in Conns : pc[c] \in LockedPcs \ {"row", "write", "update"} => Spent(job[c].upload)
    /\ \A p \in Procs : pc[p] \in DiscardPcs => Spent(job[p].upload)
    /\ \A u \in todo : Spent(u)

\* The file that was hashed stays until it is renamed, and what the request
\* found at the destination stays so.
FilesOK ==
    /\ \A c \in Conns : pc[c] \in {"find", "move"} =>
          tmp[job[c].upload] = NoFile \/ HasHash(tmp[job[c].upload], job[c].hash)
    /\ \A c \in Conns : pc[c] \in {"move", "record", "undo"} =>
          IF job[c].destExisted THEN files[job[c].hash] # NoFile ELSE job[c].hash \notin blobs
    /\ \A c \in Conns : pc[c] = "record" => files[job[c].hash] # NoFile
    /\ BlobSound

StagedOK ==
    /\ \A c \in Conns : pc[c] = "insert" => tmp[job[c].upload] # NoFile
    /\ \A c \in Conns : pc[c] = "update" /\ job[c].upload \in Current =>
          tmp[job[c].upload] # NoFile /\ Len(tmp[job[c].upload]) >= NextOffset(c)
    /\ ResumeSafe

IndInv == TypeOK /\ IdsOK /\ FreshOK /\ LocksOK /\ RowsOK /\ FilesOK /\ StagedOK

-----------------------------------------------------------------------------
LEMMA InitIndInv == Init => IndInv
<1> SUFFICES ASSUME Init PROVE IndInv
  OBVIOUS
<1> USE ConstantsAssumption
<1>1. TypeOK
  BY DEF Init, TypeOK, UploadRow, NoRow, Job, NoJob, Files, PcValues, Procs,
         Locks!MutexInit, Locks!MutexTypeOK
<1>2. IdsOK
  BY DEF Init, IdsOK, Open, NoRow, NoJob, FreshPcs, PutPcs, LockedPcs, DiscardPcs, Procs
<1>3. FreshOK /\ LocksOK
  BY DEF Init, FreshOK, FreshPcs, LocksOK, Open, PutPcs, LockedPcs, Procs, Locks!MutexInit, Locks!MutualExclusion
<1>4. RowsOK
  BY DEF Init, RowsOK, DiscardPcs, LockedPcs, Procs
<1>5. FilesOK
  BY DEF Init, FilesOK, BlobSound, Procs
<1>6. StagedOK
  BY DEF Init, StagedOK, ResumeSafe, Current, Open, NoRow, Procs
<1> QED BY <1>1, <1>2, <1>3, <1>4, <1>5, <1>6 DEF IndInv

-----------------------------------------------------------------------------
(* The steps of a request.                                                 *)

\* The types of the requests' state.
RequestTypeOK ==
    /\ pc \in [Procs -> PcValues] /\ job \in [Procs -> Job] /\ Locks!MutexTypeOK

\* Only p moves: to l, with the locals j.
Moves(p, l, j) ==
    /\ pc'[p] = l /\ job'[p] = j
    /\ \A q \in Procs \ {p} : pc'[q] = pc[q] /\ job'[q] = job[q]
    /\ \A c \in Conns \ {p} : want'[c] = want[c] /\ (c \in hold' <=> c \in hold)

LEMMA GotoMoves ==
    ASSUME TypeOK, NEW p \in Procs, NEW l \in PcValues, NEW j \in Job, Goto(p, l, j),
           UNCHANGED lockVars
    PROVE  RequestTypeOK' /\ Moves(p, l, j)
BY DEF TypeOK, Goto, RequestTypeOK, Moves, lockVars, Locks!MutexTypeOK

\* A request that ends has let go of its lock.
LEMMA EndMoves ==
    ASSUME TypeOK, LocksOK, NEW p \in Procs, End(p)
    PROVE  /\ RequestTypeOK' /\ Moves(p, "idle", NoJob)
           /\ p \notin hold'
<1>1. NoJob \in Job /\ "idle" \in PcValues
  BY DEF NoJob, Job, PcValues, Files
<1>2. pc' = [pc EXCEPT ![p] = "idle"] /\ job' = [job EXCEPT ![p] = NoJob]
  BY DEF End, Goto
<1>3. CASE p \in Conns /\ want[p] # NoHash
  <2>1. want' = [want EXCEPT ![p] = NoHash] /\ hold' = hold \ {p}
    BY <1>3 DEF End, Locks!Release
  <2> QED BY <1>1, <1>2, <1>3, <2>1 DEF TypeOK, RequestTypeOK, Moves, Locks!MutexTypeOK
<1>4. CASE ~(p \in Conns /\ want[p] # NoHash)
  <2>1. UNCHANGED <<want, hold>>
    BY <1>4 DEF End, lockVars
  <2>2. p \notin hold
    BY <1>4 DEF LocksOK, TypeOK, Locks!MutexTypeOK
  <2> QED BY <1>1, <1>2, <2>1, <2>2 DEF TypeOK, RequestTypeOK, Moves, Locks!MutexTypeOK
<1> QED BY <1>3, <1>4

LEMMA EmptyFile == <<>> \in Files /\ <<>> # NoFile
<1>1. <<>> \in Files
  BY DEF Files
<1> QED BY <1>1, ConstantsAssumption

\* A request that leaves put_upload, or never was in it, and keeps or drops
\* its lock, while no row gets another hash.
LEMMA LocksLeft ==
    ASSUME TypeOK, LocksOK, RequestTypeOK', NEW p \in Procs, NEW l, NEW j, Moves(p, l, j),
           l \notin PutPcs,
           p \in hold' => p \in hold /\ want'[p] = want[p],
           \A d \in Conns \ {p} : pc[d] \in PutPcs /\ uploads'[job[d].upload].size # 0 =>
               Open(job[d].upload) /\ uploads'[job[d].upload].hash = uploads[job[d].upload].hash
    PROVE  LocksOK'
<1>1. hold' \subseteq hold /\ \A d \in hold' : want'[d] = want[d]
  BY DEF TypeOK, RequestTypeOK, Moves, Locks!MutexTypeOK
<1>2. \A d \in Conns : pc'[d] \in PutPcs =>
          /\ d # p /\ pc'[d] = pc[d] /\ job'[d] = job[d] /\ want'[d] = want[d]
          /\ d \in hold => d \in hold'
  BY DEF Moves, Procs
<1>3. Locks!MutualExclusion'
  BY <1>1 DEF LocksOK, Locks!MutualExclusion
<1>4. \A c \in Conns : pc'[c] \in PutPcs /\ uploads'[job'[c].upload].size # 0 =>
          want'[c] = uploads'[job'[c].upload].hash
  BY <1>2 DEF LocksOK, Open
<1>5. \A c \in Conns : pc'[c] \in LockedPcs => c \in hold'
  BY <1>2 DEF LocksOK, PutPcs
<1>6. \A c \in Conns : pc'[c] \in LockedPcs \ {"row"} => job'[c].hash = want'[c]
  BY <1>2 DEF LocksOK, PutPcs
<1>7. \A c, d \in Conns :
          pc'[c] \in PutPcs /\ pc'[d] \in PutPcs /\ job'[c].upload = job'[d].upload =>
          want'[c] = want'[d]
  BY <1>2 DEF LocksOK
<1> QED BY <1>1, <1>2, <1>3, <1>4, <1>5, <1>6, <1>7 DEF LocksOK, Open

\* A PUT that goes on inside its lock.
LEMMA LocksStay ==
    ASSUME TypeOK, LocksOK, RequestTypeOK', NEW c \in Conns, NEW l, NEW j, Moves(c, l, j),
           pc[c] \in LockedPcs \ {"row"}, l \in LockedPcs \ {"row"},
           j.upload = job[c].upload, j.hash = job[c].hash,
           UNCHANGED <<want, hold>>,
           \A d \in Conns : pc[d] \in PutPcs /\ uploads'[job[d].upload].size # 0 =>
               Open(job[d].upload) /\ uploads'[job[d].upload].hash = uploads[job[d].upload].hash
    PROVE  LocksOK'
<1>1. \A d \in Conns : pc'[d] \in PutPcs => pc[d] \in PutPcs /\ job'[d].upload = job[d].upload
  BY DEF Moves, Procs, PutPcs
<1>2. \A d \in Conns : pc'[d] \in LockedPcs => pc[d] \in LockedPcs
  BY DEF Moves, Procs
<1>3. \A d \in Conns : pc'[d] \in LockedPcs \ {"row"} =>
          pc[d] \in LockedPcs \ {"row"} /\ job'[d].hash = job[d].hash
  BY DEF Moves, Procs
<1>4. Locks!MutualExclusion'
  BY DEF LocksOK, Locks!MutualExclusion
<1>5. \A d \in Conns : pc'[d] \in PutPcs /\ uploads'[job'[d].upload].size # 0 =>
          want'[d] = uploads'[job'[d].upload].hash
  BY <1>1 DEF LocksOK, Open
<1> QED BY <1>1, <1>2, <1>3, <1>4, <1>5 DEF LocksOK, Open

\* Nobody else gets hold of the id of a create.
LEMMA FreshKept ==
    ASSUME TypeOK, IdsOK, FreshOK, NEW p \in Procs, NEW l, NEW j, Moves(p, l, j),
           \/ l \notin FreshPcs
           \/ p \in Conns /\ pc[p] \in FreshPcs /\ j.upload = job[p].upload,
           j.upload \in {job[p].upload, NoUpload} \/ Open(j.upload) \/ j.upload \in todo,
           \A u \in todo' : u \in todo \/ Open(u),
           \A u \in Uploads : Open(u)' => Open(u) \/ (u = job[p].upload /\ l \notin FreshPcs)
    PROVE  FreshOK'
<1> SUFFICES ASSUME NEW c \in Conns, pc'[c] \in FreshPcs
             PROVE  /\ uploads'[job'[c].upload].size = 0 /\ job'[c].upload \notin todo'
                    /\ \A q \in Procs \ {c} : job'[q].upload # job'[c].upload
  BY DEF FreshOK, Open
<1>1. pc[c] \in FreshPcs /\ job'[c].upload = job[c].upload
  BY DEF Moves, Procs
<1>2. /\ job[c].upload \in Uploads /\ ~Open(job[c].upload) /\ job[c].upload \notin todo
      /\ \A q \in Procs \ {c} : job[q].upload # job[c].upload
  BY <1>1 DEF FreshOK, IdsOK, Procs
<1>3. \A q \in Procs \ {c} : job'[q].upload # job'[c].upload
  BY <1>1, <1>2, ConstantsAssumption DEF Moves
<1>4. uploads'[job'[c].upload].size = 0
  BY <1>1, <1>2 DEF Moves, Open
<1> QED BY <1>1, <1>2, <1>3, <1>4

\* The row of u stays, ages or goes.
Calm(u) ==
    uploads'[u].size # 0 =>
        /\ uploads'[u].size = uploads[u].size /\ uploads'[u].received = uploads[u].received
        /\ uploads'[u].hash = uploads[u].hash /\ (uploads[u].expired => uploads'[u].expired)

\* A step of p that lets the rows of the others alone.
LEMMA RowsKept ==
    ASSUME IdsOK, RowsOK, NEW p \in Procs, NEW l, NEW j, Moves(p, l, j),
           \A u \in todo' : u \in todo \/ uploads'[u].expired,
           \A u \in todo : Calm(u),
           \A q \in Procs \ {p} : job[q].upload \in Uploads => Calm(job[q].upload),
           l \in {"lock", "row", "write", "update"} => j.bytes # <<>>,
           l \in {"write", "update"} /\ uploads'[j.upload].size # 0 =>
               /\ j.size = uploads'[j.upload].size /\ j.at = uploads'[j.upload].received
               /\ j.at + Len(j.bytes) <= uploads'[j.upload].size,
           l \in DiscardPcs \cup (LockedPcs \ {"row", "write", "update"}) /\ uploads'[j.upload].size # 0 =>
               uploads'[j.upload].expired \/ uploads'[j.upload].received = uploads'[j.upload].size
    PROVE  RowsOK'
<1>1. \A c \in Conns : pc'[c] \in {"lock", "row", "write", "update"} => job'[c].bytes # <<>>
  BY DEF Moves, RowsOK, Procs
<1>2. \A c \in Conns : pc'[c] \in {"write", "update"} /\ uploads'[job'[c].upload].size # 0 =>
          /\ job'[c].size = uploads'[job'[c].upload].size
          /\ job'[c].at = uploads'[job'[c].upload].received
          /\ job'[c].at + Len(job'[c].bytes) <= uploads'[job'[c].upload].size
  BY DEF Moves, RowsOK, Calm, Acceptable, NextOffset, Open, IdsOK, PutPcs, LockedPcs, Procs
<1>3. \A c \in Procs : /\ pc'[c] \in DiscardPcs \cup (LockedPcs \ {"row", "write", "update"})
                       /\ uploads'[job'[c].upload].size # 0
          => \/ uploads'[job'[c].upload].expired
             \/ uploads'[job'[c].upload].received = uploads'[job'[c].upload].size
  <2> SUFFICES ASSUME NEW q \in Procs \ {p},
                      pc[q] \in DiscardPcs \cup (LockedPcs \ {"row", "write", "update"}),
                      uploads'[job[q].upload].size # 0
               PROVE  \/ uploads'[job[q].upload].expired
                      \/ uploads'[job[q].upload].received = uploads'[job[q].upload].size
    BY DEF Moves
  <2>1. Calm(job[q].upload)
    BY DEF IdsOK, PutPcs
  <2>2. Spent(job[q].upload)
    BY DEF RowsOK, IdsOK, DiscardPcs, LockedPcs, Procs
  <2> QED BY <2>1, <2>2 DEF Calm, Spent, Open
<1>4. \A u \in todo' : uploads'[u].size # 0 =>
          uploads'[u].expired \/ uploads'[u].received = uploads'[u].size
  BY DEF RowsOK, Calm, Spent, Open
<1> QED BY <1>1, <1>2, <1>3, <1>4 DEF RowsOK, Acceptable, NextOffset, Spent, Open, Procs

\* A request that ends, and changes nothing else, leaves everything as sound
\* as it was.
LEMMA QuietEnd ==
    ASSUME IndInv, NEW p \in Procs, End(p), todo' \subseteq todo,
           UNCHANGED <<uploads, blobs, tmp, files, used>>
    PROVE  IndInv'
<1>1. TypeOK /\ IdsOK /\ FreshOK /\ LocksOK /\ RowsOK /\ FilesOK /\ StagedOK
  BY DEF IndInv
<1>2. /\ RequestTypeOK' /\ Moves(p, "idle", NoJob)
      /\ p \notin hold'
  BY <1>1, EndMoves
<1>3. TypeOK'
  BY <1>1, <1>2 DEF TypeOK, RequestTypeOK
<1>4. /\ NoJob.upload = NoUpload /\ NoUpload \notin Uploads
  BY ConstantsAssumption DEF NoJob
<1>5. IdsOK'
  BY <1>1, <1>2, <1>3, <1>4
  DEF Moves, IdsOK, Open, FreshPcs, PutPcs, LockedPcs, DiscardPcs, Procs
<1>6. FreshOK'
  BY <1>1, <1>2, <1>4, FreshKept DEF FreshPcs, Open
<1>7. LocksOK'
  BY <1>1, <1>2, LocksLeft DEF PutPcs, LockedPcs, Open
<1>8. RowsOK'
  BY <1>1, <1>2, RowsKept DEF Calm, LockedPcs, DiscardPcs
<1>9. FilesOK'
  BY <1>1, <1>2 DEF Moves, FilesOK, BlobSound, Procs
<1>10. StagedOK'
  BY <1>1, <1>2 DEF Moves, StagedOK, ResumeSafe, Current, Open, NextOffset, Procs
<1> QED BY <1>3, <1>5, <1>6, <1>7, <1>8, <1>9, <1>10 DEF IndInv

-----------------------------------------------------------------------------
(* create_upload.                                                          *)

LEMMA CreateIndInv ==
    ASSUME IndInv, NEW c \in Conns, CreateUpload(c)
    PROVE  IndInv'
<1>1. TypeOK /\ IdsOK /\ FreshOK /\ LocksOK /\ RowsOK /\ FilesOK /\ StagedOK
  BY DEF IndInv
<1>2. PICK h \in Hashes, n \in Sizes : Goto(c, "admit", [NoJob EXCEPT !.hash = h, !.size = n])
  BY DEF CreateUpload
<1> DEFINE j == [NoJob EXCEPT !.hash = h, !.size = n]
<1>3. j \in Job /\ j.hash = h /\ j.upload = NoUpload /\ NoUpload \notin Uploads
  BY ConstantsAssumption, EmptyFile DEF NoJob, Job
<1>4. pc[c] = "idle" /\ UNCHANGED <<uploads, blobs, tmp, files, used, todo, want, hold>>
  BY DEF CreateUpload, tableVars, fileVars, lockVars
<1> HIDE DEF j
<1>5. RequestTypeOK' /\ Moves(c, "admit", j)
  BY <1>1, <1>2, <1>3, <1>4, GotoMoves DEF PcValues, Procs, lockVars, j
<1>6. TypeOK'
  BY <1>1, <1>4, <1>5 DEF TypeOK, RequestTypeOK
<1>7. IdsOK'
  BY <1>1, <1>3, <1>4, <1>5, ConstantsAssumption
  DEF Moves, IdsOK, Open, FreshPcs, PutPcs, LockedPcs, DiscardPcs, Procs
<1>8. FreshOK'
  BY <1>1, <1>3, <1>4, <1>5, FreshKept DEF FreshPcs, Open, Procs
<1>9. LocksOK'
  BY <1>1, <1>4, <1>5, LocksLeft DEF PutPcs, LockedPcs, Open, Procs
<1>10. RowsOK'
  BY <1>1, <1>4, <1>5, RowsKept DEF Calm, LockedPcs, DiscardPcs, Procs
<1>11. FilesOK'
  BY <1>1, <1>4, <1>5 DEF Moves, FilesOK, BlobSound, Procs
<1>12. StagedOK'
  BY <1>1, <1>4, <1>5 DEF Moves, StagedOK, ResumeSafe, Current, Open, NextOffset, Procs
<1> QED BY <1>6, <1>7, <1>8, <1>9, <1>10, <1>11, <1>12 DEF IndInv

\* The id is new: no row, no request and no list has it.
LEMMA AdmitIndInv ==
    ASSUME IndInv, NEW c \in Conns, AdmitUpload(c)
    PROVE  IndInv'
<1>1. TypeOK /\ IdsOK /\ FreshOK /\ LocksOK /\ RowsOK /\ FilesOK /\ StagedOK
  BY DEF IndInv
<1>2. pc[c] = "admit" /\ UNCHANGED <<uploads, blobs, tmp, files, todo>>
  BY DEF AdmitUpload, tableVars, fileVars
<1>3. CASE End(c) /\ UNCHANGED used
  BY <1>2, <1>3, QuietEnd DEF Procs
<1>4. CASE /\ \E u \in Uploads \ used :
                 used' = used \cup {u} /\ Goto(c, "stage", [job[c] EXCEPT !.upload = u])
           /\ UNCHANGED lockVars
  <2>1. PICK u \in Uploads \ used :
            used' = used \cup {u} /\ Goto(c, "stage", [job[c] EXCEPT !.upload = u])
    BY <1>4
  <2> DEFINE j == [job[c] EXCEPT !.upload = u]
  <2>2. j \in Job /\ j.hash = job[c].hash /\ j.upload = u
    BY <1>1 DEF TypeOK, Job, Procs
  <2> HIDE DEF j
  <2>3. RequestTypeOK' /\ Moves(c, "stage", j) /\ UNCHANGED <<want, hold>>
    BY <1>1, <1>4, <2>1, <2>2, GotoMoves DEF PcValues, Procs, lockVars, j
  <2>4. TypeOK'
    BY <1>1, <1>2, <2>1, <2>3 DEF TypeOK, RequestTypeOK
  <2>5. IdsOK'
    BY <1>1, <1>2, <2>1, <2>2, <2>3, ConstantsAssumption
    DEF Moves, IdsOK, Open, FreshPcs, PutPcs, LockedPcs, DiscardPcs, Procs
  <2>6. FreshOK'
    BY <1>1, <1>2, <2>1, <2>2, <2>3, ConstantsAssumption
    DEF Moves, IdsOK, FreshOK, Open, FreshPcs, Procs
  <2>7. LocksOK'
    BY <1>1, <1>2, <2>3, LocksLeft DEF PutPcs, LockedPcs, Open, Procs
  <2>8. RowsOK'
    BY <1>1, <1>2, <2>3, RowsKept DEF Calm, LockedPcs, DiscardPcs, Procs
  <2>9. FilesOK'
    BY <1>1, <1>2, <2>3 DEF Moves, FilesOK, BlobSound, Procs
  <2>10. StagedOK'
    BY <1>1, <1>2, <2>3 DEF Moves, StagedOK, ResumeSafe, Current, Open, NextOffset, Procs
  <2> QED BY <2>4, <2>5, <2>6, <2>7, <2>8, <2>9, <2>10 DEF IndInv
<1> QED BY <1>3, <1>4 DEF AdmitUpload

LEMMA StageIndInv ==
    ASSUME IndInv, NEW c \in Conns, StageFile(c)
    PROVE  IndInv'
<1>1. TypeOK /\ IdsOK /\ FreshOK /\ LocksOK /\ RowsOK /\ FilesOK /\ StagedOK
  BY DEF IndInv
<1> DEFINE u == job[c].upload
<1>2. /\ pc[c] = "stage" /\ tmp' = [tmp EXCEPT ![u] = <<>>] /\ Goto(c, "insert", job[c])
      /\ UNCHANGED <<uploads, blobs, files, used, todo, want, hold>>
  BY DEF StageFile, tableVars, lockVars
<1>3. /\ u \in Uploads /\ ~Open(u) /\ \A p \in Procs \ {c} : job[p].upload # u
  BY <1>1, <1>2 DEF IdsOK, FreshOK, FreshPcs, Procs
<1>4. RequestTypeOK' /\ Moves(c, "insert", job[c])
  BY <1>1, <1>2, GotoMoves DEF TypeOK, PcValues, Procs, lockVars
<1>5. /\ tmp' \in [Uploads -> {NoFile} \cup Files] /\ tmp'[u] # NoFile
      /\ \A v \in Uploads \ {u} : tmp'[v] = tmp[v]
  BY <1>1, <1>2, <1>3, EmptyFile DEF TypeOK
<1> HIDE DEF u
<1>6. TypeOK'
  BY <1>1, <1>2, <1>4, <1>5 DEF TypeOK, RequestTypeOK
<1>7. IdsOK'
  BY <1>1, <1>2, <1>4, ConstantsAssumption
  DEF Moves, IdsOK, Open, FreshPcs, PutPcs, LockedPcs, DiscardPcs, Procs
<1>8. FreshOK'
  BY <1>1, <1>2, <1>4, FreshKept DEF FreshPcs, Open, Procs
<1>9. LocksOK'
  BY <1>1, <1>2, <1>4, LocksLeft DEF PutPcs, LockedPcs, Open, Procs
<1>10. RowsOK'
  BY <1>1, <1>2, <1>4, RowsKept DEF Calm, LockedPcs, DiscardPcs, Procs
<1>11. FilesOK'
  BY <1>1, <1>2, <1>3, <1>4, <1>5
  DEF Moves, FilesOK, BlobSound, Procs, IdsOK, FreshPcs, PutPcs, LockedPcs
<1>12. StagedOK'
  BY <1>1, <1>2, <1>3, <1>4, <1>5
  DEF Moves, StagedOK, ResumeSafe, Current, Open, NextOffset, Procs, IdsOK, FreshPcs, PutPcs,
      LockedPcs, u
<1> QED BY <1>6, <1>7, <1>8, <1>9, <1>10, <1>11, <1>12 DEF IndInv

\* The new row is nobody's but the creator's, who leaves it with an empty
\* staging file.
LEMMA InsertIndInv ==
    ASSUME IndInv, NEW c \in Conns, InsertUpload(c)
    PROVE  IndInv'
<1>1. TypeOK /\ IdsOK /\ FreshOK /\ LocksOK /\ RowsOK /\ FilesOK /\ StagedOK
  BY DEF IndInv
<1> DEFINE u == job[c].upload
           row == [hash |-> job[c].hash, size |-> job[c].size, received |-> 0, expired |-> FALSE]
<1>2. pc[c] = "insert" /\ UNCHANGED <<blobs, tmp, files, used, todo>>
  BY DEF InsertUpload, fileVars
<1>3. /\ u \in Uploads /\ u \in used /\ ~Open(u) /\ job[c].hash \in Hashes /\ u \notin todo
      /\ \A p \in Procs \ {c} : job[p].upload # u
  BY <1>1, <1>2, ConstantsAssumption DEF IdsOK, FreshOK, FreshPcs, Procs
<1>4. CASE uploads' = [uploads EXCEPT ![u] = row] /\ End(c)
  <2>1. /\ RequestTypeOK' /\ Moves(c, "idle", NoJob)
        /\ c \notin hold'
    BY <1>1, <1>4, EndMoves DEF Procs
  <2>2. /\ uploads'[u] = row /\ \A v \in Uploads \ {u} : uploads'[v] = uploads[v]
        /\ uploads' \in [Uploads -> UploadRow]
    BY <1>1, <1>3, <1>4 DEF TypeOK, UploadRow, Job, Procs
  <2>3. row.hash \in Hashes /\ row.received = 0 /\ row.size >= 0 /\ ~row.expired
    BY <1>1, <1>3 DEF TypeOK, Job, Procs
  <2>4. NoJob.upload = NoUpload /\ NoUpload \notin Uploads
    BY ConstantsAssumption DEF NoJob
  <2>5. tmp[u] # NoFile /\ Len(tmp[u]) >= 0
    BY <1>1, <1>2, <1>3 DEF TypeOK, StagedOK, Files
  <2> HIDE DEF u, row
  <2>6. \A d \in Conns \ {c} : pc[d] \in PutPcs => uploads'[job[d].upload] = uploads[job[d].upload]
    BY <1>1, <1>3, <2>2 DEF IdsOK, PutPcs, LockedPcs, Procs
  <2>7. TypeOK'
    BY <1>1, <1>2, <1>3, <2>1, <2>2, <2>3 DEF TypeOK, RequestTypeOK
  <2>8. IdsOK'
    BY <1>1, <1>2, <1>3, <2>1, <2>2, <2>3, <2>4, ConstantsAssumption
    DEF Moves, IdsOK, Open, FreshPcs, PutPcs, LockedPcs, DiscardPcs, Procs
  <2>9. FreshOK'
    BY <1>1, <1>2, <1>3, <2>1, <2>2, <2>4, FreshKept DEF FreshPcs, Open, Procs, u
  <2>10. LocksOK'
    BY <1>1, <2>1, <2>6, LocksLeft DEF PutPcs, LockedPcs, Open, Procs
  <2>11. RowsOK'
    BY <1>1, <1>2, <1>3, <2>1, <2>2, RowsKept
    DEF Calm, LockedPcs, DiscardPcs, Procs, IdsOK, FreshPcs, PutPcs, TypeOK
  <2>12. FilesOK'
    BY <1>1, <1>2, <2>1 DEF Moves, FilesOK, BlobSound, Procs
  <2>13. StagedOK'
    BY <1>1, <1>2, <1>3, <2>1, <2>2, <2>3, <2>5
    DEF Moves, StagedOK, ResumeSafe, Current, Open, NextOffset, Procs, IdsOK, FreshPcs, PutPcs,
        LockedPcs
  <2> QED BY <2>7, <2>8, <2>9, <2>10, <2>11, <2>12, <2>13 DEF IndInv
<1>5. CASE Goto(c, "discard_file", job[c]) /\ UNCHANGED <<uploads, lockVars>>
  <2>1. RequestTypeOK' /\ Moves(c, "discard_file", job[c]) /\ UNCHANGED <<uploads, want, hold>>
    BY <1>1, <1>5, GotoMoves DEF TypeOK, PcValues, Procs, lockVars
  <2>2. TypeOK'
    BY <1>1, <1>2, <2>1 DEF TypeOK, RequestTypeOK
  <2>3. IdsOK'
    BY <1>1, <1>2, <1>3, <2>1, ConstantsAssumption
    DEF Moves, IdsOK, Open, FreshPcs, PutPcs, LockedPcs, DiscardPcs, Procs
  <2>4. FreshOK'
    BY <1>1, <1>2, <2>1, FreshKept DEF FreshPcs, Open, Procs
  <2>5. LocksOK'
    BY <1>1, <1>2, <2>1, LocksLeft DEF PutPcs, LockedPcs, Open, Procs
  <2>6. RowsOK'
    BY <1>1, <1>2, <1>3, <2>1, RowsKept DEF Calm, LockedPcs, DiscardPcs, Procs, Open
  <2>7. FilesOK'
    BY <1>1, <1>2, <2>1 DEF Moves, FilesOK, BlobSound, Procs
  <2>8. StagedOK'
    BY <1>1, <1>2, <2>1 DEF Moves, StagedOK, ResumeSafe, Current, Open, NextOffset, Procs
  <2> QED BY <2>2, <2>3, <2>4, <2>5, <2>6, <2>7, <2>8 DEF IndInv
<1> QED BY <1>4, <1>5 DEF InsertUpload

-----------------------------------------------------------------------------
(* get_upload and put_upload.                                              *)

\* A request turns to throwing away an upload that is spent.
LEMMA QuietDiscard ==
    ASSUME IndInv, NEW p \in Procs, NEW u \in used, Discard(p, u), Spent(u),
           Open(u) \/ u = job[p].upload \/ u \in todo, todo' \subseteq todo,
           UNCHANGED <<uploads, blobs, tmp, files, used>>
    PROVE  IndInv'
<1>1. TypeOK /\ IdsOK /\ FreshOK /\ LocksOK /\ RowsOK /\ FilesOK /\ StagedOK
  BY DEF IndInv
<1> DEFINE j == [job[p] EXCEPT !.upload = u]
<1>2. u \in Uploads /\ j \in Job /\ j.upload = u
  BY <1>1 DEF TypeOK, Job
<1> HIDE DEF j
<1>3. RequestTypeOK' /\ Moves(p, "discard_row", j) /\ UNCHANGED <<want, hold>>
  BY <1>1, <1>2, GotoMoves DEF Discard, PcValues, lockVars, j
<1>4. TypeOK'
  BY <1>1, <1>3 DEF TypeOK, RequestTypeOK
<1>5. IdsOK'
  BY <1>1, <1>2, <1>3, ConstantsAssumption
  DEF Moves, IdsOK, Open, FreshPcs, PutPcs, LockedPcs, DiscardPcs, Procs
<1>6. FreshOK'
  BY <1>1, <1>2, <1>3, FreshKept DEF FreshPcs, Open, Procs
<1>7. LocksOK'
  BY <1>1, <1>2, <1>3, LocksLeft DEF PutPcs, LockedPcs, Open, Procs
<1>8. RowsOK'
  BY <1>1, <1>2, <1>3, RowsKept DEF Calm, LockedPcs, DiscardPcs, Procs, Spent, Open
<1>9. FilesOK'
  BY <1>1, <1>3 DEF Moves, FilesOK, BlobSound, Procs
<1>10. StagedOK'
  BY <1>1, <1>3 DEF Moves, StagedOK, ResumeSafe, Current, Open, NextOffset, Procs
<1> QED BY <1>4, <1>5, <1>6, <1>7, <1>8, <1>9, <1>10 DEF IndInv

LEMMA GetIndInv ==
    ASSUME IndInv, NEW c \in Conns, GetUpload(c)
    PROVE  IndInv'
<1>1. PICK u \in used : Open(u) /\ uploads[u].expired /\ Discard(c, u)
  BY DEF GetUpload
<1>2. UNCHANGED <<uploads, blobs, tmp, files, used, todo>>
  BY DEF GetUpload, tableVars, fileVars
<1> QED BY <1>1, <1>2, QuietDiscard DEF Spent, Procs

\* A PUT asks for the lock of the hash its row has, as every other PUT on
\* this upload has done.
LEMMA PutIndInv ==
    ASSUME IndInv, NEW c \in Conns, PutUpload(c)
    PROVE  IndInv'
<1>1. TypeOK /\ IdsOK /\ FreshOK /\ LocksOK /\ RowsOK /\ FilesOK /\ StagedOK
  BY DEF IndInv
<1>2. pc[c] = "idle" /\ UNCHANGED <<uploads, blobs, tmp, files, used, todo>>
  BY DEF PutUpload, tableVars, fileVars
<1>3. PICK u \in used :
          /\ Open(u)
          /\ \/ uploads[u].expired /\ Discard(c, u)
             \/ /\ Locks!Request(c, uploads[u].hash)
                /\ \E at \in 0..(AbsoluteMax - 1), s \in Segments, n \in Sizes :
                      Goto(c, "lock", [NoJob EXCEPT !.upload = u, !.at = at, !.bytes = s, !.size = n])
  BY DEF PutUpload
<1>4. CASE uploads[u].expired /\ Discard(c, u)
  BY <1>2, <1>3, <1>4, QuietDiscard DEF Spent, Procs
<1>5. CASE /\ Locks!Request(c, uploads[u].hash)
           /\ \E at \in 0..(AbsoluteMax - 1), s \in Segments, n \in Sizes :
                 Goto(c, "lock", [NoJob EXCEPT !.upload = u, !.at = at, !.bytes = s, !.size = n])
  <2>1. PICK at \in 0..(AbsoluteMax - 1), s \in Segments, n \in Sizes :
            Goto(c, "lock", [NoJob EXCEPT !.upload = u, !.at = at, !.bytes = s, !.size = n])
    BY <1>5
  <2> DEFINE j == [NoJob EXCEPT !.upload = u, !.at = at, !.bytes = s, !.size = n]
             h == uploads[u].hash
  <2>2. u \in Uploads /\ at \in Nat /\ n \in Nat /\ s \in Files /\ s # <<>>
    BY <1>1, ConstantsAssumption DEF TypeOK
  <2>3. j \in Job /\ j.upload = u /\ j.bytes = s
    BY <2>2, ConstantsAssumption DEF NoJob, Job
  <2>4. h \in Hashes /\ h # NoHash
    BY <1>1, <1>3, <2>2, ConstantsAssumption DEF IdsOK
  <2>5. want[c] = NoHash /\ want' = [want EXCEPT ![c] = h] /\ hold' = hold
    BY <1>5 DEF Locks!Request
  <2>6. c \notin hold
    BY <1>1, <2>5 DEF LocksOK
  <2> HIDE DEF j, h
  <2>7. RequestTypeOK' /\ Moves(c, "lock", j) /\ want'[c] = h
    <3>1. pc' = [pc EXCEPT ![c] = "lock"] /\ job' = [job EXCEPT ![c] = j]
      BY <2>1 DEF Goto, j
    <3> QED
      BY <1>1, <2>3, <2>4, <2>5, <3>1
      DEF TypeOK, RequestTypeOK, Moves, PcValues, Procs, Locks!MutexTypeOK
  <2>8. TypeOK'
    BY <1>1, <1>2, <2>7 DEF TypeOK, RequestTypeOK
  <2>9. IdsOK'
    BY <1>1, <1>2, <2>2, <2>3, <2>7, ConstantsAssumption
    DEF Moves, IdsOK, Open, FreshPcs, PutPcs, LockedPcs, DiscardPcs, Procs
  <2>10. FreshOK'
    BY <1>1, <1>2, <1>3, <2>3, <2>7, FreshKept DEF FreshPcs, Open, Procs
  <2>11. LocksOK'
    <3>1. \A d \in Conns \ {c} : pc[d] \in PutPcs /\ job[d].upload = u => want[d] = h
      BY <1>1, <1>3 DEF LocksOK, h
    <3>2. \A d \in hold : d # c /\ want'[d] = want[d]
      BY <1>1, <2>6, <2>7 DEF TypeOK, Moves, Locks!MutexTypeOK
    <3>3. Locks!MutualExclusion'
      BY <1>1, <2>5, <3>2 DEF LocksOK, Locks!MutualExclusion
    <3> QED
      BY <1>1, <1>2, <2>3, <2>4, <2>5, <2>7, <3>1, <3>2, <3>3
      DEF LocksOK, Moves, Open, PutPcs, LockedPcs, Procs, h
  <2>12. RowsOK'
    BY <1>1, <1>2, <2>2, <2>3, <2>7, RowsKept DEF Calm, LockedPcs, DiscardPcs, Procs
  <2>13. FilesOK'
    BY <1>1, <1>2, <2>7 DEF Moves, FilesOK, BlobSound, Procs
  <2>14. StagedOK'
    BY <1>1, <1>2, <2>7 DEF Moves, StagedOK, ResumeSafe, Current, Open, NextOffset, Procs
  <2> QED BY <2>8, <2>9, <2>10, <2>11, <2>12, <2>13, <2>14 DEF IndInv
<1> QED BY <1>3, <1>4, <1>5

LEMMA LockIndInv ==
    ASSUME IndInv, NEW c \in Conns, LockUpload(c)
    PROVE  IndInv'
<1>1. TypeOK /\ IdsOK /\ FreshOK /\ LocksOK /\ RowsOK /\ FilesOK /\ StagedOK
  BY DEF IndInv
<1>2. /\ pc[c] = "lock" /\ Goto(c, "row", job[c])
      /\ UNCHANGED <<uploads, blobs, tmp, files, used, todo, want>>
      /\ hold' = hold \cup {c} /\ \A d \in hold : want[d] # want[c]
  BY DEF LockUpload, Locks!Acquire, tableVars, fileVars
<1>3. RequestTypeOK' /\ Moves(c, "row", job[c])
  BY <1>1, <1>2 DEF TypeOK, RequestTypeOK, Moves, Goto, PcValues, Procs, Locks!MutexTypeOK
<1>4. TypeOK'
  BY <1>1, <1>2, <1>3 DEF TypeOK, RequestTypeOK
<1>5. IdsOK'
  BY <1>1, <1>2, <1>3, ConstantsAssumption
  DEF Moves, IdsOK, Open, FreshPcs, PutPcs, LockedPcs, DiscardPcs, Procs
<1>6. FreshOK'
  BY <1>1, <1>2, <1>3, FreshKept DEF FreshPcs, Open, Procs
<1>7. LocksOK'
  <2>1. Locks!MutualExclusion'
    BY <1>1, <1>2 DEF LocksOK, Locks!MutualExclusion
  <2> QED
    BY <1>1, <1>2, <1>3, <2>1 DEF LocksOK, Moves, Open, PutPcs, LockedPcs, Procs
<1>8. RowsOK'
  BY <1>1, <1>2, <1>3, RowsKept DEF Calm, LockedPcs, DiscardPcs, Procs, RowsOK
<1>9. FilesOK'
  BY <1>1, <1>2, <1>3 DEF Moves, FilesOK, BlobSound, Procs
<1>10. StagedOK'
  BY <1>1, <1>2, <1>3 DEF Moves, StagedOK, ResumeSafe, Current, Open, NextOffset, Procs
<1> QED BY <1>4, <1>5, <1>6, <1>7, <1>8, <1>9, <1>10 DEF IndInv

\* The row is read under the lock: its hash is the one that is locked.
LEMMA RowIndInv ==
    ASSUME IndInv, NEW c \in Conns, ReadRow(c)
    PROVE  IndInv'
<1>1. TypeOK /\ IdsOK /\ FreshOK /\ LocksOK /\ RowsOK /\ FilesOK /\ StagedOK
  BY DEF IndInv
<1> DEFINE u == job[c].upload
<1>2. pc[c] = "row" /\ UNCHANGED <<uploads, blobs, tmp, files, used, todo>>
  BY DEF ReadRow, tableVars, fileVars
<1>3. u \in Uploads /\ u \in used
  BY <1>1, <1>2, ConstantsAssumption DEF IdsOK, PutPcs, LockedPcs, Procs
<1>4. CASE Open(u) /\ uploads[u].expired /\ Discard(c, u)
  BY <1>2, <1>3, <1>4, QuietDiscard DEF Spent, Procs
<1>5. CASE End(c)
  BY <1>2, <1>5, QuietEnd DEF Procs
<1>6. CASE /\ Open(u) /\ ~uploads[u].expired /\ Acceptable(c)
           /\ Goto(c, "write", [job[c] EXCEPT !.hash = uploads[u].hash])
           /\ UNCHANGED lockVars
  <2> DEFINE j == [job[c] EXCEPT !.hash = uploads[u].hash]
  <2>1. /\ j \in Job /\ j.upload = u /\ j.hash = uploads[u].hash /\ j.size = job[c].size
        /\ j.at = job[c].at /\ j.bytes = job[c].bytes
    BY <1>1, <1>3, <1>6 DEF TypeOK, IdsOK, Job, Procs
  <2>2. want[c] = uploads[u].hash
    BY <1>1, <1>2, <1>6 DEF LocksOK, PutPcs, LockedPcs
  <2> HIDE DEF j, u
  <2>3. RequestTypeOK' /\ Moves(c, "write", j) /\ UNCHANGED <<want, hold>>
    BY <1>1, <1>6, <2>1, GotoMoves DEF PcValues, Procs, lockVars, j
  <2>4. TypeOK'
    BY <1>1, <1>2, <2>3 DEF TypeOK, RequestTypeOK
  <2>5. IdsOK'
    BY <1>1, <1>2, <1>3, <2>1, <2>3, ConstantsAssumption
    DEF Moves, IdsOK, Open, FreshPcs, PutPcs, LockedPcs, DiscardPcs, Procs
  <2>6. FreshOK'
    BY <1>1, <1>2, <2>1, <2>3, FreshKept DEF FreshPcs, Open, Procs, u
  <2>7. LocksOK'
    <3>1. Locks!MutualExclusion'
      BY <1>1, <2>3 DEF LocksOK, Locks!MutualExclusion
    <3> QED
      BY <1>1, <1>2, <2>1, <2>2, <2>3, <3>1
      DEF LocksOK, Moves, Open, PutPcs, LockedPcs, Procs, u
  <2>8. RowsOK'
    BY <1>1, <1>2, <1>6, <2>1, <2>3, RowsKept
    DEF Calm, LockedPcs, DiscardPcs, Procs, RowsOK, Acceptable, NextOffset, u
  <2>9. FilesOK'
    BY <1>1, <1>2, <2>3 DEF Moves, FilesOK, BlobSound, Procs
  <2>10. StagedOK'
    BY <1>1, <1>2, <2>3 DEF Moves, StagedOK, ResumeSafe, Current, Open, NextOffset, Procs
  <2> QED BY <2>4, <2>5, <2>6, <2>7, <2>8, <2>9, <2>10 DEF IndInv
<1> QED BY <1>4, <1>5, <1>6 DEF ReadRow

\* Two PUTs at work on one upload, or on one hash, are the same.
LEMMA OneWriter ==
    ASSUME LocksOK, NEW c \in Conns, NEW d \in Conns, pc[c] \in LockedPcs, pc[d] \in LockedPcs,
           \/ job[c].upload = job[d].upload
           \/ pc[c] # "row" /\ pc[d] # "row" /\ job[c].hash = job[d].hash
    PROVE  c = d
<1>1. want[c] = want[d]
  BY DEF LocksOK, PutPcs
<1> QED BY <1>1 DEF LocksOK, Locks!MutualExclusion

\* What is written is on disk, the file is not cut, and the bytes before the
\* offset stay.
LEMMA WrittenFacts ==
    ASSUME NEW old \in Files, NEW at \in Nat, NEW bytes \in Files
    PROVE  LET new == Written(old, at, bytes) IN
           /\ new \in Files /\ Len(new) >= Len(old)
           /\ bytes # <<>> => Len(new) >= at + Len(bytes)
           /\ \A i \in 1..Len(old) : i <= at => new[i] = old[i]
<1> DEFINE end == IF bytes = <<>> THEN 0 ELSE at + Len(bytes)
           len == IF end > Len(old) THEN end ELSE Len(old)
           unit(i) == IF i > at /\ i <= end THEN bytes[i - at] ELSE i <= Len(old) /\ old[i]
<1>1. Written(old, at, bytes) = [i \in 1..len |-> unit(i)]
  BY DEF Written
<1>2. Len(old) \in Nat /\ Len(bytes) \in Nat /\ end \in Nat /\ len \in Nat
  BY DEF Files
<1>3. \A i \in 1..len : unit(i) \in BOOLEAN
  <2> SUFFICES ASSUME NEW i \in 1..len PROVE unit(i) \in BOOLEAN
    OBVIOUS
  <2>1. CASE i > at /\ i <= end
    <3>1. i - at \in 1..Len(bytes)
      BY <1>2, <2>1
    <3>2. bytes[i - at] \in BOOLEAN
      BY <3>1 DEF Files
    <3> QED BY <2>1, <3>2
  <2>2. CASE ~(i > at /\ i <= end)
    BY <2>2
  <2> QED BY <2>1, <2>2
<1>4. \A i \in 1..Len(old) : i <= at => unit(i) = old[i]
  <2> SUFFICES ASSUME NEW i \in 1..Len(old), i <= at PROVE unit(i) = old[i]
    OBVIOUS
  <2>1. old[i] \in BOOLEAN
    BY DEF Files
  <2>2. ~(i > at) /\ i <= Len(old)
    BY <1>2
  <2> QED BY <2>1, <2>2
<1>5. len >= Len(old) /\ (bytes # <<>> => len >= at + Len(bytes))
  BY <1>2
<1> HIDE DEF unit, len, end
<1>6. [i \in 1..len |-> unit(i)] \in Seq(BOOLEAN)
  BY <1>2, <1>3
<1>7. Len([i \in 1..len |-> unit(i)]) = len
  BY <1>2, <1>3
<1>8. \A i \in 1..Len(old) : i <= at => [k \in 1..len |-> unit(k)][i] = old[i]
  BY <1>2, <1>4, <1>5
<1> QED BY <1>1, <1>5, <1>6, <1>7, <1>8 DEF Files

\* The effect of a write on the staging file: u's content only grows, and
\* keeps what was received.
LEMMA WriteFacts ==
    ASSUME IndInv, NEW c \in Conns, WriteSegment(c)
    PROVE  LET u == job[c].upload IN
           /\ pc[c] = "write" /\ UNCHANGED <<uploads, blobs, files, used, todo>>
           /\ u \in Uploads /\ tmp' \in [Uploads -> {NoFile} \cup Files] /\ tmp'[u] # NoFile
           /\ \A v \in Uploads \ {u} : tmp'[v] = tmp[v]
           /\ tmp[u] # NoFile => /\ Len(tmp'[u]) >= Len(tmp[u])
                                 /\ \A i \in 1..Len(tmp[u]) : i <= job[c].at => tmp'[u][i] = tmp[u][i]
           /\ \/ End(c)
              \/ /\ Goto(c, "update", job[c]) /\ UNCHANGED lockVars
                 /\ Len(tmp'[u]) >= NextOffset(c)
<1> DEFINE u == job[c].upload
           old == IF tmp[u] = NoFile THEN <<>> ELSE tmp[u]
           Wrote(s) == tmp' = [tmp EXCEPT ![u] = Written(old, job[c].at, s)]
<1>1. TypeOK /\ IdsOK /\ RowsOK
  BY DEF IndInv
<1>2. pc[c] = "write" /\ UNCHANGED <<uploads, blobs, files, used, todo>>
  BY DEF WriteSegment, tableVars
<1>3. u \in Uploads /\ job[c].at \in Nat /\ job[c].bytes \in Files /\ job[c].bytes # <<>>
  BY <1>1, <1>2 DEF TypeOK, IdsOK, RowsOK, PutPcs, LockedPcs, Job, Procs
<1>4. old \in Files
  BY <1>1, <1>3, EmptyFile DEF TypeOK
<1>5. ASSUME NEW s \in Files, Wrote(s)
      PROVE  /\ tmp' \in [Uploads -> {NoFile} \cup Files] /\ tmp'[u] # NoFile
             /\ \A v \in Uploads \ {u} : tmp'[v] = tmp[v]
             /\ tmp[u] # NoFile => /\ Len(tmp'[u]) >= Len(tmp[u])
                                   /\ \A i \in 1..Len(tmp[u]) : i <= job[c].at => tmp'[u][i] = tmp[u][i]
             /\ s # <<>> => Len(tmp'[u]) >= job[c].at + Len(s)
  <2> DEFINE new == Written(old, job[c].at, s)
  <2>1. /\ new \in Files /\ Len(new) >= Len(old)
        /\ s # <<>> => Len(new) >= job[c].at + Len(s)
        /\ \A i \in 1..Len(old) : i <= job[c].at => new[i] = old[i]
    <3> HIDE DEF old, u
    <3> QED BY <1>3, <1>4, <1>5, WrittenFacts, Zenon
  <2>2. new # NoFile
    BY <2>1, ConstantsAssumption
  <2>3. tmp' = [tmp EXCEPT ![u] = new]
    BY <1>5
  <2> HIDE DEF new, u
  <2> QED BY <1>1, <1>3, <2>1, <2>2, <2>3 DEF TypeOK
<1>6. CASE Wrote(job[c].bytes) /\ Goto(c, "update", job[c]) /\ UNCHANGED lockVars
  BY <1>2, <1>3, <1>5, <1>6 DEF NextOffset
<1>7. CASE /\ \E n \in 0..(Len(job[c].bytes) - 1) : Wrote(SubSeq(job[c].bytes, 1, n))
           /\ End(c)
  <2>1. PICK n \in 0..(Len(job[c].bytes) - 1) : Wrote(SubSeq(job[c].bytes, 1, n))
    BY <1>7
  <2>2. SubSeq(job[c].bytes, 1, n) \in Files
    BY <1>3 DEF Files
  <2> QED BY <1>2, <1>3, <1>5, <1>7, <2>1, <2>2
<1> QED BY <1>6, <1>7 DEF WriteSegment

\* Nobody is between hash check and rename of the file that grows.
LEMMA WriteIndInv ==
    ASSUME IndInv, NEW c \in Conns, WriteSegment(c)
    PROVE  IndInv'
<1>1. TypeOK /\ IdsOK /\ FreshOK /\ LocksOK /\ RowsOK /\ FilesOK /\ StagedOK
  BY DEF IndInv
<1> DEFINE u == job[c].upload
<1>2. /\ pc[c] = "write" /\ UNCHANGED <<uploads, blobs, files, used, todo>>
      /\ u \in Uploads /\ tmp' \in [Uploads -> {NoFile} \cup Files] /\ tmp'[u] # NoFile
      /\ \A v \in Uploads \ {u} : tmp'[v] = tmp[v]
      /\ tmp[u] # NoFile => Len(tmp'[u]) >= Len(tmp[u])
  BY WriteFacts
<1>3. \A d \in Conns : pc[d] \in LockedPcs /\ job[d].upload = u => d = c
  BY <1>1, <1>2, OneWriter DEF LockedPcs
<1>4. u \in used /\ \A d \in Conns : pc[d] \in FreshPcs => job[d].upload # u
  BY <1>1, <1>2, ConstantsAssumption DEF IdsOK, FreshOK, FreshPcs, Procs
<1>5. \A v \in Current : uploads[v].received \in Nat /\ (tmp'[v] # NoFile => Len(tmp'[v]) \in Nat)
  BY <1>1, <1>2 DEF TypeOK, UploadRow, Current, Files
<1>6. \A v \in Uploads : tmp[v] # NoFile => Len(tmp[v]) \in Nat
  BY <1>1 DEF TypeOK, Files
<1>7. ResumeSafe'
  BY <1>1, <1>2, <1>5, <1>6 DEF StagedOK, ResumeSafe, Current, Open
<1>8. CASE End(c)
  <2>1. RequestTypeOK' /\ Moves(c, "idle", NoJob) /\ c \notin hold'
    BY <1>1, <1>8, EndMoves DEF Procs
  <2>2. NoJob.upload = NoUpload /\ NoUpload \notin Uploads
    BY ConstantsAssumption DEF NoJob
  <2> HIDE DEF u
  <2>3. TypeOK'
    BY <1>1, <1>2, <2>1 DEF TypeOK, RequestTypeOK
  <2>4. IdsOK'
    BY <1>1, <1>2, <2>1, <2>2, ConstantsAssumption
    DEF Moves, IdsOK, Open, FreshPcs, PutPcs, LockedPcs, DiscardPcs, Procs
  <2>5. FreshOK'
    BY <1>1, <1>2, <2>1, <2>2, FreshKept DEF FreshPcs, Open, Procs
  <2>6. LocksOK'
    BY <1>1, <1>2, <2>1, LocksLeft DEF PutPcs, LockedPcs, Open, Procs
  <2>7. RowsOK'
    BY <1>1, <1>2, <2>1, RowsKept DEF Calm, LockedPcs, DiscardPcs, Procs
  <2>8. FilesOK'
    BY <1>1, <1>2, <1>3, <2>1 DEF Moves, FilesOK, BlobSound, Procs, IdsOK, PutPcs, LockedPcs, u
  <2>9. StagedOK'
    BY <1>1, <1>2, <1>3, <1>4, <1>7, <2>1
    DEF Moves, StagedOK, Current, Open, NextOffset, IdsOK, FreshPcs, PutPcs, LockedPcs, Procs
  <2> QED BY <2>3, <2>4, <2>5, <2>6, <2>7, <2>8, <2>9 DEF IndInv
<1>9. CASE /\ Goto(c, "update", job[c]) /\ UNCHANGED lockVars
           /\ Len(tmp'[u]) >= NextOffset(c)
  <2>1. RequestTypeOK' /\ Moves(c, "update", job[c]) /\ UNCHANGED <<want, hold>>
    BY <1>1, <1>9, GotoMoves DEF TypeOK, PcValues, Procs, lockVars
  <2> HIDE DEF u
  <2>2. TypeOK'
    BY <1>1, <1>2, <2>1 DEF TypeOK, RequestTypeOK
  <2>3. IdsOK'
    BY <1>1, <1>2, <2>1, ConstantsAssumption
    DEF Moves, IdsOK, Open, FreshPcs, PutPcs, LockedPcs, DiscardPcs, Procs
  <2>4. FreshOK'
    BY <1>1, <1>2, <2>1, FreshKept DEF FreshPcs, Open, Procs
  <2>5. LocksOK'
    BY <1>1, <1>2, <2>1, LocksStay DEF PutPcs, LockedPcs, Open, Procs
  <2>6. RowsOK'
    BY <1>1, <1>2, <2>1, RowsKept
    DEF Calm, LockedPcs, DiscardPcs, Procs, RowsOK, Acceptable, NextOffset, Open
  <2>7. FilesOK'
    BY <1>1, <1>2, <1>3, <2>1 DEF Moves, FilesOK, BlobSound, Procs, IdsOK, PutPcs, LockedPcs, u
  <2>8. StagedOK'
    BY <1>1, <1>2, <1>3, <1>4, <1>7, <1>9, <2>1
    DEF Moves, StagedOK, Current, Open, NextOffset, IdsOK, FreshPcs, PutPcs, LockedPcs, Procs, u
  <2> QED BY <2>2, <2>3, <2>4, <2>5, <2>6, <2>7, <2>8 DEF IndInv
<1> QED BY <1>8, <1>9, WriteFacts

\* The offset moves by the segment that was checked against this very row.
LEMMA UpdateFacts ==
    ASSUME IndInv, NEW c \in Conns, UpdateReceived(c)
    PROVE  LET u == job[c].upload
               row == uploads[u]
           IN  /\ pc[c] = "update" /\ UNCHANGED <<blobs, tmp, files, used, todo>>
               /\ u \in Uploads /\ uploads' \in [Uploads -> UploadRow]
               /\ \A v \in Uploads \ {u} : uploads'[v] = uploads[v]
               /\ uploads'[u].size = row.size /\ uploads'[u].hash = row.hash
               /\ uploads'[u].expired = row.expired
               /\ ~Open(u) => uploads'[u] = row
               /\ Open(u) => /\ uploads'[u].received = NextOffset(c) /\ job[c].size = row.size
                             /\ NextOffset(c) <= row.size /\ row.received < NextOffset(c)
               /\ \/ End(c)
                  \/ /\ NextOffset(c) = job[c].size
                     /\ Goto(c, "verify", job[c]) /\ UNCHANGED lockVars
<1> DEFINE u == job[c].upload
<1>1. TypeOK /\ IdsOK /\ RowsOK
  BY DEF IndInv
<1>2. /\ pc[c] = "update" /\ UNCHANGED <<blobs, tmp, files, used, todo>>
      /\ uploads' = [uploads EXCEPT ![u] =
            IF Open(u) THEN [@ EXCEPT !.received = NextOffset(c)] ELSE @]
  BY DEF UpdateReceived, fileVars
<1>3. u \in Uploads /\ uploads[u] \in UploadRow
  BY <1>1, <1>2 DEF TypeOK, IdsOK, PutPcs, LockedPcs, Procs
<1>4. job[c].at \in Nat /\ Len(job[c].bytes) \in Nat /\ Len(job[c].bytes) > 0
  BY <1>1, <1>2 DEF TypeOK, RowsOK, Job, Files, Procs
<1>5. NextOffset(c) \in Nat /\ job[c].at < NextOffset(c)
  BY <1>4 DEF NextOffset
<1>6. Open(u) => /\ job[c].size = uploads[u].size /\ job[c].at = uploads[u].received
                 /\ NextOffset(c) <= uploads[u].size
  BY <1>1, <1>2 DEF RowsOK, Acceptable
<1>7. uploads'[u] = IF Open(u) THEN [uploads[u] EXCEPT !.received = NextOffset(c)] ELSE uploads[u]
  BY <1>1, <1>2, <1>3 DEF TypeOK
<1>8. uploads'[u] \in UploadRow
  BY <1>3, <1>5, <1>7 DEF UploadRow
<1>9. uploads' \in [Uploads -> UploadRow] /\ \A v \in Uploads \ {u} : uploads'[v] = uploads[v]
  BY <1>1, <1>2, <1>3, <1>7, <1>8 DEF TypeOK
<1>10. /\ uploads'[u].size = uploads[u].size /\ uploads'[u].hash = uploads[u].hash
       /\ uploads'[u].expired = uploads[u].expired
       /\ Open(u) => uploads'[u].received = NextOffset(c)
  BY <1>3, <1>7 DEF UploadRow
<1>11. End(c) \/ (NextOffset(c) = job[c].size /\ Goto(c, "verify", job[c]) /\ UNCHANGED lockVars)
  BY DEF UpdateReceived
<1> HIDE DEF u
<1> QED BY <1>2, <1>3, <1>5, <1>6, <1>7, <1>9, <1>10, <1>11 DEF u

LEMMA UpdateIndInv ==
    ASSUME IndInv, NEW c \in Conns, UpdateReceived(c)
    PROVE  IndInv'
<1>1. TypeOK /\ IdsOK /\ FreshOK /\ LocksOK /\ RowsOK /\ FilesOK /\ StagedOK
  BY DEF IndInv
<1> DEFINE u == job[c].upload
<1>2. /\ pc[c] = "update" /\ UNCHANGED <<blobs, tmp, files, used, todo>>
      /\ u \in Uploads /\ uploads' \in [Uploads -> UploadRow]
      /\ \A v \in Uploads \ {u} : uploads'[v] = uploads[v]
      /\ uploads'[u].size = uploads[u].size /\ uploads'[u].hash = uploads[u].hash
      /\ uploads'[u].expired = uploads[u].expired
      /\ ~Open(u) => uploads'[u] = uploads[u]
      /\ Open(u) => /\ uploads'[u].received = NextOffset(c) /\ job[c].size = uploads[u].size
                    /\ NextOffset(c) <= uploads[u].size /\ uploads[u].received < NextOffset(c)
  BY UpdateFacts
<1>3. \A d \in Conns : pc[d] \in LockedPcs /\ job[d].upload = u => d = c
  BY <1>1, <1>2, OneWriter DEF LockedPcs
<1>4. \A v \in Uploads : Spent(v) /\ uploads'[v].size # 0 =>
          uploads'[v].expired \/ uploads'[v].received = uploads'[v].size
  <2> SUFFICES ASSUME Spent(u), Open(u) PROVE uploads[u].expired
    BY <1>2 DEF Spent, Open
  <2>1. uploads[u].received \in Nat /\ uploads[u].size \in Nat /\ NextOffset(c) \in Int
    BY <1>1, <1>2 DEF TypeOK, UploadRow
  <2> QED BY <1>2, <2>1 DEF Spent
<1>5. \A v \in Uploads : Open(v)' <=> Open(v)
  BY <1>2 DEF Open
<1>6. ResumeSafe'
  BY <1>1, <1>2, <1>5 DEF StagedOK, ResumeSafe, Current, u
<1>7. CASE End(c)
  <2>1. RequestTypeOK' /\ Moves(c, "idle", NoJob) /\ c \notin hold'
    BY <1>1, <1>7, EndMoves DEF Procs
  <2>2. NoJob.upload = NoUpload /\ NoUpload \notin Uploads
    BY ConstantsAssumption DEF NoJob
  <2> HIDE DEF u
  <2>3. TypeOK'
    BY <1>1, <1>2, <2>1 DEF TypeOK, RequestTypeOK
  <2>4. IdsOK'
    BY <1>1, <1>2, <2>1, <2>2, ConstantsAssumption
    DEF Moves, IdsOK, Open, FreshPcs, PutPcs, LockedPcs, DiscardPcs, Procs
  <2>5. FreshOK'
    BY <1>1, <1>2, <1>5, <2>1, <2>2, FreshKept DEF FreshPcs, Open, Procs
  <2>6. LocksOK'
    BY <1>1, <1>2, <2>1, LocksLeft
    DEF PutPcs, LockedPcs, Open, Procs, IdsOK, FreshPcs, DiscardPcs
  <2>7. RowsOK'
    <3>1. \A d \in Conns : pc'[d] \in {"lock", "row", "write", "update"} => job'[d].bytes # <<>>
      BY <1>1, <2>1 DEF Moves, RowsOK, Procs
    <3>2. \A d \in Conns : pc'[d] \in {"write", "update"} /\ uploads'[job'[d].upload].size # 0 =>
              /\ job'[d].size = uploads'[job'[d].upload].size
              /\ job'[d].at = uploads'[job'[d].upload].received
              /\ job'[d].at + Len(job'[d].bytes) <= uploads'[job'[d].upload].size
      BY <1>1, <1>2, <1>3, <2>1
      DEF Moves, RowsOK, Acceptable, NextOffset, Open, IdsOK, PutPcs, LockedPcs, Procs, u
    <3>3. \A d \in Procs : /\ pc'[d] \in DiscardPcs \cup (LockedPcs \ {"row", "write", "update"})
                           /\ uploads'[job'[d].upload].size # 0
              => \/ uploads'[job'[d].upload].expired
                 \/ uploads'[job'[d].upload].received = uploads'[job'[d].upload].size
      <4> SUFFICES ASSUME NEW d \in Procs \ {c},
                          pc[d] \in DiscardPcs \cup (LockedPcs \ {"row", "write", "update"}),
                          uploads'[job[d].upload].size # 0
                   PROVE  \/ uploads'[job[d].upload].expired
                          \/ uploads'[job[d].upload].received = uploads'[job[d].upload].size
        BY <2>1 DEF Moves, DiscardPcs, LockedPcs, Open, u
      <4>1. job[d].upload \in Uploads /\ Spent(job[d].upload)
        BY <1>1 DEF RowsOK, IdsOK, PutPcs, DiscardPcs, LockedPcs, Procs
      <4> QED BY <1>4, <4>1
    <3>4. \A v \in todo : uploads'[v].size # 0 =>
              uploads'[v].expired \/ uploads'[v].received = uploads'[v].size
      BY <1>1, <1>4 DEF RowsOK, IdsOK, TypeOK
    <3> QED BY <1>2, <3>1, <3>2, <3>3, <3>4 DEF RowsOK, Acceptable, NextOffset, Spent, Open, Procs
  <2>8. FilesOK'
    BY <1>1, <1>2, <2>1 DEF Moves, FilesOK, BlobSound, Procs
  <2>9. StagedOK'
    BY <1>1, <1>2, <1>3, <1>5, <1>6, <2>1
    DEF Moves, StagedOK, Current, NextOffset, IdsOK, PutPcs, LockedPcs, Procs
  <2> QED BY <2>3, <2>4, <2>5, <2>6, <2>7, <2>8, <2>9 DEF IndInv
<1>8. CASE /\ NextOffset(c) = job[c].size
           /\ Goto(c, "verify", job[c]) /\ UNCHANGED lockVars
  <2>1. RequestTypeOK' /\ Moves(c, "verify", job[c]) /\ UNCHANGED <<want, hold>>
    BY <1>1, <1>8, GotoMoves DEF TypeOK, PcValues, Procs, lockVars
  <2> HIDE DEF u
  <2>2. TypeOK'
    BY <1>1, <1>2, <2>1 DEF TypeOK, RequestTypeOK
  <2>3. IdsOK'
    BY <1>1, <1>2, <2>1, ConstantsAssumption
    DEF Moves, IdsOK, Open, FreshPcs, PutPcs, LockedPcs, DiscardPcs, Procs
  <2>4. FreshOK'
    BY <1>1, <1>2, <1>5, <2>1, FreshKept DEF FreshPcs, Open, Procs
  <2>5. LocksOK'
    BY <1>1, <1>2, <2>1, LocksStay
    DEF PutPcs, LockedPcs, Open, Procs, IdsOK, FreshPcs, DiscardPcs
  <2>6. RowsOK'
    <3>1. \A d \in Conns : pc'[d] \in {"lock", "row", "write", "update"} => job'[d].bytes # <<>>
      BY <1>1, <2>1 DEF Moves, RowsOK, Procs
    <3>2. \A d \in Conns : pc'[d] \in {"write", "update"} /\ uploads'[job'[d].upload].size # 0 =>
              /\ job'[d].size = uploads'[job'[d].upload].size
              /\ job'[d].at = uploads'[job'[d].upload].received
              /\ job'[d].at + Len(job'[d].bytes) <= uploads'[job'[d].upload].size
      BY <1>1, <1>2, <1>3, <2>1
      DEF Moves, RowsOK, Acceptable, NextOffset, Open, IdsOK, PutPcs, LockedPcs, Procs, u
    <3>3. \A d \in Procs : /\ pc'[d] \in DiscardPcs \cup (LockedPcs \ {"row", "write", "update"})
                           /\ uploads'[job'[d].upload].size # 0
              => \/ uploads'[job'[d].upload].expired
                 \/ uploads'[job'[d].upload].received = uploads'[job'[d].upload].size
      <4> SUFFICES ASSUME NEW d \in Procs \ {c},
                          pc[d] \in DiscardPcs \cup (LockedPcs \ {"row", "write", "update"}),
                          uploads'[job[d].upload].size # 0
                   PROVE  \/ uploads'[job[d].upload].expired
                          \/ uploads'[job[d].upload].received = uploads'[job[d].upload].size
        BY <1>2, <1>8, <2>1 DEF Moves, DiscardPcs, LockedPcs, Open, u
      <4>1. job[d].upload \in Uploads /\ Spent(job[d].upload)
        BY <1>1 DEF RowsOK, IdsOK, PutPcs, DiscardPcs, LockedPcs, Procs
      <4> QED BY <1>4, <4>1
    <3>4. \A v \in todo : uploads'[v].size # 0 =>
              uploads'[v].expired \/ uploads'[v].received = uploads'[v].size
      BY <1>1, <1>4 DEF RowsOK, IdsOK, TypeOK
    <3> QED BY <1>2, <3>1, <3>2, <3>3, <3>4 DEF RowsOK, Acceptable, NextOffset, Spent, Open, Procs
  <2>7. FilesOK'
    BY <1>1, <1>2, <2>1 DEF Moves, FilesOK, BlobSound, Procs
  <2>8. StagedOK'
    BY <1>1, <1>2, <1>3, <1>5, <1>6, <2>1
    DEF Moves, StagedOK, Current, NextOffset, IdsOK, PutPcs, LockedPcs, Procs
  <2> QED BY <2>2, <2>3, <2>4, <2>5, <2>6, <2>7, <2>8 DEF IndInv
<1> QED BY <1>7, <1>8, UpdateFacts

-----------------------------------------------------------------------------
(* The final segment.                                                      *)

LEMMA VerifyIndInv ==
    ASSUME IndInv, NEW c \in Conns, Verify(c)
    PROVE  IndInv'
<1>1. TypeOK /\ IdsOK /\ FreshOK /\ LocksOK /\ RowsOK /\ FilesOK /\ StagedOK
  BY DEF IndInv
<1> DEFINE u == job[c].upload
<1>2. pc[c] = "verify" /\ UNCHANGED <<uploads, blobs, tmp, files, used, todo>>
  BY DEF Verify, tableVars, fileVars
<1>3. u \in Uploads /\ u \in used /\ Spent(u)
  BY <1>1, <1>2, ConstantsAssumption DEF IdsOK, RowsOK, PutPcs, LockedPcs, Procs
<1>4. CASE End(c)
  BY <1>2, <1>4, QuietEnd DEF Procs
<1>5. CASE Discard(c, u)
  BY <1>2, <1>3, <1>5, QuietDiscard DEF Procs
<1>6. CASE HasHash(tmp[u], job[c].hash) /\ Goto(c, "find", job[c]) /\ UNCHANGED lockVars
  <2>1. RequestTypeOK' /\ Moves(c, "find", job[c]) /\ UNCHANGED <<want, hold>>
    BY <1>1, <1>6, GotoMoves DEF TypeOK, PcValues, Procs, lockVars
  <2> HIDE DEF u
  <2>2. TypeOK'
    BY <1>1, <1>2, <2>1 DEF TypeOK, RequestTypeOK
  <2>3. IdsOK'
    BY <1>1, <1>2, <2>1, ConstantsAssumption
    DEF Moves, IdsOK, Open, FreshPcs, PutPcs, LockedPcs, DiscardPcs, Procs
  <2>4. FreshOK'
    BY <1>1, <1>2, <2>1, FreshKept DEF FreshPcs, Open, Procs
  <2>5. LocksOK'
    BY <1>1, <1>2, <2>1, LocksStay DEF PutPcs, LockedPcs, Open, Procs
  <2>6. RowsOK'
    BY <1>1, <1>2, <1>3, <2>1, RowsKept DEF Calm, LockedPcs, DiscardPcs, Procs, Spent, Open, u
  <2>7. FilesOK'
    BY <1>1, <1>2, <1>6, <2>1 DEF Moves, FilesOK, BlobSound, Procs, u
  <2>8. StagedOK'
    BY <1>1, <1>2, <2>1 DEF Moves, StagedOK, ResumeSafe, Current, Open, NextOffset, Procs
  <2> QED BY <2>2, <2>3, <2>4, <2>5, <2>6, <2>7, <2>8 DEF IndInv
<1> QED BY <1>4, <1>5, <1>6 DEF Verify

\* A hash without a file has no row either, and while the lock is held
\* nobody else can add one.
LEMMA FindIndInv ==
    ASSUME IndInv, NEW c \in Conns, FindDest(c)
    PROVE  IndInv'
<1>1. TypeOK /\ IdsOK /\ FreshOK /\ LocksOK /\ RowsOK /\ FilesOK /\ StagedOK
  BY DEF IndInv
<1> DEFINE j == [job[c] EXCEPT !.destExisted = (files[job[c].hash] # NoFile)]
<1>2. /\ pc[c] = "find" /\ Goto(c, "move", j)
      /\ UNCHANGED <<uploads, blobs, tmp, files, used, todo, want, hold>>
  BY DEF FindDest, tableVars, fileVars, lockVars
<1>3. /\ j \in Job /\ j.upload = job[c].upload /\ j.hash = job[c].hash
      /\ j.destExisted <=> files[job[c].hash] # NoFile
  BY <1>1 DEF TypeOK, Job, Procs
<1>4. Spent(job[c].upload)
  BY <1>1, <1>2 DEF RowsOK, LockedPcs
<1> HIDE DEF j
<1>5. RequestTypeOK' /\ Moves(c, "move", j)
  BY <1>1, <1>2, <1>3, GotoMoves DEF PcValues, Procs, lockVars
<1>6. TypeOK'
  BY <1>1, <1>2, <1>5 DEF TypeOK, RequestTypeOK
<1>7. IdsOK'
  BY <1>1, <1>2, <1>3, <1>5, ConstantsAssumption
  DEF Moves, IdsOK, Open, FreshPcs, PutPcs, LockedPcs, DiscardPcs, Procs
<1>8. FreshOK'
  BY <1>1, <1>2, <1>3, <1>5, FreshKept DEF FreshPcs, Open, Procs
<1>9. LocksOK'
  BY <1>1, <1>2, <1>3, <1>5, LocksStay DEF PutPcs, LockedPcs, Open, Procs
<1>10. RowsOK'
  BY <1>1, <1>2, <1>3, <1>4, <1>5, RowsKept DEF Calm, LockedPcs, DiscardPcs, Procs, Spent, Open
<1>11. FilesOK'
  BY <1>1, <1>2, <1>3, <1>5 DEF Moves, FilesOK, BlobSound, Procs
<1>12. StagedOK'
  BY <1>1, <1>2, <1>5 DEF Moves, StagedOK, ResumeSafe, Current, Open, NextOffset, Procs
<1> QED BY <1>6, <1>7, <1>8, <1>9, <1>10, <1>11, <1>12 DEF IndInv

\* The staging file of a spent upload goes: nobody counts on it.
LEMMA StagedDropped ==
    ASSUME IndInv, NEW p \in Procs, NEW l, NEW j, Moves(p, l, j), l \notin {"insert", "update"},
           job[p].upload \in Uploads, Spent(job[p].upload),
           tmp' = [tmp EXCEPT ![job[p].upload] = NoFile], UNCHANGED uploads
    PROVE  StagedOK'
<1> DEFINE u == job[p].upload
<1>1. TypeOK /\ FreshOK /\ IdsOK /\ RowsOK /\ StagedOK
  BY DEF IndInv
<1>2. tmp'[u] = NoFile /\ \A v \in Uploads \ {u} : tmp'[v] = tmp[v]
  BY <1>1 DEF TypeOK
<1>3. \A d \in Conns \ {p} : pc[d] = "insert" => job[d].upload # u
  BY <1>1 DEF FreshOK, FreshPcs
<1>4. ASSUME NEW d \in Conns, pc[d] = "update", u \in Current
      PROVE  job[d].upload # u
  <2> SUFFICES ASSUME job[d].upload = u PROVE FALSE
    OBVIOUS
  <2>1. /\ job[d].at = uploads[u].received /\ job[d].at + Len(job[d].bytes) <= uploads[u].size
        /\ job[d].bytes # <<>> /\ uploads[u].received = uploads[u].size
    BY <1>1, <1>4 DEF RowsOK, Spent, Current, Acceptable, NextOffset
  <2>2. Len(job[d].bytes) > 0 /\ job[d].at \in Nat /\ uploads[u].size \in Nat
    BY <1>1, <2>1 DEF TypeOK, Job, Files, UploadRow, Procs
  <2> QED BY <2>1, <2>2
<1>5. u \in Current => ~(uploads[u].received < uploads[u].size)
  BY <1>1 DEF TypeOK, UploadRow, Spent, Current
<1> HIDE DEF u
<1>6. ResumeSafe'
  BY <1>1, <1>2, <1>5 DEF StagedOK, ResumeSafe, Current, Open
<1>7. \A d \in Conns : pc'[d] = "insert" => tmp'[job'[d].upload] # NoFile
  BY <1>1, <1>2, <1>3 DEF StagedOK, Moves, IdsOK, FreshPcs, Procs
<1>8. \A d \in Conns : pc'[d] = "update" /\ job'[d].upload \in Current =>
          tmp'[job'[d].upload] # NoFile /\ Len(tmp'[job'[d].upload]) >= job'[d].at + Len(job'[d].bytes)
  BY <1>1, <1>2, <1>4 DEF StagedOK, Moves, NextOffset, IdsOK, PutPcs, LockedPcs, Procs
<1> QED BY <1>6, <1>7, <1>8 DEF StagedOK, NextOffset, Current, Open

\* What is renamed is what was hashed.
LEMMA MoveIndInv ==
    ASSUME IndInv, NEW c \in Conns, MoveFile(c)
    PROVE  IndInv'
<1>1. TypeOK /\ IdsOK /\ FreshOK /\ LocksOK /\ RowsOK /\ FilesOK /\ StagedOK
  BY DEF IndInv
<1> DEFINE u == job[c].upload
           h == job[c].hash
<1>2. pc[c] = "move" /\ UNCHANGED <<uploads, blobs, used, todo>>
  BY DEF MoveFile, tableVars
<1>3. CASE End(c) /\ UNCHANGED fileVars
  BY <1>2, <1>3, QuietEnd DEF Procs, fileVars
<1>4. CASE /\ job[c].destExisted \/ tmp[u] # NoFile
           /\ files' = IF job[c].destExisted THEN files ELSE [files EXCEPT ![h] = tmp[u]]
           /\ tmp' = [tmp EXCEPT ![u] = NoFile]
           /\ Goto(c, "record", job[c]) /\ UNCHANGED lockVars
  <2>1. RequestTypeOK' /\ Moves(c, "record", job[c]) /\ UNCHANGED <<want, hold>>
    BY <1>1, <1>4, GotoMoves DEF TypeOK, PcValues, Procs, lockVars
  <2>2. u \in Uploads /\ Spent(u) /\ h \in Hashes
    BY <1>1, <1>2 DEF TypeOK, IdsOK, RowsOK, LocksOK, PutPcs, LockedPcs, Procs, Locks!MutexTypeOK
  <2>3. tmp'[u] = NoFile /\ \A v \in Uploads \ {u} : tmp'[v] = tmp[v]
    BY <1>1, <1>4, <2>2 DEF TypeOK
  <2>4. /\ files'[h] # NoFile /\ \A g \in Hashes : files[g] # NoFile => files'[g] # NoFile
        /\ \A g \in Hashes : files'[g] # NoFile => HasHash(files'[g], g)
        /\ files' \in [Hashes -> {NoFile} \cup Files]
    <3>1. CASE job[c].destExisted
      BY <1>1, <1>2, <1>4, <3>1 DEF TypeOK, FilesOK, BlobSound
    <3>2. CASE ~job[c].destExisted
      <4>1. tmp[u] \in Files /\ HasHash(tmp[u], h) /\ tmp[u] # NoFile
        BY <1>1, <1>2, <1>4, <2>2, <3>2 DEF TypeOK, FilesOK
      <4>2. files'[h] = tmp[u] /\ \A g \in Hashes \ {h} : files'[g] = files[g]
        BY <1>1, <1>4, <2>2, <3>2 DEF TypeOK
      <4>3. files' \in [Hashes -> {NoFile} \cup Files]
        BY <1>1, <1>4, <2>2, <3>2, <4>1 DEF TypeOK
      <4> HIDE DEF u, h
      <4> QED BY <1>1, <4>1, <4>2, <4>3 DEF FilesOK, BlobSound
    <3> QED BY <3>1, <3>2
  <2>5. tmp' \in [Uploads -> {NoFile} \cup Files]
    BY <1>1, <1>4, <2>2 DEF TypeOK
  <2>6. \A d \in Conns : pc[d] \in {"find", "move", "record", "undo"} =>
            job[d].upload \in Uploads /\ job[d].hash \in Hashes
    BY <1>1 DEF TypeOK, IdsOK, LocksOK, PutPcs, LockedPcs, Procs, Locks!MutexTypeOK
  <2>7. StagedOK'
    <3>1. c \in Procs /\ "record" \notin {"insert", "update"}
      BY DEF Procs
    <3> QED BY <1>2, <1>4, <2>1, <2>2, <3>1, StagedDropped
  <2> HIDE DEF u, h
  <2>8. TypeOK'
    BY <1>1, <1>2, <2>1, <2>4, <2>5 DEF TypeOK, RequestTypeOK
  <2>9. IdsOK'
    BY <1>1, <1>2, <2>1, ConstantsAssumption
    DEF Moves, IdsOK, Open, FreshPcs, PutPcs, LockedPcs, DiscardPcs, Procs
  <2>10. FreshOK'
    BY <1>1, <1>2, <2>1, FreshKept DEF FreshPcs, Open, Procs
  <2>11. LocksOK'
    BY <1>1, <1>2, <2>1, LocksStay DEF PutPcs, LockedPcs, Open, Procs
  <2>12. RowsOK'
    BY <1>1, <1>2, <2>1, <2>2, RowsKept DEF Calm, LockedPcs, DiscardPcs, Procs, Spent, Open, u
  <2>13. FilesOK'
    <3>1. \A d \in Conns : pc'[d] \in {"find", "move"} =>
              tmp'[job'[d].upload] = NoFile \/ HasHash(tmp'[job'[d].upload], job'[d].hash)
      BY <1>1, <2>1, <2>3, <2>6 DEF Moves, FilesOK, Procs
    <3>2. \A d \in Conns : pc'[d] \in {"move", "record", "undo"} =>
              IF job'[d].destExisted THEN files'[job'[d].hash] # NoFile ELSE job'[d].hash \notin blobs
      BY <1>1, <1>2, <2>1, <2>4, <2>6 DEF Moves, FilesOK, Procs
    <3>3. \A d \in Conns : pc'[d] = "record" => files'[job'[d].hash] # NoFile
      BY <1>1, <2>1, <2>4, <2>6 DEF Moves, FilesOK, Procs, h
    <3>4. BlobSound'
      BY <1>1, <1>2, <2>4 DEF TypeOK, FilesOK, BlobSound
    <3> QED BY <1>2, <3>1, <3>2, <3>3, <3>4 DEF FilesOK
  <2> QED BY <2>8, <2>9, <2>10, <2>11, <2>12, <2>13, <2>7 DEF IndInv
<1> QED BY <1>3, <1>4 DEF MoveFile

\* Only the holder of the lock adds the row, and its file is there.
LEMMA RecordIndInv ==
    ASSUME IndInv, NEW c \in Conns, RecordBlob(c)
    PROVE  IndInv'
<1>1. TypeOK /\ IdsOK /\ FreshOK /\ LocksOK /\ RowsOK /\ FilesOK /\ StagedOK
  BY DEF IndInv
<1> DEFINE h == job[c].hash
<1>2. pc[c] = "record" /\ UNCHANGED <<uploads, tmp, files, used, todo, want, hold>>
  BY DEF RecordBlob, fileVars, lockVars
<1>3. h \in Hashes /\ files[h] # NoFile /\ Spent(job[c].upload)
  BY <1>1, <1>2
  DEF TypeOK, FilesOK, RowsOK, LocksOK, PutPcs, LockedPcs, Procs, Locks!MutexTypeOK
<1>4. \A d \in Conns : pc[d] \in LockedPcs \ {"row"} /\ job[d].hash = h => d = c
  BY <1>1, <1>2, OneWriter DEF LockedPcs
<1>5. CASE blobs' = blobs \cup {h} /\ Goto(c, "close", job[c])
  <2>1. RequestTypeOK' /\ Moves(c, "close", job[c])
    BY <1>1, <1>2, <1>5, GotoMoves DEF TypeOK, PcValues, Procs, lockVars
  <2> HIDE DEF h
  <2>2. TypeOK'
    BY <1>1, <1>2, <1>3, <1>5, <2>1 DEF TypeOK, RequestTypeOK
  <2>3. IdsOK'
    BY <1>1, <1>2, <2>1, ConstantsAssumption
    DEF Moves, IdsOK, Open, FreshPcs, PutPcs, LockedPcs, DiscardPcs, Procs
  <2>4. FreshOK'
    BY <1>1, <1>2, <2>1, FreshKept DEF FreshPcs, Open, Procs
  <2>5. LocksOK'
    BY <1>1, <1>2, <2>1, LocksStay DEF PutPcs, LockedPcs, Open, Procs
  <2>6. RowsOK'
    BY <1>1, <1>2, <1>3, <2>1, RowsKept DEF Calm, LockedPcs, DiscardPcs, Procs, Spent, Open
  <2>7. FilesOK'
    BY <1>1, <1>2, <1>3, <1>4, <1>5, <2>1 DEF Moves, FilesOK, BlobSound, Procs, LockedPcs
  <2>8. StagedOK'
    BY <1>1, <1>2, <2>1 DEF Moves, StagedOK, ResumeSafe, Current, Open, NextOffset, Procs
  <2> QED BY <2>2, <2>3, <2>4, <2>5, <2>6, <2>7, <2>8 DEF IndInv
<1>6. CASE Goto(c, "undo", job[c]) /\ UNCHANGED blobs
  <2>1. RequestTypeOK' /\ Moves(c, "undo", job[c])
    BY <1>1, <1>2, <1>6, GotoMoves DEF TypeOK, PcValues, Procs, lockVars
  <2> HIDE DEF h
  <2>2. TypeOK'
    BY <1>1, <1>2, <1>6, <2>1 DEF TypeOK, RequestTypeOK
  <2>3. IdsOK'
    BY <1>1, <1>2, <1>6, <2>1, ConstantsAssumption
    DEF Moves, IdsOK, Open, FreshPcs, PutPcs, LockedPcs, DiscardPcs, Procs
  <2>4. FreshOK'
    BY <1>1, <1>2, <1>6, <2>1, FreshKept DEF FreshPcs, Open, Procs
  <2>5. LocksOK'
    BY <1>1, <1>2, <2>1, LocksStay DEF PutPcs, LockedPcs, Open, Procs
  <2>6. RowsOK'
    BY <1>1, <1>2, <1>3, <2>1, RowsKept DEF Calm, LockedPcs, DiscardPcs, Procs, Spent, Open
  <2>7. FilesOK'
    BY <1>1, <1>2, <1>6, <2>1 DEF Moves, FilesOK, BlobSound, Procs
  <2>8. StagedOK'
    BY <1>1, <1>2, <1>6, <2>1 DEF Moves, StagedOK, ResumeSafe, Current, Open, NextOffset, Procs
  <2> QED BY <2>2, <2>3, <2>4, <2>5, <2>6, <2>7, <2>8 DEF IndInv
<1> QED BY <1>5, <1>6 DEF RecordBlob

\* The file that is removed has no row: it was not there before, and the
\* lock kept others from adding one.
LEMMA UndoIndInv ==
    ASSUME IndInv, NEW c \in Conns, UndoMove(c)
    PROVE  IndInv'
<1>1. TypeOK /\ IdsOK /\ FreshOK /\ LocksOK /\ RowsOK /\ FilesOK /\ StagedOK
  BY DEF IndInv
<1> DEFINE h == job[c].hash
           j == [job[c] EXCEPT !.upload = job[c].upload]
<1>2. /\ pc[c] = "undo" /\ UNCHANGED <<uploads, blobs, tmp, used, todo, want, hold>>
      /\ files' = IF job[c].destExisted THEN files ELSE [files EXCEPT ![h] = NoFile]
      /\ Goto(c, "discard_row", j)
  BY DEF UndoMove, Discard, tableVars, lockVars
<1>3. h \in Hashes /\ Spent(job[c].upload) /\ job[c].upload \in Uploads
  BY <1>1, <1>2
  DEF TypeOK, IdsOK, RowsOK, LocksOK, PutPcs, LockedPcs, Procs, Locks!MutexTypeOK
<1>4. \A d \in Conns : pc[d] \in LockedPcs \ {"row"} /\ job[d].hash = h => d = c
  BY <1>1, <1>2, OneWriter DEF LockedPcs
<1>5. j \in Job /\ j.upload = job[c].upload
  BY <1>1 DEF TypeOK, Job, Procs
<1>6. \A g \in Hashes : files'[g] = files[g] \/ (g = h /\ files'[g] = NoFile /\ g \notin blobs)
  BY <1>1, <1>2, <1>3 DEF TypeOK, FilesOK
<1>7. files' \in [Hashes -> {NoFile} \cup Files]
  BY <1>1, <1>2, <1>3 DEF TypeOK
<1>8. \A d \in Conns : pc[d] \in LockedPcs \ {"row"} => job[d].hash \in Hashes
  BY <1>1 DEF TypeOK, LocksOK, PutPcs, Locks!MutexTypeOK
<1> HIDE DEF h, j
<1>9. RequestTypeOK' /\ Moves(c, "discard_row", j)
  BY <1>1, <1>2, <1>5, GotoMoves DEF PcValues, Procs, lockVars
<1>10. TypeOK'
  BY <1>1, <1>2, <1>7, <1>9 DEF TypeOK, RequestTypeOK
<1>11. IdsOK'
  BY <1>1, <1>2, <1>3, <1>5, <1>9, ConstantsAssumption
  DEF Moves, IdsOK, Open, FreshPcs, PutPcs, LockedPcs, DiscardPcs, Procs
<1>12. FreshOK'
  BY <1>1, <1>2, <1>5, <1>9, FreshKept DEF FreshPcs, Open, Procs
<1>13. LocksOK'
  BY <1>1, <1>2, <1>5, <1>9, LocksLeft DEF PutPcs, LockedPcs, Open, Procs
<1>14. RowsOK'
  BY <1>1, <1>2, <1>3, <1>5, <1>9, RowsKept DEF Calm, LockedPcs, DiscardPcs, Procs, Spent, Open
<1>15. FilesOK'
  BY <1>1, <1>2, <1>4, <1>6, <1>8, <1>9 DEF Moves, FilesOK, BlobSound, Procs, LockedPcs, TypeOK
<1>16. StagedOK'
  BY <1>1, <1>2, <1>9 DEF Moves, StagedOK, ResumeSafe, Current, Open, NextOffset, Procs
<1> QED BY <1>10, <1>11, <1>12, <1>13, <1>14, <1>15, <1>16 DEF IndInv

\* Rows that go take no promise with them.
LEMMA RowDropped ==
    ASSUME IndInv, NEW p \in Procs, NEW l, NEW j, Moves(p, l, j),
           l \notin PutPcs \cup FreshPcs,
           \A v \in Uploads : uploads'[v] = uploads[v] \/ uploads'[v] = NoRow,
           UNCHANGED tmp
    PROVE  (\A v \in Uploads : Calm(v) /\ (Open(v)' => Open(v) /\ uploads'[v] = uploads[v])) /\ StagedOK'
<1>1. StagedOK /\ IdsOK
  BY DEF IndInv
<1>2. \A v \in Uploads : Calm(v) /\ (Open(v)' => Open(v) /\ uploads'[v] = uploads[v])
  BY DEF Calm, Open, NoRow
<1>3. Current' \subseteq Current
  BY <1>2 DEF Current
<1>4. ResumeSafe'
  BY <1>1, <1>2, <1>3 DEF StagedOK, ResumeSafe, Current
<1>5. \A d \in Conns : pc'[d] \in {"insert", "update"} => d # p /\ pc'[d] = pc[d] /\ job'[d] = job[d]
  BY DEF Moves, PutPcs, LockedPcs, FreshPcs, Procs
<1> QED BY <1>1, <1>2, <1>3, <1>4, <1>5 DEF StagedOK, NextOffset

LEMMA CloseIndInv ==
    ASSUME IndInv, NEW c \in Conns, CloseUpload(c)
    PROVE  IndInv'
<1>1. TypeOK /\ IdsOK /\ FreshOK /\ LocksOK /\ RowsOK /\ FilesOK /\ StagedOK
  BY DEF IndInv
<1> DEFINE u == job[c].upload
<1>2. /\ pc[c] = "close" /\ uploads' = [uploads EXCEPT ![u] = NoRow] /\ End(c)
      /\ UNCHANGED <<blobs, tmp, files, used, todo>>
  BY DEF CloseUpload, fileVars
<1>3. u \in Uploads
  BY <1>1, <1>2 DEF IdsOK, PutPcs, LockedPcs, Procs
<1>4. RequestTypeOK' /\ Moves(c, "idle", NoJob) /\ c \notin hold'
  BY <1>1, <1>2, EndMoves DEF Procs
<1>5. NoJob.upload = NoUpload /\ NoUpload \notin Uploads
  BY ConstantsAssumption DEF NoJob
<1>6. /\ uploads' \in [Uploads -> UploadRow]
      /\ \A v \in Uploads : uploads'[v] = uploads[v] \/ uploads'[v] = NoRow
  BY <1>1, <1>2, <1>3 DEF TypeOK, UploadRow, NoRow
<1> HIDE DEF u
<1>7. c \in Procs /\ "idle" \notin PutPcs \cup FreshPcs
  BY DEF Procs, PutPcs, LockedPcs, FreshPcs
<1>8. /\ \A v \in Uploads : Calm(v) /\ (Open(v)' => Open(v) /\ uploads'[v] = uploads[v])
      /\ StagedOK'
  BY <1>2, <1>3, <1>4, <1>6, <1>7, RowDropped
<1>9. TypeOK'
  BY <1>1, <1>2, <1>4, <1>6 DEF TypeOK, RequestTypeOK, NoRow
<1>10. IdsOK'
  BY <1>1, <1>2, <1>4, <1>5, <1>8, ConstantsAssumption
  DEF Moves, IdsOK, Open, FreshPcs, PutPcs, LockedPcs, DiscardPcs, Procs
<1>11. FreshOK'
  BY <1>1, <1>2, <1>4, <1>5, <1>8, FreshKept DEF FreshPcs, Open, Procs
<1>12. LocksOK'
  BY <1>1, <1>4, <1>7, <1>8, LocksLeft DEF PutPcs, LockedPcs, Open, Procs, IdsOK
<1>13. RowsOK'
  BY <1>1, <1>2, <1>4, <1>7, <1>8, RowsKept DEF IdsOK, TypeOK, LockedPcs, DiscardPcs
<1>14. FilesOK'
  BY <1>1, <1>2, <1>4 DEF Moves, FilesOK, BlobSound, Procs
<1> QED BY <1>9, <1>10, <1>11, <1>12, <1>13, <1>14, <1>8 DEF IndInv

-----------------------------------------------------------------------------
(* discard_upload and the sweeper.                                         *)

LEMMA DiscardRowIndInv ==
    ASSUME IndInv, NEW p \in Procs, DiscardRow(p)
    PROVE  IndInv'
<1>1. TypeOK /\ IdsOK /\ FreshOK /\ LocksOK /\ RowsOK /\ FilesOK /\ StagedOK
  BY DEF IndInv
<1> DEFINE u == job[p].upload
<1>2. /\ pc[p] = "discard_row" /\ Goto(p, "discard_file", job[p])
      /\ uploads' = [uploads EXCEPT ![u] = NoRow] \/ uploads' = uploads
      /\ UNCHANGED <<blobs, tmp, files, used, todo, want, hold>>
  BY DEF DiscardRow, fileVars, lockVars
<1>3. u \in Uploads /\ Spent(u)
  BY <1>1, <1>2 DEF IdsOK, RowsOK, DiscardPcs
<1>4. RequestTypeOK' /\ Moves(p, "discard_file", job[p])
  BY <1>1, <1>2, GotoMoves DEF TypeOK, PcValues, lockVars
<1>5. /\ uploads' \in [Uploads -> UploadRow]
      /\ \A v \in Uploads : uploads'[v] = uploads[v] \/ uploads'[v] = NoRow
  <2>1. NoRow \in UploadRow
    BY DEF NoRow, UploadRow
  <2> QED BY <1>1, <1>2, <1>3, <2>1 DEF TypeOK
<1>6. "discard_file" \notin PutPcs \cup FreshPcs
  BY DEF PutPcs, LockedPcs, FreshPcs
<1> HIDE DEF u
<1>7. /\ \A v \in Uploads : Calm(v) /\ (Open(v)' => Open(v) /\ uploads'[v] = uploads[v])
      /\ StagedOK'
  BY <1>2, <1>3, <1>4, <1>5, <1>6, RowDropped
<1>8. TypeOK'
  BY <1>1, <1>2, <1>4, <1>5 DEF TypeOK, RequestTypeOK, NoRow
<1>9. IdsOK'
  BY <1>1, <1>2, <1>3, <1>4, <1>7, ConstantsAssumption
  DEF Moves, IdsOK, Open, FreshPcs, PutPcs, LockedPcs, DiscardPcs, Procs, u
<1>10. FreshOK'
  BY <1>1, <1>2, <1>4, <1>7, FreshKept DEF FreshPcs, Open, Procs
<1>11. LocksOK'
  BY <1>1, <1>2, <1>4, <1>6, <1>7, LocksLeft DEF PutPcs, LockedPcs, Open, Procs, IdsOK
<1>12. RowsOK'
  BY <1>1, <1>2, <1>3, <1>4, <1>7, RowsKept
  DEF Calm, LockedPcs, DiscardPcs, Procs, IdsOK, TypeOK, Spent, Open, u
<1>13. FilesOK'
  BY <1>1, <1>2, <1>4 DEF Moves, FilesOK, BlobSound, Procs
<1> QED BY <1>8, <1>9, <1>10, <1>11, <1>12, <1>13, <1>7 DEF IndInv

LEMMA DiscardFileIndInv ==
    ASSUME IndInv, NEW p \in Procs, DiscardFile(p)
    PROVE  IndInv'
<1>1. TypeOK /\ IdsOK /\ FreshOK /\ LocksOK /\ RowsOK /\ FilesOK /\ StagedOK
  BY DEF IndInv
<1> DEFINE u == job[p].upload
<1>2. /\ pc[p] = "discard_file" /\ tmp' = [tmp EXCEPT ![u] = NoFile]
      /\ UNCHANGED <<uploads, blobs, files, used, todo>>
      /\ \/ p = Sweeper /\ Goto(p, "sweep", NoJob) /\ UNCHANGED <<want, hold>>
         \/ p # Sweeper /\ End(p)
  BY DEF DiscardFile, tableVars, lockVars
<1>3. u \in Uploads /\ Spent(u)
  BY <1>1, <1>2 DEF IdsOK, RowsOK, DiscardPcs
<1>4. NoJob \in Job /\ NoJob.upload = NoUpload /\ NoUpload \notin Uploads
  BY ConstantsAssumption, EmptyFile DEF NoJob, Job
<1>5. PICK l \in {"sweep", "idle"} :
          /\ RequestTypeOK' /\ Moves(p, l, NoJob) /\ p \notin hold'
          /\ l = "sweep" => p = Sweeper
  <2>1. CASE p = Sweeper /\ Goto(p, "sweep", NoJob) /\ UNCHANGED <<want, hold>>
    <3>1. RequestTypeOK' /\ Moves(p, "sweep", NoJob)
      BY <1>1, <1>4, <2>1, GotoMoves DEF PcValues, lockVars
    <3>2. p \notin hold'
      BY <1>1, <2>1, ConstantsAssumption DEF TypeOK, Locks!MutexTypeOK
    <3> QED BY <2>1, <3>1, <3>2
  <2>2. CASE p # Sweeper /\ End(p)
    BY <1>1, <2>2, EndMoves
  <2> QED BY <1>2, <2>1, <2>2
<1>6. tmp'[u] = NoFile /\ \A v \in Uploads \ {u} : tmp'[v] = tmp[v]
  BY <1>1, <1>2, <1>3 DEF TypeOK
<1>7. tmp' \in [Uploads -> {NoFile} \cup Files]
  BY <1>1, <1>2, <1>3 DEF TypeOK
<1>8. l \notin {"insert", "update"} /\ l \notin PutPcs /\ l \notin FreshPcs
  BY DEF PutPcs, LockedPcs, FreshPcs
<1>9. StagedOK'
  BY <1>2, <1>3, <1>5, <1>8, StagedDropped
<1> HIDE DEF u
<1>10. TypeOK'
  BY <1>1, <1>2, <1>5, <1>7 DEF TypeOK, RequestTypeOK
<1>11. IdsOK'
  BY <1>1, <1>2, <1>4, <1>5, ConstantsAssumption
  DEF Moves, IdsOK, Open, FreshPcs, PutPcs, LockedPcs, DiscardPcs, Procs
<1>12. FreshOK'
  BY <1>1, <1>2, <1>4, <1>5, <1>8, FreshKept DEF FreshPcs, Open, Procs
<1>13. LocksOK'
  BY <1>1, <1>2, <1>5, <1>8, LocksLeft DEF Open
<1>14. RowsOK'
  BY <1>1, <1>2, <1>5, RowsKept DEF Calm, LockedPcs, DiscardPcs, Procs
<1>15. FilesOK'
  BY <1>1, <1>2, <1>5, <1>6 DEF Moves, FilesOK, BlobSound, Procs, IdsOK, PutPcs, LockedPcs
<1> QED BY <1>10, <1>11, <1>12, <1>13, <1>14, <1>15, <1>9 DEF IndInv

\* The sweeper lists expired uploads only.
LEMMA SweepIndInv ==
    ASSUME IndInv, StartSweep
    PROVE  IndInv'
<1>1. TypeOK /\ IdsOK /\ FreshOK /\ LocksOK /\ RowsOK /\ FilesOK /\ StagedOK
  BY DEF IndInv
<1>2. /\ pc[Sweeper] = "idle" /\ Goto(Sweeper, "sweep", NoJob)
      /\ todo' = {u \in Uploads : Open(u) /\ uploads[u].expired}
      /\ UNCHANGED <<uploads, blobs, tmp, files, used, want, hold>>
  BY DEF StartSweep, tableVars, fileVars, lockVars
<1>3. NoJob \in Job /\ NoJob.upload = NoUpload /\ NoUpload \notin Uploads
  BY ConstantsAssumption, EmptyFile DEF NoJob, Job
<1>4. RequestTypeOK' /\ Moves(Sweeper, "sweep", NoJob)
  BY <1>1, <1>2, <1>3, GotoMoves DEF PcValues, Procs, lockVars
<1>5. TypeOK'
  BY <1>1, <1>2, <1>4 DEF TypeOK, RequestTypeOK
<1>6. IdsOK'
  BY <1>1, <1>2, <1>3, <1>4, ConstantsAssumption
  DEF Moves, IdsOK, Open, FreshPcs, PutPcs, LockedPcs, DiscardPcs, Procs
<1>7. FreshOK'
  BY <1>1, <1>2, <1>3, <1>4, FreshKept DEF FreshPcs, Open, Procs
<1>8. LocksOK'
  BY <1>1, <1>2, <1>4, LocksLeft DEF PutPcs, LockedPcs, Open, Procs
<1>9. RowsOK'
  BY <1>1, <1>2, <1>4, RowsKept DEF Calm, LockedPcs, DiscardPcs, Procs
<1>10. FilesOK'
  BY <1>1, <1>2, <1>4 DEF Moves, FilesOK, BlobSound, Procs
<1>11. StagedOK'
  BY <1>1, <1>2, <1>4 DEF Moves, StagedOK, ResumeSafe, Current, Open, NextOffset, Procs
<1> QED BY <1>5, <1>6, <1>7, <1>8, <1>9, <1>10, <1>11 DEF IndInv

LEMMA SweepNextIndInv ==
    ASSUME IndInv, SweepNext
    PROVE  IndInv'
<1>1. Sweeper \in Procs /\ UNCHANGED <<uploads, blobs, tmp, files, used>>
  BY DEF SweepNext, tableVars, fileVars, Procs
<1>2. CASE \E u \in todo : todo' = todo \ {u} /\ Discard(Sweeper, u)
  <2>1. PICK u \in todo : todo' = todo \ {u} /\ Discard(Sweeper, u)
    BY <1>2
  <2>2. u \in used /\ Spent(u)
    BY DEF IndInv, IdsOK, RowsOK
  <2> QED BY <1>1, <2>1, <2>2, QuietDiscard
<1>3. CASE End(Sweeper) /\ UNCHANGED todo
  BY <1>1, <1>3, QuietEnd
<1> QED BY <1>2, <1>3 DEF SweepNext

LEMMA AbortIndInv ==
    ASSUME IndInv, NEW p \in Procs, Abort(p)
    PROVE  IndInv'
<1>1. /\ End(p) /\ todo' \subseteq todo
      /\ UNCHANGED <<uploads, blobs, tmp, files, used>>
  BY DEF Abort, tableVars, fileVars
<1> QED BY <1>1, QuietEnd

\* An upload that expires asks less of everybody.
LEMMA ExpireIndInv ==
    ASSUME IndInv, NEW u \in Uploads, Expire(u)
    PROVE  IndInv'
<1>1. TypeOK /\ IdsOK /\ FreshOK /\ LocksOK /\ RowsOK /\ FilesOK /\ StagedOK
  BY DEF IndInv
<1>2. /\ uploads' = [uploads EXCEPT ![u].expired = TRUE]
      /\ UNCHANGED <<blobs, tmp, files, used, pc, job, todo, want, hold>>
  BY DEF Expire, fileVars, lockVars
<1>3. /\ uploads'[u] = [uploads[u] EXCEPT !.expired = TRUE]
      /\ \A v \in Uploads \ {u} : uploads'[v] = uploads[v]
  BY <1>1, <1>2 DEF TypeOK
<1>4. uploads[u] \in UploadRow /\ uploads'[u] \in UploadRow
  BY <1>1, <1>3 DEF TypeOK, UploadRow
<1>5. /\ uploads'[u].hash = uploads[u].hash /\ uploads'[u].size = uploads[u].size
      /\ uploads'[u].received = uploads[u].received /\ uploads'[u].expired
  BY <1>3, <1>4 DEF UploadRow
<1>6. \A v \in Uploads : Calm(v) /\ (Open(v)' <=> Open(v)) /\ uploads'[v].hash = uploads[v].hash
  BY <1>3, <1>5 DEF Calm, Open
<1>7. uploads' \in [Uploads -> UploadRow]
  BY <1>1, <1>2, <1>3, <1>4 DEF TypeOK
<1>8. Sweeper \in Procs /\ Moves(Sweeper, pc[Sweeper], job[Sweeper])
  BY <1>2 DEF Moves, Procs
<1>9. TypeOK'
  BY <1>1, <1>2, <1>3, <1>5, <1>7 DEF TypeOK, Locks!MutexTypeOK
<1>10. IdsOK' /\ FreshOK'
  BY <1>1, <1>2, <1>6
  DEF IdsOK, FreshOK, Open, FreshPcs, PutPcs, LockedPcs, DiscardPcs, Procs
<1>11. LocksOK'
  BY <1>1, <1>2, <1>6
  DEF LocksOK, IdsOK, Open, FreshPcs, PutPcs, LockedPcs, DiscardPcs, Procs, Locks!MutualExclusion
<1>12. RowsOK'
  <2>1. pc[Sweeper] \in {"idle", "sweep"} \cup DiscardPcs
    BY <1>1 DEF IdsOK
  <2>2. pc[Sweeper] \in DiscardPcs => Spent(job[Sweeper].upload) /\ job[Sweeper].upload \in Uploads
    BY <1>1, <1>8 DEF RowsOK, IdsOK
  <2> QED
    BY <1>1, <1>2, <1>6, <1>8, <2>1, <2>2, RowsKept
    DEF Calm, Spent, Open, IdsOK, TypeOK, LockedPcs, DiscardPcs
<1>13. FilesOK'
  BY <1>1, <1>2 DEF FilesOK, BlobSound
<1>14. Current' \subseteq Current
  BY <1>6 DEF Current, Calm, Open
<1>15. ResumeSafe'
  BY <1>1, <1>2, <1>6, <1>14 DEF StagedOK, ResumeSafe, Calm, Current, Open
<1>16. StagedOK'
  BY <1>1, <1>2, <1>14, <1>15 DEF StagedOK, NextOffset
<1> QED BY <1>9, <1>10, <1>11, <1>12, <1>13, <1>16 DEF IndInv

-----------------------------------------------------------------------------
LEMMA NextIndInv == IndInv /\ [Next]_vars => IndInv'
<1> SUFFICES ASSUME IndInv, [Next]_vars PROVE IndInv'
  OBVIOUS
<1>1. CASE UNCHANGED vars
  <2>1. UNCHANGED <<uploads, blobs, tmp, files, used, pc, job, todo, want, hold>>
    BY <1>1 DEF vars, tableVars, fileVars, lockVars
  <2> QED
    BY <2>1
    DEF IndInv, TypeOK, IdsOK, FreshOK, LocksOK, RowsOK, FilesOK, StagedOK, Open, Spent, Current,
        Acceptable, NextOffset, BlobSound, ResumeSafe, Locks!MutexTypeOK, Locks!MutualExclusion
<1>2. ASSUME NEW c \in Conns,
             \/ CreateUpload(c) \/ AdmitUpload(c) \/ StageFile(c) \/ InsertUpload(c)
             \/ GetUpload(c)
             \/ PutUpload(c) \/ LockUpload(c) \/ ReadRow(c) \/ WriteSegment(c) \/ UpdateReceived(c)
             \/ Verify(c) \/ FindDest(c) \/ MoveFile(c) \/ RecordBlob(c) \/ UndoMove(c) \/ CloseUpload(c)
      PROVE  IndInv'
  BY <1>2, CreateIndInv, AdmitIndInv, StageIndInv, InsertIndInv, GetIndInv, PutIndInv, LockIndInv,
     RowIndInv, WriteIndInv, UpdateIndInv, VerifyIndInv, FindIndInv, MoveIndInv, RecordIndInv,
     UndoIndInv, CloseIndInv
<1>3. ASSUME NEW p \in Procs, DiscardRow(p) \/ DiscardFile(p) \/ Abort(p)
      PROVE  IndInv'
  BY <1>3, DiscardRowIndInv, DiscardFileIndInv, AbortIndInv
<1>4. CASE StartSweep \/ SweepNext
  BY <1>4, SweepIndInv, SweepNextIndInv
<1>5. ASSUME NEW u \in Uploads, Expire(u)
      PROVE  IndInv'
  BY <1>5, ExpireIndInv
<1> QED BY <1>1, <1>2, <1>3, <1>4, <1>5 DEF Next

LEMMA SpecIndInv == Spec => []IndInv
<1>1. Init => IndInv
  BY InitIndInv
<1>2. IndInv /\ [Next]_vars => IndInv'
  BY NextIndInv
<1> QED BY <1>1, <1>2, PTL DEF Spec

\* Rows, files and requests have their types, and no upload has received
\* more than its claimed size, whatever PUTs, discards and sweeps interleave.
THEOREM UploadTypes == Spec => []TypeOK
<1>1. IndInv => TypeOK
  BY DEF IndInv
<1> QED BY <1>1, SpecIndInv, PTL

\* A blob that is stored is there and has its hash: the lock of put_upload
\* keeps the file that was hashed until it is renamed, and undoing the rename
\* never takes the file of a row.
THEOREM BlobsSound == Spec => []BlobSound
<1>1. IndInv => BlobSound
  BY DEF IndInv, FilesOK
<1> QED BY <1>1, SpecIndInv, PTL

\* The staging file of an open upload holds every byte the server counts as
\* received, wherever a PUT was cut off: it is written before it is counted,
\* and discarded only when the upload has expired or is complete.
THEOREM ResumesSafe == Spec => []ResumeSafe
<1>1. IndInv => ResumeSafe
  BY DEF IndInv, StagedOK
<1> QED BY <1>1, SpecIndInv, PTL

-----------------------------------------------------------------------------
(* Received bytes stay.                                                    *)

\* The rows and staging files a step leaves as they are.
KeepsReceived(u) ==
    u \in Current /\ Open(u)' /\ uploads[u].received < uploads[u].size =>
        /\ uploads'[u].received >= uploads[u].received
        /\ tmp'[u] # NoFile => \A i \in 1..uploads[u].received : tmp'[u][i] = tmp[u][i]

\* Every step but a write and an update leaves an open row its offset, and
\* its staging file as it is or gone.
LEMMA OthersKeep ==
    ASSUME TypeOK, NEW u \in Uploads,
           Open(u) /\ Open(u)' => uploads'[u].received = uploads[u].received,
           tmp'[u] = tmp[u] \/ tmp'[u] = NoFile
    PROVE  KeepsReceived(u)
BY DEF TypeOK, UploadRow, KeepsReceived, Current

LEMMA StepKeeps ==
    ASSUME IndInv, Next, NEW u \in Uploads
    PROVE  KeepsReceived(u)
<1>1. TypeOK /\ IdsOK /\ FreshOK /\ RowsOK /\ StagedOK
  BY DEF IndInv
<1> DEFINE OffsetStays == Open(u) /\ Open(u)' => uploads'[u].received = uploads[u].received
           FileStays == tmp'[u] = tmp[u] \/ tmp'[u] = NoFile
<1>2. ASSUME NEW c \in Conns,
             \/ CreateUpload(c) \/ AdmitUpload(c) \/ GetUpload(c) \/ PutUpload(c) \/ LockUpload(c)
             \/ ReadRow(c) \/ Verify(c) \/ FindDest(c) \/ RecordBlob(c) \/ UndoMove(c)
      PROVE  OffsetStays /\ FileStays
  <2>1. UNCHANGED <<uploads, tmp>>
    BY <1>2
    DEF CreateUpload, AdmitUpload, GetUpload, PutUpload, LockUpload, ReadRow, Verify, FindDest,
        RecordBlob, UndoMove, tableVars, fileVars
  <2> QED BY <2>1
\* A create works on an id without a row.
<1>3. ASSUME NEW c \in Conns, StageFile(c) \/ InsertUpload(c)
      PROVE  KeepsReceived(u)
  <2>1. job[c].upload \in Uploads /\ ~Open(job[c].upload)
    BY <1>1, <1>3 DEF StageFile, InsertUpload, IdsOK, FreshOK, FreshPcs, Procs
  <2>2. CASE u = job[c].upload
    BY <2>1, <2>2 DEF KeepsReceived, Current
  <2>3. CASE u # job[c].upload
    <3>1. OffsetStays /\ FileStays
      BY <1>1, <1>3, <2>1, <2>3 DEF StageFile, InsertUpload, TypeOK, tableVars, fileVars
    <3> QED BY <1>1, <3>1, OthersKeep
  <2> QED BY <2>2, <2>3
\* A PUT writes from the offset on, in a file that reaches up to it.
<1>4. ASSUME NEW c \in Conns, WriteSegment(c)
      PROVE  KeepsReceived(u)
  <2>1. /\ pc[c] = "write" /\ UNCHANGED uploads
        /\ \A v \in Uploads \ {job[c].upload} : tmp'[v] = tmp[v]
        /\ tmp[job[c].upload] # NoFile =>
              \A i \in 1..Len(tmp[job[c].upload]) :
                  i <= job[c].at => tmp'[job[c].upload][i] = tmp[job[c].upload][i]
    BY <1>4, WriteFacts
  <2>2. CASE u # job[c].upload
    BY <1>1, <2>1, <2>2, OthersKeep
  <2>3. CASE u = job[c].upload
    <3> SUFFICES ASSUME u \in Current, uploads[u].received < uploads[u].size,
                        NEW i \in 1..uploads[u].received
                 PROVE  uploads[u].received >= uploads[u].received /\ tmp'[u][i] = tmp[u][i]
      BY <1>1, <2>1 DEF KeepsReceived, TypeOK, UploadRow
    <3>1. tmp[u] # NoFile /\ Len(tmp[u]) >= uploads[u].received
      BY <1>1 DEF StagedOK, ResumeSafe
    <3>2. job[c].at = uploads[u].received
      BY <1>1, <2>1, <2>3 DEF RowsOK, Acceptable, Current
    <3>3. uploads[u].received \in Nat /\ Len(tmp[u]) \in Nat
      BY <1>1, <3>1 DEF TypeOK, UploadRow, Files
    <3> QED BY <2>1, <2>3, <3>1, <3>2, <3>3
  <2> QED BY <2>2, <2>3
\* An update moves the offset forward.
<1>5. ASSUME NEW c \in Conns, UpdateReceived(c)
      PROVE  KeepsReceived(u)
  <2>1. /\ tmp' = tmp /\ uploads' \in [Uploads -> UploadRow]
        /\ \A v \in Uploads \ {job[c].upload} : uploads'[v] = uploads[v]
        /\ Open(job[c].upload) =>
              /\ uploads'[job[c].upload].received = NextOffset(c)
              /\ uploads[job[c].upload].received < NextOffset(c)
    BY <1>5, UpdateFacts
  <2>2. CASE u # job[c].upload
    BY <1>1, <2>1, <2>2, OthersKeep
  <2>3. CASE u = job[c].upload
    <3>1. uploads[u].received \in Nat /\ uploads'[u].received \in Nat
      BY <1>1, <2>1 DEF TypeOK, UploadRow
    <3> QED BY <2>1, <2>3, <3>1 DEF KeepsReceived, Current
  <2> QED BY <2>2, <2>3
<1>6. ASSUME NEW c \in Conns, MoveFile(c) \/ CloseUpload(c)
      PROVE  OffsetStays /\ FileStays
  <2>1. job[c].upload \in Uploads
    BY <1>1, <1>6 DEF MoveFile, CloseUpload, IdsOK, PutPcs, LockedPcs, Procs
  <2> QED
    BY <1>1, <1>6, <2>1 DEF MoveFile, CloseUpload, TypeOK, Open, NoRow, tableVars, fileVars
<1>7. ASSUME NEW p \in Procs, DiscardRow(p) \/ DiscardFile(p) \/ Abort(p)
      PROVE  OffsetStays /\ FileStays
  <2>1. CASE Abort(p)
    BY <2>1 DEF Abort, tableVars, fileVars
  <2>2. CASE DiscardRow(p) \/ DiscardFile(p)
    <3>1. job[p].upload \in Uploads
      BY <1>1, <2>2 DEF DiscardRow, DiscardFile, IdsOK, DiscardPcs
    <3> QED
      BY <1>1, <2>2, <3>1 DEF DiscardRow, DiscardFile, TypeOK, Open, NoRow, tableVars, fileVars
  <2> QED BY <1>7, <2>1, <2>2
<1>8. ASSUME StartSweep \/ SweepNext
      PROVE  OffsetStays /\ FileStays
  BY <1>8 DEF StartSweep, SweepNext, tableVars, fileVars
<1>9. ASSUME NEW v \in Uploads, Expire(v)
      PROVE  OffsetStays /\ FileStays
  BY <1>1, <1>9 DEF Expire, TypeOK, UploadRow, fileVars
<1> HIDE DEF OffsetStays, FileStays
<1>10. ASSUME OffsetStays, FileStays PROVE KeepsReceived(u)
  BY <1>1, <1>10, OthersKeep DEF OffsetStays, FileStays
<1> QED
  BY <1>2, <1>3, <1>4, <1>5, <1>6, <1>7, <1>8, <1>9, <1>10 DEF Next

\* Bytes the server has counted are not written again while the upload is
\* open: a PUT that is repeated, or comes late, fails the check against the
\* row that the lock protects.
THEOREM ReceivedBytesStay == Spec => ReceivedStays
<1>1. IndInv /\ [Next]_vars =>
          [\A u \in Uploads :
              u \in Current /\ Open(u)' /\ uploads[u].received < uploads[u].size =>
                  /\ uploads'[u].received >= uploads[u].received
                  /\ tmp'[u] # NoFile =>
                        \A i \in 1..uploads[u].received : tmp'[u][i] = tmp[u][i]]_vars
  BY StepKeeps DEF KeepsReceived
<1> QED BY <1>1, SpecIndInv, PTL DEF Spec, ReceivedStays
=============================================================================

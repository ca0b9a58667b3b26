-------------------------- MODULE RetentionProofs ---------------------------
(***************************************************************************)
(* Retention for any number of documents, peers and vaults and for any     *)
(* retention times: a deletion is remembered as long as promised.          *)
(***************************************************************************)
EXTENDS Retention, TLAPS

\* The rows say what was recorded, and a row that is missing went by expiry:
\* a peer's because its time was over, a tombstone's because its time was
\* over and that of every recorded device of its vault that is not known to
\* have seen the deletion.
RowsMatchHistory ==
    /\ \A x \in Docs : deletedAt[x] # 0 => deletedAt[x] = deleted[x]
    /\ \A p \in Peers : lastSeen[p] # 0 => lastSeen[p] = recorded[p]

\* A connection that is not recorded makes a device newer, never older.
RecordedWasSeen == \A p \in Peers : recorded[p] <= seen[p]

PeersExpiredLate ==
    \A p \in Peers : recorded[p] # 0 /\ lastSeen[p] = 0 => recorded[p] + PeerDays < now

TombstonesExpiredLate ==
    \A x \in Docs : deleted[x] # 0 /\ deletedAt[x] = 0 =>
        /\ deleted[x] + TombstoneDays < now
        /\ \A p \in Peers : PeerVault[p] = DocVault[x] /\ recorded[p] # 0 /\ recorded[p] <= deleted[x]
                                => recorded[p] + PeerDays < now

IndInv ==
    /\ TypeOK /\ RowsMatchHistory /\ RecordedWasSeen
    /\ PeersExpiredLate /\ TombstonesExpiredLate

-----------------------------------------------------------------------------
LEMMA TypeStep == TypeOK /\ [Next]_vars => TypeOK'
<1> SUFFICES ASSUME TypeOK, [Next]_vars PROVE TypeOK'
  OBVIOUS
<1> USE RetentionAssumption DEF TypeOK
<1>1. CASE Tick
  BY <1>1 DEF Tick
<1>2. CASE ExpireTombstones
  BY <1>2 DEF ExpireTombstones
<1>3. CASE ExpireStalePeers
  BY <1>3 DEF ExpireStalePeers
<1>4. CASE HalfFails
  BY <1>4 DEF HalfFails
<1>5. CASE \E p \in Peers : Connect(p) \/ ConnectUnrecorded(p) \/ RetirePeer(p)
  BY <1>5 DEF Connect, ConnectUnrecorded, RetirePeer
<1>6. CASE \E x \in Docs : DeleteDoc(x) \/ Recreate(x)
  BY <1>6 DEF DeleteDoc, Recreate
<1>7. CASE UNCHANGED vars
  BY <1>7 DEF vars
<1> QED BY <1>1, <1>2, <1>3, <1>4, <1>5, <1>6, <1>7 DEF Next

LEMMA IndInit == Init => IndInv
BY RetentionAssumption
   DEF Init, IndInv, TypeOK, RowsMatchHistory, RecordedWasSeen, PeersExpiredLate, TombstonesExpiredLate

LEMMA IndStep == IndInv /\ [Next]_vars => IndInv'
<1> SUFFICES ASSUME IndInv, [Next]_vars PROVE IndInv'
  OBVIOUS
<1>0. TypeOK'
  BY TypeStep DEF IndInv
<1> USE <1>0, RetentionAssumption
    DEF IndInv, TypeOK, RowsMatchHistory, RecordedWasSeen, PeersExpiredLate, TombstonesExpiredLate
<1>1. CASE Tick
  BY <1>1 DEF Tick
<1>2. CASE ExpireTombstones
  <2>1. ASSUME NEW x \in Docs, Expires(x), NEW p \in Peers,
               PeerVault[p] = DocVault[x], recorded[p] # 0, recorded[p] <= deleted[x]
        PROVE  recorded[p] + PeerDays < now
    BY <2>1 DEF Expires, Blocks
  <2>2. ASSUME NEW x \in Docs, Expires(x)
        PROVE  deleted[x] + TombstoneDays < now
    BY <2>2 DEF Expires
  <2>3. TombstonesExpiredLate'
    BY <1>2, <2>1, <2>2 DEF ExpireTombstones
  <2>4. RowsMatchHistory' /\ RecordedWasSeen' /\ PeersExpiredLate'
    BY <1>2 DEF ExpireTombstones
  <2> QED BY <2>3, <2>4
<1>3. CASE ExpireStalePeers
  BY <1>3 DEF ExpireStalePeers
<1>4. CASE HalfFails
  BY <1>4 DEF HalfFails
<1>5. ASSUME NEW p \in Peers, Connect(p) \/ ConnectUnrecorded(p) \/ RetirePeer(p)
      PROVE  IndInv'
  BY <1>5 DEF Connect, ConnectUnrecorded, RetirePeer
<1>6. ASSUME NEW x \in Docs, DeleteDoc(x) \/ Recreate(x)
      PROVE  IndInv'
  BY <1>6 DEF DeleteDoc, Recreate
<1>7. CASE UNCHANGED vars
  BY <1>7 DEF vars
<1> QED BY <1>1, <1>2, <1>3, <1>4, <1>5, <1>6, <1>7 DEF Next

-----------------------------------------------------------------------------
\* The stamps of src/db.rs never run ahead of the clock.
THEOREM RetentionTypes == Spec => []TypeOK
<1>1. Init => TypeOK
  BY RetentionAssumption DEF Init, TypeOK
<1> QED BY <1>1, TypeStep, PTL DEF Spec

\* A device that has not connected since a deletion, and returns before its
\* last record is due, finds the tombstone: expire_tombstones and
\* expire_stale_peers do not undercut each other, for any two retention
\* times, and connections that upsert_peer failed to record do no harm
\* beyond not counting.
THEOREM DeletionRemembered == Spec => []TombstoneKept
<1>1. IndInv => TombstoneKept
  BY RetentionAssumption
     DEF IndInv, TypeOK, RowsMatchHistory, RecordedWasSeen, TombstonesExpiredLate, TombstoneKept, MayReturn
<1> QED BY <1>1, IndInit, IndStep, PTL DEF Spec
=============================================================================

----------------------------- MODULE Retention ------------------------------
(***************************************************************************)
(* How long the server remembers a deletion: tombstones, the peers table   *)
(* that keeps them alive, and the hourly cleanup of src/main.rs over the   *)
(* queries of src/db.rs.                                                   *)
(*                                                                         *)
(* Time is a clock of the resolution of datetime('now'): many things       *)
(* happen at one time.  Time 0 is NULL, a missing row or stamp.            *)
(***************************************************************************)
EXTENDS Naturals

CONSTANTS
    Vaults,
    Docs, DocVault,         \* documents, and the vault of each
    Peers, PeerVault,       \* rows of peers, and the vault of each
    TombstoneDays,          \* VAULTCRDT_TOMBSTONE_DAYS
    PeerDays,               \* VAULTCRDT_PEER_RETENTION_DAYS
    MaxTime                 \* bound of the clock

ASSUME RetentionAssumption ==
    /\ DocVault \in [Docs -> Vaults]
    /\ PeerVault \in [Peers -> Vaults]
    /\ TombstoneDays \in Nat /\ PeerDays \in Nat
    /\ MaxTime \in Nat \ {0}

VARIABLES
    now,
    deletedAt,      \* tombstones.deleted_at, 0: no tombstone
    lastSeen,       \* peers.last_seen_at, 0: no row
    round,          \* what the hourly task does next
    \* history variables
    deleted,        \* when the document was last deleted, 0: it is not deleted
    recorded,       \* when a connection of the device was last recorded, 0: never, or retired
    seen            \* when the device last connected, recorded or not, 0: never, or retired

vars == <<now, deletedAt, lastSeen, round, deleted, recorded, seen>>

TypeOK ==
    /\ now \in 1..MaxTime
    /\ deletedAt \in [Docs -> 0..now]
    /\ lastSeen \in [Peers -> 0..now]
    /\ round \in {"tombstones", "peers"}
    /\ deleted \in [Docs -> 0..now]
    /\ recorded \in [Peers -> 0..now]
    /\ seen \in [Peers -> 0..now]

Init ==
    /\ now = 1
    /\ deletedAt = [x \in Docs |-> 0]
    /\ lastSeen = [p \in Peers |-> 0]
    /\ round = "tombstones"
    /\ deleted = [x \in Docs |-> 0]
    /\ recorded = [p \in Peers |-> 0]
    /\ seen = [p \in Peers |-> 0]

Tick ==
    /\ now < MaxTime
    /\ now' = now + 1
    /\ UNCHANGED <<deletedAt, lastSeen, round, deleted, recorded, seen>>

\* upsert_peer, when a connection opens and at no other time.
Connect(p) ==
    /\ lastSeen' = [lastSeen EXCEPT ![p] = now]
    /\ recorded' = [recorded EXCEPT ![p] = now]
    /\ seen' = [seen EXCEPT ![p] = now]
    /\ UNCHANGED <<now, deletedAt, round, deleted>>

\* upsert_peer fails, which is only logged, or is not called because the
\* client gave no peer_id: the connection goes on, and the row stays stale
\* or missing.
ConnectUnrecorded(p) ==
    /\ seen' = [seen EXCEPT ![p] = now]
    /\ UNCHANGED <<now, deletedAt, lastSeen, round, deleted, recorded>>

DeleteStampsExpiry(x) ==
    /\ deletedAt' = [deletedAt EXCEPT ![x] = now + TombstoneDays]
    /\ deleted' = [deleted EXCEPT ![x] = now]
    /\ UNCHANGED <<now, lastSeen, round, recorded, seen>>

\* delete_doc_atomic: a second delete stamps the tombstone again.
DeleteDoc(x) ==
    /\ deletedAt' = [deletedAt EXCEPT ![x] = now]
    /\ deleted' = [deleted EXCEPT ![x] = now]
    /\ UNCHANGED <<now, lastSeen, round, recorded, seen>>

\* A create that replaces the tombstone, or makes the path anew.
Recreate(x) ==
    /\ deletedAt' = [deletedAt EXCEPT ![x] = 0]
    /\ deleted' = [deleted EXCEPT ![x] = 0]
    /\ UNCHANGED <<now, lastSeen, round, recorded, seen>>

\* retire_peer_handler: the operator gives the device up.  Without a row the
\* answer is 404; a row that expires between the lookup and the transaction
\* leaves that nothing to remove.
RetirePeer(p) ==
    /\ lastSeen[p] # 0
    /\ lastSeen' = [lastSeen EXCEPT ![p] = 0]
    /\ recorded' = [recorded EXCEPT ![p] = 0]
    /\ seen' = [seen EXCEPT ![p] = 0]
    /\ UNCHANGED <<now, deletedAt, round, deleted>>

BlocksStrictly(p, x) ==
    /\ PeerVault[p] = DocVault[x]
    /\ lastSeen[p] # 0 /\ lastSeen[p] < deletedAt[x]

\* A retained peer of the vault that may not have seen the deletion.
Blocks(p, x) ==
    /\ PeerVault[p] = DocVault[x]
    /\ lastSeen[p] # 0 /\ lastSeen[p] <= deletedAt[x]

Expires(x) ==
    /\ deletedAt[x] # 0
    /\ deletedAt[x] + TombstoneDays < now
    /\ \A p \in Peers : ~Blocks(p, x)

\* First half of the hourly pass.
ExpireTombstones ==
    /\ round = "tombstones"
    /\ deletedAt' = [x \in Docs |-> IF Expires(x) THEN 0 ELSE deletedAt[x]]
    /\ round' = "peers"
    /\ UNCHANGED <<now, lastSeen, deleted, recorded, seen>>

ExpireIdlePeers ==
    /\ round = "peers"
    /\ lastSeen' = [p \in Peers |->
            IF lastSeen[p] + PeerDays < now /\ ~\E x \in Docs : Blocks(p, x) THEN 0 ELSE lastSeen[p]]
    /\ round' = "tombstones"
    /\ UNCHANGED <<now, deletedAt, deleted, recorded, seen>>

\* Second half.
ExpireStalePeers ==
    /\ round = "peers"
    /\ lastSeen' = [p \in Peers |-> IF lastSeen[p] + PeerDays < now THEN 0 ELSE lastSeen[p]]
    /\ round' = "tombstones"
    /\ UNCHANGED <<now, deletedAt, deleted, recorded, seen>>

\* A query that fails is only logged.
HalfFails ==
    /\ round' = IF round = "peers" THEN "tombstones" ELSE "peers"
    /\ UNCHANGED <<now, deletedAt, lastSeen, deleted, recorded, seen>>

Next ==
    \/ Tick \/ ExpireTombstones \/ ExpireStalePeers \/ HalfFails
    \/ \E p \in Peers : Connect(p) \/ ConnectUnrecorded(p) \/ RetirePeer(p)
    \/ \E x \in Docs : DeleteDoc(x) \/ Recreate(x)

\* The clock goes on, and the queries of the hourly task do not fail for ever.
Spec ==
    /\ Init /\ [][Next]_vars
    /\ WF_vars(Tick) /\ SF_vars(ExpireTombstones) /\ SF_vars(ExpireStalePeers)

-----------------------------------------------------------------------------
(* Properties.                                                             *)

\* A device that has not connected since the deletion, and that the server
\* has to reckon with: its last recorded connection is no longer ago than
\* peers are kept.
MayReturn(p, x) ==
    /\ PeerVault[p] = DocVault[x]
    /\ seen[p] <= deleted[x]
    /\ recorded[p] # 0 /\ now <= recorded[p] + PeerDays

\* A deletion is remembered for TombstoneDays, and longer while a device of
\* the vault may still return that has not seen it: such a device finds the
\* tombstone, whatever the cleanup did in between.  (upsert_peer stamps a
\* device as it connects, in the resolution the deletion is stamped with.)
\* The promise counts from the last connection that upsert_peer recorded.  A
\* device whose later connections were not recorded is kept for only as long
\* as its old stamp says, and one that was never recorded not at all.
TombstoneKept ==
    \A x \in Docs :
        /\ deleted[x] # 0
        /\ now <= deleted[x] + TombstoneDays \/ \E p \in Peers : MayReturn(p, x)
        => deletedAt[x] = deleted[x]

\* Nothing is kept for ever: when the clock has passed the retention of a
\* tombstone and of every peer that blocks it, the cleanup removes it, unless
\* it is stamped again.  It takes two passes: tombstones go first.
Outlived(x) ==
    /\ deletedAt[x] # 0 /\ deletedAt[x] + TombstoneDays < now
    /\ \A p \in Peers : Blocks(p, x) => lastSeen[p] + PeerDays < now

TombstoneGoes == \A x \in Docs : Outlived(x) ~> ~Outlived(x)
=============================================================================

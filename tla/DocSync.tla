------------------------------- MODULE DocSync -------------------------------
(***************************************************************************)
(* The document lane of one vault: the handlers of src/handlers.rs over    *)
(* the tables of src/db.rs, run by the connections of src/ws.rs.           *)
(*                                                                         *)
(* A connection handles one request at a time.  The database is one        *)
(* SQLite connection behind a mutex, so each query or transaction is one   *)
(* step, and every await between two of them lets other connections, the   *)
(* hourly tombstone expiry and the end of the connection itself come in    *)
(* between.  sync_push, doc_create and doc_delete hold the document's lock *)
(* (KeyedMutex, implemented by DocLocks); sync_start, request_doc_list and *)
(* the expiry hold none.                                                   *)
(*                                                                         *)
(* Data.  A Loro document is the set of changes it has applied; a version  *)
(* vector says exactly which ones those are.  A payload is a set of        *)
(* changes, or Corrupt when the bytes do not decode.                       *)
(***************************************************************************)
EXTENDS Naturals

CONSTANTS
    Conns,              \* connection slots
    Docs,               \* doc_uuids
    Changes,            \* Loro changes
    Author,             \* Author[x]: the peer that made change x
    Deps,               \* Deps[x]: every change x depends on, transitively
    Payloads,           \* what clients send: sets of changes, or Corrupt
    Corrupt,            \* bytes that do not decode
    NoHash,             \* SQL NULL in tombstones.content_hash
    NoToken,            \* a doc_delete without expected_incarnation
    NoDoc,              \* no document lock asked for
    LegacyRows,         \* documents rows older than migration 006
    LegacyTombs,        \* tombstones older than migration 006
    MaxIncarnation      \* stands for i64::MAX, the end of the token space

History == SUBSET Changes
Blob == {Corrupt} \cup History     \* a stored or received byte string

ASSUME ConstantsAssumption ==
    /\ Deps \in [Changes -> History]
    /\ \A x \in Changes : \A y \in Deps[x] : Deps[y] \subseteq Deps[x]
    /\ Payloads \subseteq Blob
    /\ \A s \in History : s # Corrupt /\ [text |-> s] # NoHash
    /\ NoToken \notin Nat
    /\ NoDoc \notin Docs
    /\ MaxIncarnation \in Nat /\ MaxIncarnation >= 2

VARIABLES
    \* the database
    documents,          \* documents[d]: the live row of d, or NoRow
    tombstones,         \* tombstones[d]: the tombstone of d, or NoTomb
    nextIncarnation,    \* vault_incarnation.next_incarnation (1: no row yet)
    \* the connections
    pc,                 \* where the handler of connection c is
    req,                \* the request being handled
    seen,               \* the local `existing`
    tombed,             \* the result of is_tombstoned
    out,                \* the response that waits to be written
    want, hold,         \* the document locks, see KeyedMutex
    \* history variables
    edition,            \* edition[d]: how many editions d has had
    known,              \* the tokens clients were told, with what they name
    listing             \* what c's request_doc_list has read so far

dbVars == <<documents, tombstones, nextIncarnation>>
lockVars == <<want, hold>>
connVars == <<pc, req, seen, tombed, out, lockVars>>
vars == <<dbVars, connVars, edition, known, listing>>

Locks == INSTANCE KeyedMutex WITH Tasks <- Conns, Keys <- Docs, NoKey <- NoDoc

-----------------------------------------------------------------------------
(* Rows.  Token 0 is reserved and means that there is no row.              *)

Row == [snapshot : Blob, vv : Blob, incarnation : Nat]
NoRow == [snapshot |-> {}, vv |-> {}, incarnation |-> 0]

HashValue == [text : History]
Tomb == [hash : {NoHash} \cup HashValue, incarnation : Nat]
NoTomb == [hash |-> NoHash, incarnation |-> 0]

Exists(row) == row.incarnation # 0
Live(d) == Exists(documents[d])
Tombstoned(d) == Exists(tombstones[d])

\* content_hash_from_snapshot_blob: the hash stands for the document's text
\* (FNV collisions are ignored); none if the snapshot does not import.
ContentHash(row) ==
    IF Exists(row) /\ row.snapshot # Corrupt THEN [text |-> row.snapshot] ELSE NoHash

(* Loro.                                                                   *)

\* doc.import: changes whose dependencies are missing stay pending, and a
\* snapshot exported afterwards does not contain them.
Import(s, delta) == s \cup {x \in delta : Deps[x] \subseteq s \cup delta}

\* ImportBlobMetadata.start_frontiers is empty: the blob depends on nothing
\* outside itself.
FromScratch(delta) == \A x \in delta : Deps[x] \subseteq delta

Peers(s) == {Author[x] : x \in s}

(* Requests and responses.                                                 *)

WriteOps == {"push", "create", "delete"}
Tokens == 0..MaxIncarnation
Request == [op : {"none", "push", "create", "delete", "start", "list", "bad"},
            doc : Docs \cup {NoDoc},
            payload : Blob,
            replace : BOOLEAN,
            expected : {NoToken} \cup Nat,
            about : Nat]        \* the edition the client means to delete
NoReq == [op |-> "none", doc |-> NoDoc, payload |-> {}, replace |-> FALSE,
          expected |-> NoToken, about |-> 0]

\* A token a client was told, and the edition of d it was told it for.
Grant == [doc : Docs, token : Nat, edition : Nat]
Responses == {"none", "ack", "doc_tombstoned", "create_conflict", "delete_rejected",
              "doc_unknown", "sync_delta", "doc_list", "error"}
Response == [kind : Responses, grants : SUBSET Grant]
NoOut == [kind |-> "none", grants |-> {}]

Listing == [docs : SUBSET Docs, tombs : SUBSET Docs, hashes : SUBSET Docs, steady : SUBSET Docs]
NoListing == [docs |-> {}, tombs |-> {}, hashes |-> {}, steady |-> {}]

\* What migration 006 leaves behind carries token 1.
ASSUME LegacyAssumption ==
    /\ \A r \in LegacyRows : r \in Row /\ r.incarnation = 1
    /\ \A r \in LegacyTombs : r \in Tomb /\ r.incarnation = 1

PcValues == {"idle", "lock", "read", "tomb", "store", "delete", "start",
             "list_docs", "list_tombs", "list_hashes", "reply"}
DbPcs == PcValues \ {"idle", "lock", "reply"}

TypeOK ==
    /\ documents \in [Docs -> Row]
    /\ tombstones \in [Docs -> Tomb]
    /\ nextIncarnation \in 1..MaxIncarnation
    /\ pc \in [Conns -> PcValues]
    /\ req \in [Conns -> Request]
    /\ seen \in [Conns -> Row]
    /\ tombed \in [Conns -> BOOLEAN]
    /\ out \in [Conns -> Response]
    /\ Locks!MutexTypeOK
    /\ edition \in [Docs -> Nat]
    /\ known \in SUBSET Grant
    /\ listing \in [Conns -> Listing]

-----------------------------------------------------------------------------
\* A new vault, or one migrated from before tokens existed: migration 006
\* gives every row token 1 and seeds the counter with 2.  Such a vault may
\* hold a live row and a tombstone for the same path.
Init ==
    /\ documents \in [Docs -> {NoRow} \cup LegacyRows]
    /\ tombstones \in [Docs -> {NoTomb} \cup LegacyTombs]
    /\ nextIncarnation = IF \E d \in Docs : Live(d) \/ Tombstoned(d) THEN 2 ELSE 1
    /\ pc = [c \in Conns |-> "idle"]
    /\ req = [c \in Conns |-> NoReq]
    /\ seen = [c \in Conns |-> NoRow]
    /\ tombed = [c \in Conns |-> FALSE]
    /\ out = [c \in Conns |-> NoOut]
    /\ Locks!MutexInit
    /\ edition = [d \in Docs |-> IF Live(d) THEN 1 ELSE 0]
    /\ known = {}
    /\ listing = [c \in Conns |-> NoListing]

-----------------------------------------------------------------------------
(* The course of a request.                                                *)

\* process_inner returns: the guard is dropped, the response is ready.
Finish(c, kind, grants) ==
    /\ pc' = [pc EXCEPT ![c] = "reply"]
    /\ out' = [out EXCEPT ![c] = [kind |-> kind, grants |-> grants]]
    /\ seen' = [seen EXCEPT ![c] = NoRow]
    /\ tombed' = [tombed EXCEPT ![c] = FALSE]
    /\ IF want[c] = NoDoc THEN UNCHANGED lockVars ELSE Locks!Release(c)
    /\ UNCHANGED req

\* A frame that does not decode, an unexpected auth frame or an identifier
\* over its cap is answered before any lock or table is touched.
ReceiveBad(c) ==
    /\ pc[c] = "idle"
    /\ req' = [req EXCEPT ![c] = [NoReq EXCEPT !.op = "bad"]]
    /\ pc' = [pc EXCEPT ![c] = "reply"]
    /\ out' = [out EXCEPT ![c] = [kind |-> "error", grants |-> {}]]
    /\ UNCHANGED <<dbVars, seen, tombed, lockVars, edition, known, listing>>

\* A sync_push, doc_create or doc_delete asks for the document's lock.
Receive(c, r) ==
    /\ pc[c] = "idle"
    /\ req' = [req EXCEPT ![c] = r]
    /\ pc' = [pc EXCEPT ![c] = "lock"]
    /\ Locks!Request(c, r.doc)
    /\ UNCHANGED <<dbVars, seen, tombed, out, edition, known, listing>>

ReceivePush(c) ==
    \E d \in Docs, p \in Payloads :
        Receive(c, [NoReq EXCEPT !.op = "push", !.doc = d, !.payload = p])

ReceiveCreate(c) ==
    \E d \in Docs, p \in Payloads, b \in BOOLEAN :
        Receive(c, [NoReq EXCEPT !.op = "create", !.doc = d, !.payload = p, !.replace = b])

\* A client deletes unconditionally, expects absence, or names the edition
\* it means by a token it was told.
ReceiveDelete(c) ==
    \/ \E d \in Docs, t \in {NoToken, 0} :
          Receive(c, [NoReq EXCEPT !.op = "delete", !.doc = d, !.expected = t])
    \/ \E g \in known :
          Receive(c, [NoReq EXCEPT !.op = "delete", !.doc = g.doc,
                                   !.expected = g.token, !.about = g.edition])

\* A sync_start or request_doc_list goes to the database without a lock.
\* The payload of a sync_start is the client's version vector.
ReceiveRead(c) ==
    /\ pc[c] = "idle"
    /\ \/ /\ \E d \in Docs, p \in {{}, Corrupt} :
                req' = [req EXCEPT ![c] = [NoReq EXCEPT !.op = "start", !.doc = d, !.payload = p]]
          /\ pc' = [pc EXCEPT ![c] = "start"]
       \/ /\ req' = [req EXCEPT ![c] = [NoReq EXCEPT !.op = "list"]]
          /\ pc' = [pc EXCEPT ![c] = "list_docs"]
    /\ UNCHANGED <<dbVars, seen, tombed, out, lockVars, edition, known, listing>>

\* Mutant: the guard is not taken, as doc_delete once did not.
LockNotTaken(c) ==
    /\ pc[c] = "lock"
    /\ pc' = [pc EXCEPT ![c] = IF req[c].op = "delete" THEN "delete" ELSE "read"]
    /\ UNCHANGED <<dbVars, lockVars, req, seen, tombed, out, edition, known, listing>>

\* let _guard = lock.lock().await
Lock(c) ==
    /\ pc[c] = "lock"
    /\ Locks!Acquire(c)
    /\ pc' = [pc EXCEPT ![c] = IF req[c].op = "delete" THEN "delete" ELSE "read"]
    /\ UNCHANGED <<dbVars, req, seen, tombed, out, edition, known, listing>>

-----------------------------------------------------------------------------
(* handle_sync_push and handle_doc_create: read, check, merge, store.      *)

Replaces(c) == req[c].op = "create" /\ req[c].replace

\* Mutant: a replacing create ignores the live row and starts from nothing.
ReadUnlessReplacing(c) ==
    /\ pc[c] = "read"
    /\ seen' = [seen EXCEPT ![c] = IF Replaces(c) THEN NoRow ELSE documents[req[c].doc]]
    /\ pc' = [pc EXCEPT ![c] =
                IF ~Live(req[c].doc) \/ Replaces(c) THEN "tomb" ELSE "store"]
    /\ UNCHANGED <<dbVars, req, tombed, out, lockVars, edition, known, listing>>

\* db::get_snapshot_with_vv; is_tombstoned is asked next when there is no
\* row, or when a replacing create may meet a stale tombstone.
ReadExisting(c) ==
    /\ pc[c] = "read"
    /\ seen' = [seen EXCEPT ![c] = documents[req[c].doc]]
    /\ pc' = [pc EXCEPT ![c] =
                IF ~Live(req[c].doc) \/ Replaces(c) THEN "tomb" ELSE "store"]
    /\ UNCHANGED <<dbVars, req, tombed, out, lockVars, edition, known, listing>>

\* db::is_tombstoned: a dead path refuses everything but a replacing create.
CheckTombstone(c) ==
    /\ pc[c] = "tomb"
    /\ \/ /\ ~Exists(seen[c]) /\ Tombstoned(req[c].doc) /\ ~Replaces(c)
          /\ Finish(c, "doc_tombstoned", {})
       \/ /\ Exists(seen[c]) \/ ~Tombstoned(req[c].doc) \/ Replaces(c)
          /\ tombed' = [tombed EXCEPT ![c] = Tombstoned(req[c].doc)]
          /\ pc' = [pc EXCEPT ![c] = "store"]
          /\ UNCHANGED <<req, seen, out, lockVars>>
    /\ UNCHANGED <<dbVars, edition, known, listing>>

\* A stored version vector that does not decode counts as disjoint.
PushDisjoint(row, delta) ==
    row.vv # Corrupt =>
        delta # Corrupt /\ row.vv # {} /\ delta # {} /\ FromScratch(delta)

CreateDisjoint(row, snapshot) ==
    row.vv # Corrupt =>
        /\ snapshot # Corrupt
        /\ row.vv # {} /\ Import({}, snapshot) # {}
        /\ Peers(row.vv) \cap Peers(Import({}, snapshot)) = {}

Disjoint(c) ==
    /\ Exists(seen[c])
    /\ IF req[c].op = "push" THEN PushDisjoint(seen[c], req[c].payload)
                             ELSE CreateDisjoint(seen[c], req[c].payload)

Unmergeable(c) == req[c].payload = Corrupt \/ seen[c].snapshot = Corrupt

\* effective_replace || clear_stale_tombstone
ReplacesTombstone(c) == Replaces(c) /\ tombed[c]

\* create_conflict, nothing stored.
RefuseConflict(c) ==
    /\ pc[c] = "store"
    /\ Disjoint(c)
    /\ Finish(c, "create_conflict", {})
    /\ UNCHANGED <<dbVars, edition, known, listing>>

\* The payload or the stored snapshot does not import.
FailMerge(c) ==
    /\ pc[c] = "store"
    /\ ~Disjoint(c) /\ Unmergeable(c)
    /\ Finish(c, "error", {})
    /\ UNCHANGED <<dbVars, edition, known, listing>>

\* Mutant: the counter has no end.
AllocateAlways == TRUE

\* allocate_incarnation: none left once the counter reached its end.
CanAllocate == nextIncarnation < MaxIncarnation

\* The row gets the merged history; a new token makes a new edition, and the
\* Ack tells the token to the client whose request established it.
Store(c, token, fresh, granted) ==
    LET d == req[c].doc
        merged == Import(seen[c].snapshot, req[c].payload)
        nth == edition[d] + (IF fresh THEN 1 ELSE 0)
    IN  /\ documents' = [documents EXCEPT ![d] =
                            [snapshot |-> merged, vv |-> merged, incarnation |-> token]]
        /\ nextIncarnation' = nextIncarnation + (IF fresh THEN 1 ELSE 0)
        /\ edition' = [edition EXCEPT ![d] = nth]
        /\ Finish(c, "ack", IF granted THEN {[doc |-> d, token |-> token, edition |-> nth]} ELSE {})

\* db::store_snapshot_with_vv: one transaction that keeps the token of a
\* row it finds and allocates one otherwise.
StoreSnapshot(c) ==
    /\ pc[c] = "store"
    /\ ~Disjoint(c) /\ ~Unmergeable(c) /\ ~ReplacesTombstone(c)
    /\ \/ /\ Live(req[c].doc)
          /\ Store(c, documents[req[c].doc].incarnation, FALSE, ~Exists(seen[c]))
       \/ /\ ~Live(req[c].doc) /\ CanAllocate
          /\ Store(c, nextIncarnation, TRUE, ~Exists(seen[c]))
    /\ UNCHANGED <<tombstones, known, listing>>

\* Mutant: the tombstone is left to a later statement outside the transaction.
StoreKeepingTombstone(c) ==
    /\ pc[c] = "store"
    /\ ~Disjoint(c) /\ ~Unmergeable(c) /\ ReplacesTombstone(c)
    /\ CanAllocate
    /\ Store(c, nextIncarnation, TRUE, TRUE)
    /\ UNCHANGED <<tombstones, known, listing>>

\* db::store_snapshot_replacing_tombstone: one transaction that always
\* allocates, and removes the tombstone.
StoreReplacing(c) ==
    /\ pc[c] = "store"
    /\ ~Disjoint(c) /\ ~Unmergeable(c) /\ ReplacesTombstone(c)
    /\ CanAllocate
    /\ Store(c, nextIncarnation, TRUE, TRUE)
    /\ tombstones' = [tombstones EXCEPT ![req[c].doc] = NoTomb]
    /\ UNCHANGED <<known, listing>>

\* "incarnation space exhausted": the transaction rolls back.
FailExhausted(c) ==
    /\ pc[c] = "store"
    /\ ~Disjoint(c) /\ ~Unmergeable(c)
    /\ ReplacesTombstone(c) \/ ~Live(req[c].doc)
    /\ ~CanAllocate
    /\ Finish(c, "error", {})
    /\ UNCHANGED <<dbVars, edition, known, listing>>

-----------------------------------------------------------------------------
(* db::delete_doc_guarded: decide and delete in one transaction.           *)

\* Mutant: a plain upsert, where a replayed delete writes NULL over the hash.
BuriedPlain(row, tomb) ==
    [hash |-> ContentHash(row),
     incarnation |-> IF Exists(row) THEN row.incarnation ELSE 1]

\* COALESCE keeps the hash and the token of an earlier delete when this one
\* finds no row to take them from.
Buried(row, tomb) ==
    [hash |-> IF ContentHash(row) # NoHash THEN ContentHash(row) ELSE tomb.hash,
     incarnation |-> IF Exists(row) THEN row.incarnation
                     ELSE IF Exists(tomb) THEN tomb.incarnation ELSE 1]

TokenMismatch(c) ==
    req[c].expected # NoToken /\ req[c].expected # documents[req[c].doc].incarnation

RejectDelete(c) ==
    /\ pc[c] = "delete"
    /\ TokenMismatch(c)
    /\ Finish(c, "delete_rejected", {})
    /\ UNCHANGED <<dbVars, edition, known, listing>>

DeleteDoc(c) ==
    LET d == req[c].doc IN
    /\ pc[c] = "delete"
    /\ ~TokenMismatch(c)
    /\ documents' = [documents EXCEPT ![d] = NoRow]
    /\ tombstones' = [tombstones EXCEPT ![d] = Buried(documents[d], @)]
    /\ Finish(c, "ack", {})
    /\ UNCHANGED <<nextIncarnation, edition, known, listing>>

-----------------------------------------------------------------------------
(* Reads without a document lock.                                          *)

GrantOf(d) == [doc |-> d, token |-> documents[d].incarnation, edition |-> edition[d]]

\* handle_sync_start: snapshot and token come from one query.
SyncStart(c) ==
    /\ pc[c] = "start"
    /\ \/ ~Live(req[c].doc) /\ Finish(c, "doc_unknown", {})
       \/ /\ Live(req[c].doc)
          /\ documents[req[c].doc].snapshot = Corrupt \/ req[c].payload = Corrupt
          /\ Finish(c, "error", {})
       \/ /\ Live(req[c].doc)
          /\ documents[req[c].doc].snapshot # Corrupt /\ req[c].payload # Corrupt
          /\ Finish(c, "sync_delta", {GrantOf(req[c].doc)})
    /\ UNCHANGED <<dbVars, edition, known, listing>>

\* request_doc_list: three queries, the lock of the database let go between
\* them.  steady collects the paths that never left the tables meanwhile.
ListDocs(c) ==
    /\ pc[c] = "list_docs"
    /\ listing' = [listing EXCEPT ![c] =
            [NoListing EXCEPT !.docs = {d \in Docs : Live(d)},
                              !.steady = {d \in Docs : Live(d) \/ Tombstoned(d)}]]
    /\ out' = [out EXCEPT ![c] = [kind |-> "doc_list", grants |-> {GrantOf(d) : d \in {e \in Docs : Live(e)}}]]
    /\ pc' = [pc EXCEPT ![c] = "list_tombs"]
    /\ UNCHANGED <<dbVars, req, seen, tombed, lockVars, edition, known>>

ListTombstones(c) ==
    /\ pc[c] = "list_tombs"
    /\ listing' = [listing EXCEPT ![c].tombs = {d \in Docs : Tombstoned(d)}]
    /\ pc' = [pc EXCEPT ![c] = "list_hashes"]
    /\ UNCHANGED <<dbVars, req, seen, tombed, out, lockVars, edition, known>>

ListHashes(c) ==
    /\ pc[c] = "list_hashes"
    /\ listing' = [listing EXCEPT ![c].hashes = {d \in Docs : Tombstoned(d)}]
    /\ pc' = [pc EXCEPT ![c] = "reply"]
    /\ UNCHANGED <<dbVars, req, seen, tombed, out, lockVars, edition, known>>

-----------------------------------------------------------------------------
(* The end of a request, and what else can happen.                         *)

\* Back to the state of a connection that waits for its next frame.
Reset(c) ==
    /\ pc' = [pc EXCEPT ![c] = "idle"]
    /\ req' = [req EXCEPT ![c] = NoReq]
    /\ out' = [out EXCEPT ![c] = NoOut]
    /\ listing' = [listing EXCEPT ![c] = NoListing]

\* The response is written; from here on clients may use its tokens.
Reply(c) ==
    /\ pc[c] = "reply"
    /\ known' = known \cup out[c].grants
    /\ Reset(c)
    /\ UNCHANGED <<dbVars, seen, tombed, lockVars, edition>>

\* SQLite refuses a query or a transaction, which then changes nothing.
StorageError(c) ==
    /\ pc[c] \in DbPcs
    /\ Finish(c, "error", {})
    /\ listing' = [listing EXCEPT ![c] = NoListing]
    /\ UNCHANGED <<dbVars, edition, known>>

\* The connection ends (closed, idle too long, lagged, or the server stops)
\* while its handler waits: the future is dropped with everything it holds.
Disconnect(c) ==
    /\ pc[c] # "idle"
    /\ Reset(c)
    /\ seen' = [seen EXCEPT ![c] = NoRow]
    /\ tombed' = [tombed EXCEPT ![c] = FALSE]
    /\ IF want[c] = NoDoc THEN UNCHANGED lockVars ELSE Locks!Release(c)
    /\ UNCHANGED <<dbVars, edition, known>>

\* Mutant: the token counter starts over once the vault is empty.
ExpireRecyclingTokens(d) ==
    /\ Tombstoned(d)
    /\ tombstones' = [tombstones EXCEPT ![d] = NoTomb]
    /\ nextIncarnation' =
            IF \E e \in Docs : Live(e) \/ (e # d /\ Tombstoned(e)) THEN nextIncarnation ELSE 1
    /\ UNCHANGED <<documents, connVars, edition, known, listing>>

\* db::expire_tombstones removes a tombstone, without any document lock.
ExpireTombstone(d) ==
    /\ Tombstoned(d)
    /\ tombstones' = [tombstones EXCEPT ![d] = NoTomb]
    /\ listing' = [c \in Conns |->
            IF Live(d) THEN listing[c]
            ELSE [listing[c] EXCEPT !.steady = @ \ {d}]]
    /\ UNCHANGED <<documents, nextIncarnation, connVars, edition, known>>

Handle(c) ==
    \/ ReadExisting(c) \/ CheckTombstone(c)
    \/ RefuseConflict(c) \/ FailMerge(c) \/ FailExhausted(c)
    \/ StoreSnapshot(c) \/ StoreReplacing(c)
    \/ RejectDelete(c) \/ DeleteDoc(c)
    \/ SyncStart(c)
    \/ ListDocs(c) \/ ListTombstones(c) \/ ListHashes(c)
    \/ Reply(c)

Next ==
    \/ \E c \in Conns :
          \/ ReceiveBad(c) \/ ReceivePush(c) \/ ReceiveCreate(c)
          \/ ReceiveDelete(c) \/ ReceiveRead(c)
          \/ Lock(c)
          \/ Handle(c)
          \/ StorageError(c)
          \/ Disconnect(c)
    \/ \E d \in Docs : ExpireTombstone(d)

Spec == Init /\ [][Next]_vars

-----------------------------------------------------------------------------
(* Properties.                                                             *)

\* A dead path comes back to life only through a doc_create that asks for
\* it, and that takes the tombstone away: the tombstone checks of the push
\* and create handlers are check-then-act across awaits.
NoResurrection ==
    [][\A d \in Docs : ~Live(d) /\ Tombstoned(d) /\ Live(d)' =>
          /\ ~Tombstoned(d)'
          /\ \E c \in Conns : pc[c] = "store" /\ req[c].doc = d /\ Replaces(c)]_vars

\* No request leaves a live row next to a tombstone: "the both-rows state"
\* exists only where an old database already has it.
RowsExclusive ==
    [][\A d \in Docs : Live(d)' /\ Tombstoned(d)' => Live(d) /\ Tombstoned(d)]_vars

\* A delete that carries a token removes the very edition the client was
\* told the token for, and one that expects absence removes nothing,
\* whatever was deleted, recreated, expired or answered late in between.
DeleteMatchesIntent ==
    [][\A d \in Docs : Live(d) /\ ~Live(d)' =>
          \E c \in Conns :
              /\ pc[c] = "delete" /\ pc'[c] = "reply" /\ req[c].doc = d
              /\ \/ req[c].expected = NoToken
                 \/ req[c].expected # 0 /\ edition[d] = req[c].about]_vars

\* The history of a live document never loses a change, whichever handlers
\* read it before another one stored: no acknowledged merge is overwritten,
\* and a snapshot that does not import is left as it is.
HistoryOnlyGrows ==
    [][\A d \in Docs : Live(d) /\ Live(d)' =>
          \/ documents[d] = documents'[d]
          \/ /\ documents[d].snapshot # Corrupt
             /\ documents[d].snapshot \subseteq documents'[d].snapshot]_vars

\* The life of the paths as the tables show it.
LifeStatus ==
    [d \in Docs |-> IF Live(d) THEN "live" ELSE IF Tombstoned(d) THEN "dead" ELSE "absent"]
LifeContent ==
    [d \in Docs |-> IF Live(d) THEN documents[d].snapshot
                    ELSE IF tombstones[d].hash # NoHash THEN tombstones[d].hash.text
                    ELSE NoHash]

\* The tables implement the life of a path: in particular a replayed delete
\* keeps the proof of the first one, and every new token is a new edition.
Path == INSTANCE PathLifecycle WITH
    Contents <- History, Unreadable <- Corrupt, Nothing <- NoHash,
    status <- LifeStatus, content <- LifeContent, editions <- edition

\* Every step of the handlers is a step of the path's life or changes none.
ImplementsLifecycle == Path!LifeSpec

-----------------------------------------------------------------------------
(* What the documents say and the code does not do.                        *)

\* "request_doc_list: all server docs and tombstones": a path that was in
\* one of the two tables all the time is in one of the two lists.
DocListComplete ==
    \A c \in Conns :
        pc[c] = "reply" /\ out[c].kind = "doc_list" =>
            listing[c].steady \subseteq listing[c].docs \cup listing[c].tombs
=============================================================================

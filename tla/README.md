# A TLA+ verification of vaultcrdt-server

vaultcrdt-server keeps the notes and attachments of Obsidian vaults in sync. It
is one Rust process: tokio tasks for WebSocket and HTTP requests, one SQLite
connection behind an async mutex, and a directory of blob files. This directory
models the parts of it that carry the synchronisation logic, checks them with
TLC on small instances, and proves the main results with TLAPS for all instances.

Paths below are relative to the repository (`src/` is the crate's source).

## The system

| Component | Source | State | Operations | Interacts with |
|---|---|---|---|---|
| Document locks | `src/lib.rs` `DocLocks` | map from key to shared mutex | `get` (evicts unused entries), `lock().await`, drop | used by document, upload and path handlers |
| Document handlers | `src/handlers.rs` | none of their own; locals live across awaits | `request_doc_list`, `sync_start`, `sync_push`, `doc_create`, `doc_delete` | locks, tables, session |
| Document tables | `src/db.rs`, `migrations/` | `documents`, `tombstones`, `vault_incarnation` | one query or transaction per call | everything that locks the connection |
| Session and broadcast | `src/ws.rs` | connection list, writer queue, event channel | authenticate, read loop, forward events, tear down | handlers, clients |
| Blob uploads | `src/blobs.rs` | `blob_uploads`, `blobs`, staging and content files | create, get, put (with finalisation), discard, sweep | upload locks, file system |
| Blob paths | `src/blobs.rs` | `blob_path_states`, `counters` | post a transition, list in pages | path locks, blobs, event channel |
| Retention | `src/main.rs`, `src/db.rs` | tombstones, peers, uploads | hourly expiry and sweep, weekly checkpoint | tables, without any document lock |
| Peers, retirement | `src/lib.rs`, `src/db.rs` | `peers` | upsert on connect, expire, retire by the operator | retention, device keys |
| Authentication | `src/auth.rs`, `src/lib.rs` | rate-limit windows, `vaults` | verify, register, sign and verify JWT | every request |
| Invites, device keys | `src/invites.rs` | `invites`, `device_keys` | create, redeem, device authentication | peers |
| Pure code | `src/vv_serde.rs`, `src/fnv.rs`, parts of `src/blobs.rs` | – | codecs, hash, key validation, byte ranges | handlers |
| CLI, router, errors, schema adoption | `src/cli.rs`, `src/lib.rs`, `src/errors.rs`, `src/db.rs` | – | wiring | – |

What is hard here. Every `.await` is a place where other requests run and where
the request itself can end: `select!` in `ws.rs` drops a handler when its
connection goes away, and axum drops an HTTP handler when its client does. A
database call locks the connection and runs synchronously, so one query or one
transaction is atomic and nothing larger is. Correctness therefore rests on a
few locks held across awaits, on single transactions, and on what is left
behind when a handler stops in the middle. `PROJECT.json` lists the hazards, each
at its line, with the properties that would notice it going wrong.

What makes each component correct:

- locks: two handlers of one document never overlap, although entries are
  evicted; a queued task is served; the map stays small;
- documents: deleted paths stay deleted unless a client asks otherwise; no merge
  is lost; a delete hits the edition it was meant for; the proof hash of a
  deleted path survives replays;
- uploads: a recorded blob has its file and its bytes; what was received can be
  continued from; limits hold; nothing is left behind;
- paths: last writer wins; a path names stored content; a paged walk misses
  nothing;
- sessions: a client gets the changes of others once and in order, or is
  disconnected; a client that does not read its socket stalls nobody else;
- access: racing registrations leave one secret; an invite is good for one
  device; a retired device stays out;
- retention: a deletion is remembered as long as a device may still have to
  learn of it, and not for ever.

## Modules

```
KeyedMutex            a mutex per key (abstract)
  ^ implemented by    DocLocks          <- MCDocLocks, DocLocksProofs
  ^ used by           DocSync, BlobUpload, BlobPaths, Session
PathLifecycle         the life of a path (abstract)
  ^ implemented by    DocSync           <- MCDocSync, DocSyncProofs
BlobUpload                              <- MCBlobUpload, BlobUploadProofs
BlobPaths                               <- MCBlobPaths, BlobPathsProofs
Session                                 <- MCSession, SessionProofs
Access                                  <- MCAccess, AccessProofs
Retention                               <- MCRetention, RetentionProofs
```

**DocLocks** has the map, each task's clone of the `Arc`, and the owner and FIFO
queue of each lock object. `Get` is `DocLocks::get` with its eviction; `Poll`,
`Wake`, `HandOver` and `Dequeue` are tokio's mutex as the code uses it (external);
`Unlock` and `DropArc` are the drops of `_guard` and of `lock`, in that order;
`Cancel` is a future dropped at an await. Identities of freed objects are reused.

**DocSync** is one vault's document lane. `pc[c]` is the await at which
connection `c`'s handler stands; `seen` and `tombed` are its locals `existing` and
`is_tombstoned`. Each action is one query or transaction together with the
decisions up to the next await. A Loro document is the set of changes it has
applied; `Import` leaves out changes whose dependencies are missing, because a
snapshot exported after `import` does not contain pending changes. `Corrupt` is a
byte string that does not decode. `edition`, `known` and `listing` are history
variables: how often a path came to life, the tokens clients have been told, and
what a document list has read.

**BlobUpload** has the two tables, the staging files, the content files and the
locals of each request. File operations are steps of their own, because the
handler awaits each of them. A file is a sequence of units that are right or
wrong. `Abort` ends any request anywhere: an error, a client that is gone, or
(all requests aborting) the end of the process.

**BlobPaths** has the path rows, the counter, posts, and readers that page through the
listing. The reader is the client's walk, as the test
`test_blob_listing_fence_premise_p1` in `src/tests/blobs.rs` pins it.
`CheckBlob` joins the query for the blob with the read of its file: blobs are
only ever added, so nothing can come between that matters.

**Session** is `handle_socket`: `phase` is how far it is, `pc` where the request
loop stands, `fwd` the event the forwarder has in its hand, `wq` and `writer` the
queue and the task that empties it, `chan` and `pos` the broadcast channel and
its receivers. A change is an entry of `log`, in the order of commits; `chan` has
the numbers of those that were published, in the order of publication, which may be another
one. An event is named by its place in `chan` in the forwarder's hand, in a queue and
in what the client got, so that "in order, each once" compares places. What a request does to the tables is left to `DocSync`: here an accepted
write adds an entry (`Commit`), a refused one does not (`Refuse`), and
`sync_start` reads the entries of its document (`ReadDoc`). `End` is what follows
`select!`: it drops the other branch where it awaits, releases its lock, aborts
the writer and removes the registry entry. `lost` remembers changes whose
connection ended between commit and publication; the other history variables
are the client's view of its connection.

**Access** is one vault's door. Each request is a sequence of queries, and
between two of them anything else may happen, its own end included (`Drop`).
Secrets are atoms, so verification is equality; the row remembers whether the
secret is stored in plaintext, hashed, or not at all. Invites age from fresh to
expired to dead, and the next mint removes the dead ones. `late` remembers which
device authentications were past their recheck when the device was retired.

**Retention** has the clock, the stamps of tombstones and peers (0 for NULL), and
the two halves of the hourly pass in `main.rs`, each of which may fail alone.
`deleted` and `recorded` remember what the stamps stand for, after the rows are gone.
`seen` is when a device really connected: `ConnectUnrecorded` is a connection whose
`upsert_peer` failed, which `handle_socket` only logs, or whose client gave no peer
id, so that the row stays stale or missing. Only a device with a row can be retired.

## Runs

Passing runs:

| Run | Instance | What it shows |
|---|---|---|
| `locks` | 3 tasks, 2 keys, 3 lock objects | invariant, mutual exclusion, bounded map, served waiters, refinement of `KeyedMutex` with its fairness |
| `sync` | 2 connections, 1 path, 5 payloads, 3 tokens; new and migrated databases | type, no resurrection, no both-rows, deletes hit their edition, histories grow, refinement of `PathLifecycle` |
| `upload` | 2 requests and the sweeper, 2 uploads of one content of 2 units | stored blobs are sound when finalisation, failure and undo meet; uploads resume safely; received bytes stay |
| `paths` | 2 posts, 1 reader, 2 paths, page size 1 | last writer wins, stored content, events after commits, complete walks |
| `session` | 2 connections of one vault, blob posts in two vaults, channel and queue of one place, 2 changes | registry and types, no change is lost silently, the stream of events is exact |
| `session_live` | the same with 1 change; one client never has to read | requests of the other client are served, changes reach it |
| `access` | 2 requests, 2 secrets, 2 invites, 2 devices, 2 names | one secret per vault, one key per invite, signed tokens respect retirement, retirement is final |
| `retention` | a document, 2 devices of its vault and 1 of another, clock up to 5 | tombstones stay while a device with a recorded connection may need them, and go eventually |

Runs that end in a violation, each of a sentence the repository states (the
findings in `PROJECT.json` quote it):

| Run | Sentence | What the code does |
|---|---|---|
| `sync_doclist` | the list has "all server docs and tombstones" | a path recreated between the queries is in neither list |
| `upload_quota` | only concurrent creates overshoot | received bytes of open uploads are not counted |
| `upload_staging` | the sweeper discards staging files | it finds them by rows, and a file can be without one |
| `upload_resume` | uploads are resumable | not between the last `received_bytes` and the record of the blob |

Bounds, and why they are enough. Two requests are the smallest number that races,
and each race the hazards name is between two actors (the sweeper and the expiry
come on top). Three tasks are needed for the locks: one inside, one waiting, one
that evicts. Three tokens let a path be created, deleted and recreated and then
meet the end of the token space, `MaxIncarnation`, which stands for `i64::MAX`.
The payloads realise every relation a delta can have to a stored document: from
scratch, incremental, with missing dependencies, disjoint, corrupt. Two units
with segments of one and two give first, last and only segments, and room for
bytes that are wrong and later right. `MaxSeq = 3`
with pages of one row lets a post move a row while a walk is under way.
`Uploads` bounds how many uploads are ever created.
A channel and a queue of one place make lag and full queues happen with the fewest
changes: `MaxLog = 2` is the smallest number with which a receiver falls behind.
The liveness run has one change: a full queue and a waiting forwarder need no
more, and lag is left to `session`. Two invites and two devices let
one invite be redeemed twice and one device redeem twice; `MaxTime = 5` exceeds the sum
of both retention periods (1 and 2), so that a tombstone outlives its own period,
then that of the peer that blocks it, and is then removed. Symmetry is over requests
(and uploads), in runs without liveness. The upload runs do not check deadlock:
when all ids are used up and all contents are stored the system may go quiet. Nor do
the session runs: a connection id is used once, and when all are closed nothing
is left to do.

Fairness. `DocLocks` assumes that a task that can take a step does (tokio polls
every woken task, and handlers return); cancellation and new requests are not
fair. `Session` assumes the same of its handlers, and strong fairness of three
things: of `Lock`, because tokio's mutex is a FIFO queue (`locks` checks it,
`WaiterServed`); of `Respond` and `Forward`, because both wait for room in one
bounded `mpsc` queue, which serves its waiters in order, and because `select!` polls
both branches. Sockets are fair only for `Draining` connections, whose
client keeps reading; nothing makes a client send or hang up. `Retention` assumes
that the clock goes on, and that each of the two hourly queries succeeds again and
again (strong fairness: failures may come in between, but not for ever).

## Proofs

The theorems hold for every number of tasks, documents, changes, paths, readers,
pages, tokens, requests, uploads, connections, capacities, secrets, invites, devices
and days. The assumptions are
the `ASSUME`s of the modules: sentinels differ from values, dependencies are
transitively closed, migrated rows carry token 1, live bodies have a hash, capacities
are positive. Every invariant and every action property that a passing run checks is
also a theorem.

- **Locks.** `IndInv`: the object a task holds is the one the map has for its
  key, and a task inside owns its object. Mutual exclusion follows because an object has
  one owner. The first part is what eviction could break; it survives because
  only objects nobody holds are evicted. `LocksImplementMutex` maps every step to a
  step of `KeyedMutex` or to none. `LocksMapBounded` needs one fact more: a task
  between two requests holds no object, and no object is in the map twice
  (`UsersKnown`). So an entry that a get spares is for the key of the task that
  uses its object, and the one it adds is for its own.
- **Documents.** The invariant says that a handler's locals still describe the
  tables: what `existing` was read as is what the row is, as long as the lock is
  held; a tombstone once seen is there or was expired; one that was not seen does
  not appear. With it, tokens of live rows and
  of tombstones are below the counter, and every token a client was told names one
  edition. The action properties follow step by step, and so does the refinement
  of `PathLifecycle`.
- **Paths.** Two independent halves. Under the path's lock a decision stays valid
  until it is written, which gives last-writer-wins and stored content. And the
  number of a row is allocated in the transaction that writes it, so a
  new row lies beyond every fence; with distinct numbers, what a page
  leaves out lies beyond what it takes, so a walk has everything up to its cursor.
- **Uploads.** The invariant has five parts beyond the types. An id belongs to one create
  until its row exists (`IdsOK`, `FreshOK`), so nobody else can touch the staging file
  before the row. All PUTs on one upload ask for the hash of its row, although each takes
  it from its own read before the lock, so the lock orders them (`LocksOK`). Between its check
  of the row and its `UPDATE` a PUT is the only one that moves the offset, and discards and
  sweeps only ever aim at an upload that has expired or is complete (`RowsOK`); this is what
  the unlocked discards could break. What was hashed is what is renamed, and a renamed file
  is taken back only where no row names it (`FilesOK`, which contains `BlobSound`). Bytes
  are on disk before they are counted (`StagedOK`, which contains `ResumeSafe`).
  `ReceivedStays` follows per step: a write starts at the offset of the row.
- **Sessions.** Log and channel only grow, so what is said of one connection survives
  every step of another (`OthersKeep`), and the invariant speaks of one connection at a
  time. `StreamOK`: events got, queued and in hand are in channel order, in this order
  of the three, each between subscription and receiver, each meant for the client; and
  every place in that range whose change is meant for it is in one of the three. `Recv`
  extends the range by one place, which is later than all others; a receiver that has
  lagged ends the connection, so no place is skipped. `ToldOK`: what was published before
  the subscription and is owed came with the answer to `sync_start`, because that read
  comes after the subscription. `LogOK`: every change is published, in the hand of its writer, or
  lost with it. `StreamExact` is `StreamOK` read along the concatenated stream;
  `NoSilentLoss` splits on where the place of the change lies: before the subscription,
  between it and the receiver, or ahead. `RelevantMeant` shows that the filter of
  `broadcast_fwd`, which tests the sender only for documents, passes the changes meant for
  the client, because only blob paths have no sender (`LogOK`).
- **Access.** What a request found out stays true until it acts on it: a secret
  that matched is still the vault's (`SecretStillRight`; this is why the upgrade
  may write without looking again), and a key that verified is still the
  device's (`KeyStillRight`), because rows of `device_keys` are never replaced.
  With that, a step that tells someone of access tells the truth. An invite is
  used exactly if a device has its key, because one transaction does both; the
  invariant adds that a token not yet minted is unused.
- **Retention.** The invariant ties the rows to the history: a row that is there has
  the stamp of the last deletion or of the last recorded connection
  (`RowsMatchHistory`), which was a connection (`RecordedWasSeen`); a peer's row is
  gone only when its last recorded connection is beyond the peer retention
  (`PeersExpiredLate`); and a tombstone is gone only when its own period is over and
  no device that may return needs it (`TombstonesExpiredLate`). So the order of the
  two halves does not matter.

  The promise counts from connections that `upsert_peer` recorded, as the
  documents do when they speak of retained peers (`README.md:106`,
  `docs/ARCHITECTURE.md:220`). Of real connections it is false: a device connects
  and its upsert fails, a document is deleted, and once `TombstoneDays` have passed
  the cleanup removes the tombstone, because no row blocks it. TLC finds that trace
  of six states when `MayReturn` reads `seen` in place of `recorded`.

Only model-checked: liveness (`WaiterServed`, `RequestServed`, `ChangeReaches`,
`TombstoneGoes`, and the fairness part of `ImplementsMutex`), which the prover does not
handle, and the four counterexamples. The inductive invariants were checked with TLC
on the instances of the runs before they were proved.

## Not modelled, and the plan

In this order:

1. `BlobUpload`: detached file operations that outlive a cancelled request, and
   file-system state lost at power failure.
2. The rate limiter: windows and the bound on keys.
3. Pure operators against reference definitions: `parse_byte_range` and
   `parse_content_range`, with `get_blob`.

A stale comment: `src/lib.rs:44-45` says of `DocLocks` "Lock entries grow with the
number of unique documents". They do not: `get` evicts unused entries first
(`src/lib.rs:58`, "so the map does not grow without bound"), and `MapBounded` shows
that what remains is bounded by the tasks.

Known and without a run of its own: concurrent creates can exceed the number of open
uploads by one each (the comment at `src/blobs.rs:411` accepts it), and a delta
made against an edition that was deleted and recreated meanwhile is acknowledged
although its changes stay pending and are not stored. Both are behaviours of the modules.
So are three of `Access`, about which the documents promise nothing: a device without a
row in `peers` (expired, or never connected) cannot be retired, because the handler
answers 404 before it revokes the key; the confirmed device name is compared two
queries before the transaction; and a token names only the vault, so one that a
retired device holds stays good until it expires (`src/invites.rs:211`).

Left out for good: cryptography, codecs and the SVG sanitizer (third-party or
pure), the output of the CLI, router and error texts, the lifetime of tokens, one-time adoption of old schemas, and
`VACUUM`. Where their outcome matters the modules keep it as a choice or a constant
set: undecodable bytes, unsanitized content, storage errors. `DocSync`, `BlobUpload`,
`BlobPaths` and `Access` have one vault (`Session` and `Retention` have two);
keys of different vaults never meet in a table, and share only `blob_seq` and
the database connection.

------------------------------ MODULE Session -------------------------------
(***************************************************************************)
(* The connections of src/ws.rs: the authentication frame, the loop that   *)
(* reads requests, the task that forwards broadcast events and the task    *)
(* that writes to the socket, with the event channel all vaults share.     *)
(*                                                                         *)
(* What a request does to the tables is DocSync's subject.  Here a write   *)
(* that is accepted appends an entry to the log of changes, and a          *)
(* sync_start reads the entries of its document.  Delta and Delete events  *)
(* are filtered and forwarded alike and share one kind of entry; an entry  *)
(* without a document is a blob path that HTTP posted.                     *)
(***************************************************************************)
EXTENDS Naturals, Sequences

CONSTANTS
    Conns,          \* connection ids; CONN_COUNTER never hands one out twice
    Vaults,
    VaultOf,        \* VaultOf[c]: the vault in c's token
    BlobClients,    \* connections that announce the feature "blobs"
    Sends,          \* Sends[c]: the kinds of request c's client makes
    Draining,       \* connections whose client keeps reading its socket
    Docs,
    NoDoc,          \* no document lock wanted; the document of a blob event
    NoConn,         \* the sender of a blob event
    Capacity,       \* of the broadcast channel, 256 in main.rs
    QueueCap,       \* of a connection's write queue, 64
    MaxLog          \* bound on the number of changes

ASSUME SessionAssumption ==
    /\ VaultOf \in [Conns -> Vaults]
    /\ Sends \in [Conns -> SUBSET {"write", "start", "other", "big"}]
    /\ BlobClients \subseteq Conns /\ Draining \subseteq Conns
    /\ NoDoc \notin Docs /\ NoConn \notin Conns
    /\ Capacity \in Nat \ {0} /\ QueueCap \in Nat \ {0} /\ MaxLog \in Nat

VARIABLES
    log,            \* the changes in the order of their commits
    chan,           \* the numbers of the published ones, in channel order
    phase,          \* how far handle_socket is
    connections,    \* the registry of AppState
    pos,            \* pos[c]: the place in chan that c's receiver reads next
    pc, op, doc,    \* the request c handles
    made,           \* made[c]: the change c committed and has not published, or 0
    answer,         \* the changes the response will tell the client
    want, hold,     \* the document locks, see KeyedMutex
    fwd,            \* fwd[c]: the event the forwarder has to queue (its place in chan), or 0
    wq,             \* wq[c]: the write queue
    writer,         \* whether the writer task runs
    \* history variables
    start,          \* start[c]: the value of pos[c] at subscription
    synced,         \* documents c has read with sync_start
    got,            \* events the client was sent (their places in chan), in order
    knows,          \* changes the client was told, by events and responses
    lost            \* changes whose connection ended before it published them

lockVars == <<want, hold>>
reqVars == <<pc, op, doc, made, answer>>
fwdVars == <<pos, fwd>>
outVars == <<wq, writer, got, knows>>
ghosts == <<start, synced, lost>>
vars == <<log, chan, phase, connections, reqVars, lockVars, fwdVars, outVars, ghosts>>

Locks == INSTANCE KeyedMutex WITH Tasks <- Conns, Keys <- Vaults \X Docs, NoKey <- NoDoc

Entry == [vault : Vaults, doc : Docs \cup {NoDoc}, by : Conns \cup {NoConn}]
Numbers == 1..Len(log)
Places == 1..Len(chan)
Frame == [event : Places \cup {0}, tells : SUBSET Numbers]
Event(i) == [event |-> i, tells |-> {chan[i]}]
Response(s) == [event |-> 0, tells |-> s]

TypeOK ==
    /\ log \in Seq(Entry) /\ Len(log) <= MaxLog
    /\ chan \in Seq(Numbers)
    /\ phase \in [Conns -> {"new", "greeted", "open", "closed"}]
    /\ connections = {c \in Conns : phase[c] \in {"greeted", "open"}}
    /\ pos \in [Conns -> 1..Len(chan) + 1]
    /\ pc \in [Conns -> {"idle", "lock", "work", "reply", "publish"}]
    /\ op \in [Conns -> {"none", "write", "start", "other", "big"}]
    /\ doc \in [Conns -> Docs \cup {NoDoc}]
    /\ made \in [Conns -> 0..Len(log)]
    /\ answer \in [Conns -> SUBSET Numbers]
    /\ Locks!MutexTypeOK
    /\ fwd \in [Conns -> Places \cup {0}]
    /\ wq \in [Conns -> Seq(Frame)] /\ \A c \in Conns : Len(wq[c]) <= QueueCap
    /\ writer \in [Conns -> BOOLEAN]
    /\ start \in [Conns -> 1..Len(chan) + 1]
    /\ synced \in [Conns -> SUBSET Docs]
    /\ got \in [Conns -> Seq(Places)]
    /\ knows \in [Conns -> SUBSET Numbers]
    /\ lost \subseteq Numbers

Init ==
    /\ log = <<>> /\ chan = <<>>
    /\ phase = [c \in Conns |-> "new"]
    /\ connections = {}
    /\ pos = [c \in Conns |-> 1]
    /\ pc = [c \in Conns |-> "idle"]
    /\ op = [c \in Conns |-> "none"]
    /\ doc = [c \in Conns |-> NoDoc]
    /\ made = [c \in Conns |-> 0]
    /\ answer = [c \in Conns |-> {}]
    /\ Locks!MutexInit
    /\ fwd = [c \in Conns |-> 0]
    /\ wq = [c \in Conns |-> <<>>]
    /\ writer = [c \in Conns |-> FALSE]
    /\ start = [c \in Conns |-> 1]
    /\ synced = [c \in Conns |-> {}]
    /\ got = [c \in Conns |-> <<>>]
    /\ knows = [c \in Conns |-> {}]
    /\ lost = {}

Open(c) == phase[c] = "open"
Full(c) == Len(wq[c]) = QueueCap

-----------------------------------------------------------------------------
(* Opening a connection.                                                   *)

\* No binary frame within 10 s, not an auth frame, a token that does not
\* verify, another protocol version, or AuthOk cannot be sent.
AuthFails(c) ==
    /\ phase[c] = "new"
    /\ phase' = [phase EXCEPT ![c] = "closed"]
    /\ UNCHANGED <<log, chan, connections, reqVars, lockVars, fwdVars, outVars, ghosts>>

GreetLate(c) ==
    /\ phase[c] = "new"
    /\ phase' = [phase EXCEPT ![c] = "greeted"]
    /\ UNCHANGED <<log, chan, connections, reqVars, lockVars, fwdVars, outVars, ghosts>>

\* The token verifies, AuthOk is sent (from here on the client may send) and
\* the connection is registered.  upsert_peer follows; it waits for the
\* database, and its failure is only logged (Retention: ConnectUnrecorded).
Greet(c) ==
    /\ phase[c] = "new"
    /\ phase' = [phase EXCEPT ![c] = "greeted"]
    /\ connections' = connections \cup {c}
    /\ UNCHANGED <<log, chan, reqVars, lockVars, fwdVars, outVars, ghosts>>

\* The receiver starts at the end of the channel; only then are the three
\* tasks started and the first request read.
Subscribe(c) ==
    /\ phase[c] = "greeted"
    /\ phase' = [phase EXCEPT ![c] = "open"]
    /\ pos' = [pos EXCEPT ![c] = Len(chan) + 1]
    /\ writer' = [writer EXCEPT ![c] = TRUE]
    /\ start' = [start EXCEPT ![c] = Len(chan) + 1]
    /\ UNCHANGED <<log, chan, connections, reqVars, lockVars, fwd, wq, got, knows, synced, lost>>

\* select! ends with one branch and drops the other, the writer is aborted
\* with what it has queued, and the registry entry goes.
End(c) ==
    /\ phase' = [phase EXCEPT ![c] = "closed"]
    /\ connections' = connections \ {c}
    /\ pc' = [pc EXCEPT ![c] = "idle"]
    /\ op' = [op EXCEPT ![c] = "none"]
    /\ doc' = [doc EXCEPT ![c] = NoDoc]
    /\ made' = [made EXCEPT ![c] = 0]
    /\ answer' = [answer EXCEPT ![c] = {}]
    /\ IF want[c] = NoDoc THEN UNCHANGED lockVars ELSE Locks!Release(c)
    /\ fwd' = [fwd EXCEPT ![c] = 0]
    /\ wq' = [wq EXCEPT ![c] = <<>>]
    /\ writer' = [writer EXCEPT ![c] = FALSE]
    /\ pos' = [pos EXCEPT ![c] = 1]
    /\ lost' = IF made[c] = 0 THEN lost ELSE lost \cup {made[c]}
    \* the history of a connection ends with it
    /\ start' = [start EXCEPT ![c] = 1]
    /\ synced' = [synced EXCEPT ![c] = {}]
    /\ got' = [got EXCEPT ![c] = <<>>]
    /\ knows' = [knows EXCEPT ![c] = {}]
    /\ UNCHANGED <<log, chan>>

-----------------------------------------------------------------------------
(* Task 2: requests.                                                       *)

\* A binary frame.  "other" is a request whose handler neither writes nor
\* reads a document, "big" a frame over 50 MiB, which gets no handler.
Receive(c) ==
    /\ Open(c) /\ pc[c] = "idle"
    /\ \E o \in Sends[c], d \in Docs :
        /\ op' = [op EXCEPT ![c] = o]
        /\ doc' = [doc EXCEPT ![c] = IF o \in {"write", "start"} THEN d ELSE NoDoc]
        /\ pc' = [pc EXCEPT ![c] = CASE o = "write" -> "lock" [] o = "start" -> "work" [] OTHER -> "reply"]
        /\ IF o = "write" THEN Locks!Request(c, <<VaultOf[c], d>>) ELSE UNCHANGED lockVars
    /\ UNCHANGED <<log, chan, phase, connections, made, answer, fwdVars, outVars, ghosts>>

Lock(c) ==
    /\ pc[c] = "lock"
    /\ Locks!Acquire(c)
    /\ pc' = [pc EXCEPT ![c] = "work"]
    /\ UNCHANGED <<log, chan, phase, connections, op, doc, made, answer, fwdVars, outVars, ghosts>>

AnswerKeepsGuard(c, m, s) ==
    /\ pc' = [pc EXCEPT ![c] = "reply"]
    /\ made' = [made EXCEPT ![c] = m]
    /\ answer' = [answer EXCEPT ![c] = s]
    /\ UNCHANGED lockVars

\* process_message returns: the document lock is free again, whatever the
\* request was.
Answer(c, m, s) ==
    /\ pc' = [pc EXCEPT ![c] = "reply"]
    /\ made' = [made EXCEPT ![c] = m]
    /\ answer' = [answer EXCEPT ![c] = s]
    /\ IF want[c] = NoDoc THEN UNCHANGED lockVars ELSE Locks!Release(c)

\* A push, create or delete is stored, and returns the event to publish.
Commit(c) ==
    /\ pc[c] = "work" /\ op[c] = "write"
    /\ Len(log) < MaxLog
    /\ log' = Append(log, [vault |-> VaultOf[c], doc |-> doc[c], by |-> c])
    /\ Answer(c, Len(log) + 1, {})
    /\ UNCHANGED <<chan, phase, connections, op, doc, fwdVars, outVars, ghosts>>

\* A write that is refused, or fails, has no event.
Refuse(c) ==
    /\ pc[c] = "work" /\ op[c] = "write"
    /\ Answer(c, 0, {})
    /\ UNCHANGED <<log, chan, phase, connections, op, doc, fwdVars, outVars, ghosts>>

\* sync_start reads the document, without its lock.
ReadDoc(c) ==
    /\ pc[c] = "work" /\ op[c] = "start"
    /\ Answer(c, 0, {n \in Numbers : log[n].vault = VaultOf[c] /\ log[n].doc = doc[c]})
    /\ synced' = [synced EXCEPT ![c] = @ \cup {doc[c]}]
    /\ UNCHANGED <<log, chan, phase, connections, op, doc, fwdVars, outVars, start, lost>>

\* The response enters the write queue, and waits while that is full.
Reply(c) ==
    /\ pc[c] = "reply" /\ writer[c] /\ ~Full(c)
    /\ wq' = [wq EXCEPT ![c] = Append(@, Response(answer[c]))]
    /\ answer' = [answer EXCEPT ![c] = {}]
    /\ pc' = [pc EXCEPT ![c] = IF made[c] = 0 THEN "idle" ELSE "publish"]
    /\ op' = [op EXCEPT ![c] = "none"]
    /\ doc' = [doc EXCEPT ![c] = NoDoc]
    /\ UNCHANGED <<log, chan, phase, connections, made, lockVars, fwdVars, writer, got, knows, ghosts>>

\* The writer is gone.  frame_too_large ignores that; any other response
\* ends the loop, before its event is published.
ReplyFails(c) ==
    /\ pc[c] = "reply" /\ ~writer[c]
    /\ \/ op[c] # "big" /\ End(c)
       \/ /\ op[c] = "big"
          /\ pc' = [pc EXCEPT ![c] = "idle"]
          /\ op' = [op EXCEPT ![c] = "none"]
          /\ UNCHANGED <<log, chan, phase, connections, doc, made, answer, lockVars, fwdVars, outVars, ghosts>>

Publish(c) ==
    /\ pc[c] = "publish"
    /\ chan' = Append(chan, made[c])
    /\ made' = [made EXCEPT ![c] = 0]
    /\ pc' = [pc EXCEPT ![c] = "idle"]
    /\ UNCHANGED <<log, phase, connections, op, doc, answer, lockVars, fwdVars, outVars, ghosts>>

\* Close frame, end of stream, or 120 s without a frame: noticed only
\* between two requests.
Hangup(c) ==
    /\ Open(c) /\ pc[c] = "idle"
    /\ End(c)

\* post_blob_path commits a path and publishes the event (BlobPaths).
BlobPosted(v) ==
    /\ Len(log) < MaxLog
    /\ log' = Append(log, [vault |-> v, doc |-> NoDoc, by |-> NoConn])
    /\ chan' = Append(chan, Len(log) + 1)
    /\ UNCHANGED <<phase, connections, reqVars, lockVars, fwdVars, outVars, ghosts>>

-----------------------------------------------------------------------------
(* Task 3: the forwarder.                                                  *)

RelevantEcho(c, n) ==
    /\ log[n].vault = VaultOf[c]
    /\ log[n].doc = NoDoc => c \in BlobClients

\* The match arms of broadcast_fwd.
Relevant(c, n) ==
    /\ log[n].vault = VaultOf[c]
    /\ IF log[n].doc = NoDoc THEN c \in BlobClients ELSE log[n].by # c

\* The channel no longer has the event the receiver would read next.
Behind(c) == Len(chan) >= pos[c] + Capacity

\* recv returns the next event; one that is not for this client is skipped.
Recv(c) ==
    /\ Open(c) /\ fwd[c] = 0
    /\ pos[c] <= Len(chan) /\ ~Behind(c)
    /\ pos' = [pos EXCEPT ![c] = @ + 1]
    /\ fwd' = [fwd EXCEPT ![c] = IF Relevant(c, chan[pos[c]]) THEN pos[c] ELSE 0]
    /\ UNCHANGED <<log, chan, phase, connections, reqVars, lockVars, outVars, ghosts>>

TryEnqueue(c) ==
    /\ fwd[c] # 0 /\ writer[c]
    /\ wq' = [wq EXCEPT ![c] = IF Full(c) THEN @ ELSE Append(@, Event(fwd[c]))]
    /\ fwd' = [fwd EXCEPT ![c] = 0]
    /\ UNCHANGED <<log, chan, phase, connections, reqVars, lockVars, pos, writer, got, knows, ghosts>>

\* The event enters the write queue, and waits while that is full.
Enqueue(c) ==
    /\ fwd[c] # 0 /\ writer[c] /\ ~Full(c)
    /\ wq' = [wq EXCEPT ![c] = Append(@, Event(fwd[c]))]
    /\ fwd' = [fwd EXCEPT ![c] = 0]
    /\ UNCHANGED <<log, chan, phase, connections, reqVars, lockVars, pos, writer, got, knows, ghosts>>

\* Dropping the other branch of select! where it awaits: anywhere but
\* between the send of a response and the publication, which is no await.
AtAwait(c) == pc[c] # "publish"

LaggedContinues(c) ==
    /\ Open(c) /\ fwd[c] = 0 /\ Behind(c)
    /\ pos' = [pos EXCEPT ![c] = Len(chan) + 1 - Capacity]
    /\ UNCHANGED <<log, chan, phase, connections, reqVars, lockVars, fwd, outVars, ghosts>>

\* recv returns Lagged: the connection ends.
Lagged(c) ==
    /\ Open(c) /\ fwd[c] = 0 /\ Behind(c)
    /\ AtAwait(c)
    /\ End(c)

\* The writer is gone: the connection ends.
EnqueueFails(c) ==
    /\ fwd[c] # 0 /\ ~writer[c]
    /\ AtAwait(c)
    /\ End(c)

-----------------------------------------------------------------------------
(* Task 1: the writer.                                                     *)

\* A frame goes out on the socket.  A client that does not read its socket
\* makes this wait for ever.
Write(c) ==
    /\ writer[c] /\ wq[c] # <<>>
    /\ wq' = [wq EXCEPT ![c] = Tail(@)]
    /\ LET f == Head(wq[c]) IN
        /\ knows' = [knows EXCEPT ![c] = @ \cup f.tells]
        /\ got' = [got EXCEPT ![c] = IF f.event = 0 THEN @ ELSE Append(@, f.event)]
    /\ UNCHANGED <<log, chan, phase, connections, reqVars, lockVars, fwdVars, writer, ghosts>>

\* The socket fails: the task ends, and the queue with it.  Tasks 2 and 3
\* find out when they next send.
WriterFails(c) ==
    /\ writer[c] /\ wq[c] # <<>>
    /\ writer' = [writer EXCEPT ![c] = FALSE]
    /\ wq' = [wq EXCEPT ![c] = <<>>]
    /\ UNCHANGED <<log, chan, phase, connections, reqVars, lockVars, fwdVars, got, knows, ghosts>>

-----------------------------------------------------------------------------
Handle(c) == Commit(c) \/ Refuse(c) \/ ReadDoc(c)
Respond(c) == Reply(c) \/ ReplyFails(c) \/ Publish(c)
Forward(c) == Recv(c) \/ Enqueue(c) \/ Lagged(c) \/ EnqueueFails(c)

Next ==
    \/ \E c \in Conns :
        \/ AuthFails(c) \/ Greet(c) \/ Subscribe(c)
        \/ Receive(c) \/ Lock(c) \/ Handle(c) \/ Respond(c) \/ Hangup(c)
        \/ Forward(c)
        \/ Write(c) \/ WriterFails(c)
    \/ \E v \in Vaults : BlobPosted(v)

\* The runtime polls every task that can go on, and select! both branches at
\* every await; tokio's mutex and the write queue serve their waiters in
\* order, so that none is starved of the lock or of room.
\* Nothing makes a client send, hang up or, unless it is draining, read.
Fairness ==
    /\ \A c \in Conns :
        /\ WF_vars(Handle(c))
        /\ SF_vars(Lock(c)) /\ SF_vars(Respond(c)) /\ SF_vars(Forward(c))
    /\ \A c \in Draining : WF_vars(Write(c))

Spec == Init /\ [][Next]_vars /\ Fairness

-----------------------------------------------------------------------------
(* Properties.                                                             *)

Served(c) == Open(c) /\ writer[c]

Queued(c) == {n \in Numbers : \E i \in 1..Len(wq[c]) : n \in wq[c][i].tells}

\* Published: in the forwarder's hand, or not yet read by c's receiver.
Ahead(c) == {chan[i] : i \in {fwd[c]} \ {0}} \cup {chan[i] : i \in pos[c]..Len(chan)}

\* The changes a client is to be told: those of its vault that it did not
\* make itself, blob paths only if it asked for them.
Meant(c, n) ==
    /\ log[n].vault = VaultOf[c]
    /\ log[n].by # c
    /\ log[n].doc = NoDoc => c \in BlobClients

\* What a client has to know: the changes others made in documents it synced.
Owed(c) == {n \in Numbers : Meant(c, n) /\ log[n].doc \in synced[c]}

\* No change gets lost between the tables, the channel, the queue and the
\* socket: a client that is owed a change knows it, or has it on its way, or
\* the writer has not published it yet -- unless the writer's connection
\* ended in between (ws.rs sends the response first and breaks if it cannot).
NoSilentLoss ==
    \A c \in Conns : Served(c) =>
        \A n \in Owed(c) :
            \/ n \in knows[c] \cup answer[c] \cup Queued(c) \cup Ahead(c)
            \/ \E s \in Conns : made[s] = n
            \/ n \in lost

\* The events sent to c, queued for it and held by the forwarder, by their
\* places in the channel; a 0 is a response, or an empty hand.
Stream(c) == got[c] \o [i \in 1..Len(wq[c]) |-> wq[c][i].event] \o <<fwd[c]>>

\* The stream of a client is in channel order, and has exactly the events
\* meant for it since its subscription: none twice, none left out, none of
\* its own and none of another vault.
StreamExact ==
    \A c \in Conns : Served(c) =>
        LET s == Stream(c) IN
        /\ \A i, j \in 1..Len(s) : i < j /\ s[i] # 0 /\ s[j] # 0 => s[i] < s[j]
        /\ {s[i] : i \in 1..Len(s)} \ {0}
               = {i \in start[c]..(pos[c] - 1) : Meant(c, chan[i])}

\* A client that stops reading its socket stalls only itself: no response is
\* sent under a document lock, so every request of a client that does read is
\* answered, or its connection ends.
RequestServed == \A c \in Draining : pc[c] # "idle" ~> pc[c] = "idle"

\* Held back: the response of the change's own writer waits for room in the
\* queue of a client that does not read.
HeldBack(n) == \E s \in Conns \ Draining : made[s] = n

\* A change reaches every client that reads its socket, or that client's
\* connection ends (Lagged) -- except a change lost with its writer's
\* connection, or held back by a writer that does not read its responses.
ChangeReaches ==
    \A c \in Draining : \A n \in 1..MaxLog :
        (Served(c) /\ n \in Owed(c)) ~> (~Served(c) \/ n \in knows[c] \/ n \in lost \/ HeldBack(n))
=============================================================================

------------------------------ MODULE DocLocks ------------------------------
(***************************************************************************)
(* src/lib.rs, DocLocks: a map from lock key to a shared lock object       *)
(* (Arc<tokio::sync::Mutex<()>>) that forgets an object once only the map  *)
(* refers to it.  Every lookup evicts, so an object may disappear from the *)
(* map between a task's get and the next task's get: two tasks that lock   *)
(* the same document must still meet at the same object.                   *)
(*                                                                         *)
(* get runs under a std mutex and is one step; lock().await enqueues the   *)
(* task in the FIFO queue of the object; the guard and the task's clone of *)
(* the Arc are dropped in two steps, and the task may be cancelled at any  *)
(* await (its connection's select! ends), which drops whatever it had.     *)
(***************************************************************************)
EXTENDS Naturals, Sequences

CONSTANTS
    Tasks,      \* connections running process_inner
    Keys,       \* lock keys, "vault_id:doc_uuid"
    Locks,      \* identities of lock objects
    NoTask, NoKey, NoLock

ASSUME SentinelAssumption ==
    NoTask \notin Tasks /\ NoKey \notin Keys /\ NoLock \notin Locks

VARIABLES
    map,        \* map[k]: the object the map holds for k, or NoLock
    arc,        \* arc[t]: the clone of the Arc that t holds, or NoLock
    key,        \* key[t]: the key t asked for, or NoKey
    pc,         \* where t is
    owner,      \* owner[l]: who has the permit of object l, or NoTask
    waiters     \* waiters[l]: FIFO queue of l's semaphore

vars == <<map, arc, key, pc, owner, waiters>>

PcValues == {"idle", "got", "wait", "cs", "dropping"}

TypeOK ==
    /\ map \in [Keys -> Locks \cup {NoLock}]
    /\ arc \in [Tasks -> Locks \cup {NoLock}]
    /\ key \in [Tasks -> Keys \cup {NoKey}]
    /\ pc \in [Tasks -> PcValues]
    /\ owner \in [Locks -> Tasks \cup {NoTask}]
    /\ waiters \in [Locks -> Seq(Tasks)]

Init ==
    /\ map = [k \in Keys |-> NoLock]
    /\ arc = [t \in Tasks |-> NoLock]
    /\ key = [t \in Tasks |-> NoKey]
    /\ pc = [t \in Tasks |-> "idle"]
    /\ owner = [l \in Locks |-> NoTask]
    /\ waiters = [l \in Locks |-> <<>>]

-----------------------------------------------------------------------------
\* Mutant: strong_count(lock) > 2, which forgets that the map has one itself.
InUseByTwo(l) == \E t, u \in Tasks : t # u /\ arc[t] = l /\ arc[u] = l

\* Arc::strong_count(lock) > 1 for an object of the map: some task holds a
\* clone besides the map's own reference.
InUse(l) == \E t \in Tasks : arc[t] = l

\* Mutant: nothing is evicted.
RetainedAll == map

\* map.retain(..): entries nobody uses are evicted.
Retained ==
    [k \in Keys |-> IF map[k] # NoLock /\ InUse(map[k]) THEN map[k] ELSE NoLock]

\* Identities an Arc::new may have: not the address of a live object.
Unused(l) == ~InUse(l) /\ \A k \in Keys : Retained[k] # l

\* Mutant: insert without looking for the entry first.
GetInserting(t, k) ==
    /\ pc[t] = "idle"
    /\ \E l \in Locks :
          /\ Unused(l)
          /\ map' = [Retained EXCEPT ![k] = l]
          /\ arc' = [arc EXCEPT ![t] = l]
          /\ owner' = [owner EXCEPT ![l] = NoTask]
          /\ waiters' = [waiters EXCEPT ![l] = <<>>]
    /\ key' = [key EXCEPT ![t] = k]
    /\ pc' = [pc EXCEPT ![t] = "got"]

\* DocLocks::get(key): evict, then find or insert the entry, and clone it.
Get(t, k) ==
    /\ pc[t] = "idle"
    /\ \/ /\ Retained[k] # NoLock
          /\ map' = Retained
          /\ arc' = [arc EXCEPT ![t] = Retained[k]]
          /\ UNCHANGED <<owner, waiters>>
       \/ /\ Retained[k] = NoLock
          /\ \E l \in Locks :
                /\ Unused(l)
                /\ map' = [Retained EXCEPT ![k] = l]
                /\ arc' = [arc EXCEPT ![t] = l]
                /\ owner' = [owner EXCEPT ![l] = NoTask]
                /\ waiters' = [waiters EXCEPT ![l] = <<>>]
    /\ key' = [key EXCEPT ![t] = k]
    /\ pc' = [pc EXCEPT ![t] = "got"]

\* First poll of lock().await: take the permit if it is free, else queue.
Poll(t) ==
    /\ pc[t] = "got"
    /\ \/ /\ owner[arc[t]] = NoTask
          /\ owner' = [owner EXCEPT ![arc[t]] = t]
          /\ pc' = [pc EXCEPT ![t] = "cs"]
          /\ UNCHANGED waiters
       \/ /\ owner[arc[t]] # NoTask
          /\ waiters' = [waiters EXCEPT ![arc[t]] = Append(@, t)]
          /\ pc' = [pc EXCEPT ![t] = "wait"]
          /\ UNCHANGED owner
    /\ UNCHANGED <<map, arc, key>>

\* The permit was handed to t; the executor polls it again.
Wake(t) ==
    /\ pc[t] = "wait"
    /\ owner[arc[t]] = t
    /\ pc' = [pc EXCEPT ![t] = "cs"]
    /\ UNCHANGED <<map, arc, key, owner, waiters>>

\* tokio's semaphore gives a released permit to the first waiter.
HandOver(l) ==
    IF waiters[l] = <<>>
    THEN owner' = [owner EXCEPT ![l] = NoTask] /\ UNCHANGED waiters
    ELSE /\ owner' = [owner EXCEPT ![l] = Head(waiters[l])]
         /\ waiters' = [waiters EXCEPT ![l] = Tail(@)]

\* A cancelled waiter leaves the queue.
Dequeue(t, l) ==
    /\ \E i \in 1..Len(waiters[l]) :
          /\ waiters[l][i] = t
          /\ waiters' = [waiters EXCEPT
                ![l] = SubSeq(@, 1, i - 1) \o SubSeq(@, i + 1, Len(@))]
    /\ UNCHANGED owner

\* The handler returns: _guard is dropped first, the Arc after it.
Unlock(t) ==
    /\ pc[t] = "cs"
    /\ HandOver(arc[t])
    /\ pc' = [pc EXCEPT ![t] = "dropping"]
    /\ UNCHANGED <<map, arc, key>>

\* Mutant: dropping a queued future gives up a permit it does not have.
CancelReleasing(t) ==
    /\ pc[t] \in {"got", "wait", "cs"}
    /\ IF pc[t] = "got" THEN UNCHANGED <<owner, waiters>> ELSE HandOver(arc[t])
    /\ pc' = [pc EXCEPT ![t] = "dropping"]
    /\ UNCHANGED <<map, arc, key>>

\* Mutant: a permit handed over just before the cancellation is lost.
CancelLosingPermit(t) ==
    /\ pc[t] \in {"got", "wait", "cs"}
    /\ \/ pc[t] = "got" /\ UNCHANGED <<owner, waiters>>
       \/ pc[t] = "cs" /\ HandOver(arc[t])
       \/ pc[t] = "wait" /\ owner[arc[t]] = t /\ UNCHANGED <<owner, waiters>>
       \/ pc[t] = "wait" /\ owner[arc[t]] # t /\ Dequeue(t, arc[t])
    /\ pc' = [pc EXCEPT ![t] = "dropping"]
    /\ UNCHANGED <<map, arc, key>>

\* The future is dropped at an await, inside or outside the critical section.
Cancel(t) ==
    /\ pc[t] \in {"got", "wait", "cs"}
    /\ \/ pc[t] = "got" /\ UNCHANGED <<owner, waiters>>
       \/ pc[t] # "got" /\ owner[arc[t]] = t /\ HandOver(arc[t])
       \/ pc[t] = "wait" /\ owner[arc[t]] # t /\ Dequeue(t, arc[t])
    /\ pc' = [pc EXCEPT ![t] = "dropping"]
    /\ UNCHANGED <<map, arc, key>>

\* The local Arc goes out of scope: the object's count falls by one.
DropArc(t) ==
    /\ pc[t] = "dropping"
    /\ arc' = [arc EXCEPT ![t] = NoLock]
    /\ key' = [key EXCEPT ![t] = NoKey]
    /\ pc' = [pc EXCEPT ![t] = "idle"]
    /\ UNCHANGED <<map, owner, waiters>>

Step(t) == Poll(t) \/ Wake(t) \/ Unlock(t) \/ DropArc(t)

Next ==
    \E t \in Tasks :
        \/ \E k \in Keys : Get(t, k)
        \/ Step(t)
        \/ Cancel(t)

Safety == Init /\ [][Next]_vars

\* Tokio polls every woken task and a handler returns: each started request
\* keeps going.  Arrival of requests and cancellation are not fair.
Spec == Safety /\ \A t \in Tasks : WF_vars(Step(t))

-----------------------------------------------------------------------------
\* A task that has asked for a key holds the very object the map has for it.
ArcIsMapped ==
    \A t \in Tasks : pc[t] # "idle" =>
        arc[t] \in Locks /\ key[t] \in Keys /\ map[key[t]] = arc[t]

\* Whoever is inside has the permit of its object.
InsideOwns == \A t \in Tasks : pc[t] = "cs" => owner[arc[t]] = t

\* What makes eviction safe: the map never forgets, and never replaces, an
\* object that some task has got, so all users of a key meet at one object.
IndInv == TypeOK /\ ArcIsMapped /\ InsideOwns

\* Two handlers never run at once for one (vault, document), whatever get
\* evicted in between: the TOCTOU checks of handlers.rs rest on it.
MutualExclusion ==
    \A t, u \in Tasks :
        pc[t] = "cs" /\ pc[u] = "cs" /\ key[t] = key[u] => t = u

\* Eviction keeps the map no larger than the number of tasks, however many
\* documents were ever locked: an entry a get leaves behind is for the key of
\* some task.  The comment on the struct (lib.rs:44) still says that entries
\* grow with the number of unique documents; the retain of get, and the
\* comment there (lib.rs:58), say otherwise.
MapBounded ==
    [][(\E t \in Tasks : pc[t] = "idle" /\ pc'[t] = "got") =>
       \A k \in Keys : map'[k] # NoLock => \E t \in Tasks : key'[t] = k]_vars

\* A queued task gets the lock, or is cancelled: no wake-up is lost when a
\* waiter, or the task the permit was just handed to, is cancelled.
WaiterServed == \A t \in Tasks : pc[t] = "wait" ~> pc[t] # "wait"

\* The lock map implements one mutex per key.
Mutex == INSTANCE KeyedMutex WITH
    want <- [t \in Tasks |-> IF pc[t] \in {"got", "wait", "cs"} THEN key[t] ELSE NoKey],
    hold <- {t \in Tasks : pc[t] = "cs"}

\* The lock map does only what a mutex per key allows, eviction and hand-over
\* being invisible, and keeps every request of it moving.
ImplementsMutex == Mutex!MutexSpec
=============================================================================

--------------------------- MODULE DocLocksProofs ---------------------------
(***************************************************************************)
(* DocLocks for any number of tasks, keys and lock objects: eviction never *)
(* separates two tasks that lock the same document.                        *)
(***************************************************************************)
EXTENDS DocLocks, SequenceTheorems, TLAPS

-----------------------------------------------------------------------------
\* Eviction spares every entry some task uses.
LEMMA RetainedKeepsUsed ==
    ASSUME TypeOK, NEW t \in Tasks, NEW k \in Keys, arc[t] \in Locks, map[k] = arc[t]
    PROVE  Retained[k] = arc[t]
BY SentinelAssumption DEF TypeOK, Retained, InUse

\* Handing a permit over keeps the types of the semaphores.
LEMMA HandOverTypes ==
    ASSUME TypeOK, NEW l \in Locks, HandOver(l)
    PROVE  /\ owner' \in [Locks -> Tasks \cup {NoTask}]
           /\ waiters' \in [Locks -> Seq(Tasks)]
           /\ \A m \in Locks : m # l => owner'[m] = owner[m]
<1>1. CASE waiters[l] = <<>>
  BY <1>1 DEF HandOver, TypeOK
<1>2. CASE waiters[l] # <<>>
  <2>1. waiters[l] \in Seq(Tasks)
    BY DEF TypeOK
  <2>2. Head(waiters[l]) \in Tasks /\ Tail(waiters[l]) \in Seq(Tasks)
    BY <2>1, <1>2, HeadTailProperties
  <2> QED BY <1>2, <2>2 DEF HandOver, TypeOK
<1> QED BY <1>1, <1>2

\* Taking a waiter out of a queue keeps the queue a queue of tasks.
LEMMA DequeueTypes ==
    ASSUME TypeOK, NEW t \in Tasks, NEW l \in Locks, Dequeue(t, l)
    PROVE  waiters' \in [Locks -> Seq(Tasks)] /\ owner' = owner
<1>1. PICK i \in 1..Len(waiters[l]) :
          waiters' = [waiters EXCEPT ![l] =
              SubSeq(waiters[l], 1, i - 1) \o SubSeq(waiters[l], i + 1, Len(waiters[l]))]
  BY DEF Dequeue
<1>2. waiters[l] \in Seq(Tasks)
  BY DEF TypeOK
<1>3. SubSeq(waiters[l], 1, i - 1) \in Seq(Tasks)
  BY <1>2
<1>4. SubSeq(waiters[l], i + 1, Len(waiters[l])) \in Seq(Tasks)
  BY <1>2
<1>5. SubSeq(waiters[l], 1, i - 1) \o SubSeq(waiters[l], i + 1, Len(waiters[l])) \in Seq(Tasks)
  BY <1>3, <1>4
<1> QED BY <1>1, <1>5 DEF TypeOK, Dequeue

-----------------------------------------------------------------------------
LEMMA InitIndInv == Init => IndInv
BY DEF Init, IndInv, TypeOK, ArcIsMapped, InsideOwns, PcValues

\* get: the entry found, or the object inserted, is the one every user of
\* the key has.
LEMMA GetIndInv ==
    ASSUME IndInv, NEW t \in Tasks, NEW k \in Keys, Get(t, k)
    PROVE  IndInv'
<1>1. TypeOK /\ ArcIsMapped /\ InsideOwns /\ pc[t] = "idle"
  BY DEF IndInv, Get
<1>2. Retained \in [Keys -> Locks \cup {NoLock}]
  BY <1>1 DEF Retained, TypeOK
<1>3. \A u \in Tasks : pc[u] # "idle" => Retained[key[u]] = arc[u]
  BY <1>1, RetainedKeepsUsed DEF ArcIsMapped
<1>4. CASE Retained[k] # NoLock
  <2>1. /\ map' = Retained /\ arc' = [arc EXCEPT ![t] = Retained[k]]
        /\ UNCHANGED <<owner, waiters>>
        /\ key' = [key EXCEPT ![t] = k] /\ pc' = [pc EXCEPT ![t] = "got"]
    BY <1>4 DEF Get
  <2>2. Retained[k] \in Locks
    BY <1>2, <1>4
  <2>3. TypeOK'
    BY <1>1, <1>2, <2>1, <2>2 DEF TypeOK, PcValues
  <2>4. ArcIsMapped'
    BY <1>1, <1>3, <2>1, <2>2 DEF TypeOK, ArcIsMapped
  <2>5. InsideOwns'
    BY <1>1, <2>1 DEF TypeOK, InsideOwns
  <2> QED BY <2>3, <2>4, <2>5 DEF IndInv
<1>5. CASE Retained[k] = NoLock
  <2>1. PICK l \in Locks :
          /\ Unused(l)
          /\ map' = [Retained EXCEPT ![k] = l] /\ arc' = [arc EXCEPT ![t] = l]
          /\ owner' = [owner EXCEPT ![l] = NoTask] /\ waiters' = [waiters EXCEPT ![l] = <<>>]
    BY <1>5 DEF Get
  <2>2. key' = [key EXCEPT ![t] = k] /\ pc' = [pc EXCEPT ![t] = "got"]
    BY DEF Get
  <2>3. \A u \in Tasks : pc[u] # "idle" => key[u] # k /\ arc[u] # l
    BY <1>1, <1>3, <1>5, <2>1, SentinelAssumption DEF ArcIsMapped, Unused, InUse
  <2>4. TypeOK'
    BY <1>1, <1>2, <2>1, <2>2 DEF TypeOK, PcValues
  <2>5. ArcIsMapped'
    BY <1>1, <1>2, <1>3, <2>1, <2>2, <2>3 DEF TypeOK, ArcIsMapped
  <2>6. InsideOwns'
    BY <1>1, <2>1, <2>2, <2>3 DEF TypeOK, ArcIsMapped, InsideOwns
  <2> QED BY <2>4, <2>5, <2>6 DEF IndInv
<1> QED BY <1>4, <1>5

\* Leaving the lock passes the permit on; nobody else was inside with it.
LEMMA LeaveIndInv ==
    ASSUME IndInv, NEW t \in Tasks, Unlock(t) \/ Cancel(t)
    PROVE  IndInv'
<1>1. TypeOK /\ ArcIsMapped /\ InsideOwns
  BY DEF IndInv
<1>2. /\ pc[t] \in {"got", "wait", "cs"} /\ pc' = [pc EXCEPT ![t] = "dropping"]
      /\ UNCHANGED <<map, arc, key>>
  BY DEF Unlock, Cancel
<1>3. arc[t] \in Locks
  BY <1>1, <1>2 DEF ArcIsMapped
<1>4. \/ UNCHANGED <<owner, waiters>>
      \/ owner[arc[t]] = t /\ HandOver(arc[t])
      \/ Dequeue(t, arc[t])
  BY <1>1 DEF Unlock, Cancel, InsideOwns
<1>5. /\ owner' \in [Locks -> Tasks \cup {NoTask}]
      /\ waiters' \in [Locks -> Seq(Tasks)]
      /\ owner[arc[t]] = t \/ owner' = owner
      /\ \A m \in Locks : m # arc[t] => owner'[m] = owner[m]
  <2>1. CASE UNCHANGED <<owner, waiters>>
    BY <2>1, <1>1 DEF TypeOK
  <2>2. CASE owner[arc[t]] = t /\ HandOver(arc[t])
    BY <2>2, <1>1, <1>3, HandOverTypes
  <2>3. CASE Dequeue(t, arc[t])
    <3>1. waiters' \in [Locks -> Seq(Tasks)] /\ owner' = owner
      BY <2>3, <1>1, <1>3, DequeueTypes
    <3> QED BY <3>1, <1>1 DEF TypeOK
  <2> QED BY <1>4, <2>1, <2>2, <2>3
<1>6. TypeOK'
  BY <1>1, <1>2, <1>5 DEF TypeOK, PcValues
<1>7. ArcIsMapped'
  BY <1>1, <1>2 DEF TypeOK, ArcIsMapped
<1>8. InsideOwns'
  BY <1>1, <1>2, <1>3, <1>5 DEF TypeOK, ArcIsMapped, InsideOwns
<1> QED BY <1>6, <1>7, <1>8 DEF IndInv

LEMMA NextIndInv == IndInv /\ [Next]_vars => IndInv'
<1> SUFFICES ASSUME IndInv, [Next]_vars PROVE IndInv'
  OBVIOUS
<1>1. ASSUME NEW t \in Tasks, NEW k \in Keys, Get(t, k) PROVE IndInv'
  BY <1>1, GetIndInv
<1>2. ASSUME NEW t \in Tasks, Poll(t) PROVE IndInv'
  <2>1. TypeOK /\ ArcIsMapped /\ InsideOwns /\ arc[t] \in Locks
    BY <1>2 DEF IndInv, Poll, ArcIsMapped
  <2>2. CASE owner[arc[t]] = NoTask
    <3>1. /\ owner' = [owner EXCEPT ![arc[t]] = t] /\ pc' = [pc EXCEPT ![t] = "cs"]
          /\ UNCHANGED <<waiters, map, arc, key>>
      BY <1>2, <2>2 DEF Poll
    <3>2. TypeOK'
      BY <2>1, <3>1 DEF TypeOK, PcValues
    <3>3. ArcIsMapped'
      BY <1>2, <2>1, <3>1 DEF Poll, TypeOK, ArcIsMapped
    <3>4. InsideOwns'
      BY <2>1, <2>2, <3>1, SentinelAssumption DEF TypeOK, ArcIsMapped, InsideOwns
    <3> QED BY <3>2, <3>3, <3>4 DEF IndInv
  <2>3. CASE owner[arc[t]] # NoTask
    <3>1. Append(waiters[arc[t]], t) \in Seq(Tasks)
      BY <2>1, AppendProperties DEF TypeOK
    <3>2. /\ pc[t] = "got" /\ pc' = [pc EXCEPT ![t] = "wait"]
          /\ waiters' = [waiters EXCEPT ![arc[t]] = Append(waiters[arc[t]], t)]
          /\ UNCHANGED <<owner, map, arc, key>>
      BY <1>2, <2>3 DEF Poll
    <3>3. waiters' \in [Locks -> Seq(Tasks)]
      BY <2>1, <3>1, <3>2 DEF TypeOK
    <3>4. pc' \in [Tasks -> PcValues]
      BY <2>1, <3>2 DEF TypeOK, PcValues
    <3>5. TypeOK'
      BY <2>1, <3>2, <3>3, <3>4 DEF TypeOK
    <3>6. ArcIsMapped' /\ InsideOwns'
      BY <2>1, <3>2 DEF TypeOK, ArcIsMapped, InsideOwns
    <3> QED BY <3>5, <3>6 DEF IndInv
  <2> QED BY <2>2, <2>3
<1>3. ASSUME NEW t \in Tasks, Wake(t) PROVE IndInv'
  BY <1>3 DEF Wake, IndInv, TypeOK, ArcIsMapped, InsideOwns, PcValues
<1>4. ASSUME NEW t \in Tasks, Unlock(t) \/ Cancel(t) PROVE IndInv'
  BY <1>4, LeaveIndInv
<1>5. ASSUME NEW t \in Tasks, DropArc(t) PROVE IndInv'
  BY <1>5 DEF DropArc, IndInv, TypeOK, ArcIsMapped, InsideOwns, PcValues
<1>6. CASE UNCHANGED vars
  BY <1>6 DEF vars, IndInv, TypeOK, ArcIsMapped, InsideOwns
<1> QED BY <1>1, <1>2, <1>3, <1>4, <1>5, <1>6 DEF Next, Step

\* The inductive invariant holds in every state of the lock map.
THEOREM LocksInvariant == Safety => []IndInv
BY InitIndInv, NextIndInv, PTL DEF Safety

\* One key, one handler: at most one task is inside per (vault, document).
THEOREM LocksMutualExclusion == Safety => []MutualExclusion
<1>1. IndInv => MutualExclusion
  BY DEF IndInv, ArcIsMapped, InsideOwns, MutualExclusion
<1> QED BY <1>1, LocksInvariant, PTL

-----------------------------------------------------------------------------
\* A task between two requests keeps no clone of a lock object, and an
\* object is the lock of one key.
UsersKnown ==
    /\ \A t \in Tasks : pc[t] = "idle" => arc[t] = NoLock
    /\ \A k, j \in Keys : map[k] # NoLock /\ map[k] = map[j] => k = j

LEMMA NextUsersKnown == IndInv /\ UsersKnown /\ [Next]_vars => UsersKnown'
<1> SUFFICES ASSUME TypeOK, UsersKnown, [Next]_vars PROVE UsersKnown'
  BY DEF IndInv
<1>1. ASSUME NEW t \in Tasks, NEW k \in Keys, Get(t, k) PROVE UsersKnown'
  <2>1. pc' = [pc EXCEPT ![t] = "got"] /\ \A u \in Tasks \ {t} : arc'[u] = arc[u]
    BY <1>1 DEF Get, TypeOK
  <2>2. Retained \in [Keys -> Locks \cup {NoLock}]
    BY DEF Retained, TypeOK
  <2>3. \A m \in Keys : Retained[m] # NoLock => Retained[m] = map[m]
    BY DEF Retained
  <2>4. CASE map' = Retained
    BY <2>1, <2>3, <2>4 DEF TypeOK, UsersKnown
  <2>5. ASSUME NEW l \in Locks, Unused(l), map' = [Retained EXCEPT ![k] = l] PROVE UsersKnown'
    <3>1. map'[k] = l /\ \A m \in Keys \ {k} : map'[m] = Retained[m] /\ map'[m] # l
      BY <2>2, <2>5 DEF Unused
    <3> QED BY <2>1, <2>3, <3>1 DEF TypeOK, UsersKnown
  <2> QED BY <1>1, <2>4, <2>5 DEF Get
<1>2. ASSUME NEW t \in Tasks, Poll(t) \/ Wake(t) \/ Unlock(t) \/ Cancel(t) PROVE UsersKnown'
  <2>1. /\ arc' = arc /\ map' = map
        /\ \E p \in {"wait", "cs", "dropping"} : pc' = [pc EXCEPT ![t] = p]
    BY <1>2 DEF Poll, Wake, Unlock, Cancel
  <2> QED BY <2>1 DEF TypeOK, UsersKnown
<1>3. ASSUME NEW t \in Tasks, DropArc(t) PROVE UsersKnown'
  BY <1>3 DEF DropArc, TypeOK, UsersKnown
<1>4. CASE UNCHANGED vars
  BY <1>4 DEF vars, UsersKnown
<1> QED BY <1>1, <1>2, <1>3, <1>4 DEF Next, Step

\* After a get every entry of the map is one the eviction spared, which has
\* a user other than the task that asks, or the one handed to that task.  A
\* user of an object has asked for the key the map has it under.
LEMMA GetBounds ==
    ASSUME IndInv, UsersKnown, NEW t \in Tasks, NEW k \in Keys, Get(t, k)
    PROVE  \A j \in Keys : map'[j] # NoLock => \E u \in Tasks : key'[u] = j
<1>1. TypeOK /\ ArcIsMapped /\ pc[t] = "idle" /\ arc[t] = NoLock
  BY DEF IndInv, Get, UsersKnown
<1>2. \A j \in Keys : Retained[j] # NoLock =>
          \E u \in Tasks \ {t} : arc[u] = map[j] /\ map[j] # NoLock
  BY <1>1 DEF Retained, InUse
<1>3. \A u \in Tasks, j \in Keys : arc[u] = map[j] /\ map[j] # NoLock => key[u] = j
  <2> SUFFICES ASSUME NEW u \in Tasks, NEW j \in Keys, arc[u] = map[j], map[j] # NoLock
               PROVE  key[u] = j
    OBVIOUS
  <2>1. key[u] \in Keys /\ map[key[u]] = map[j]
    BY <1>1 DEF ArcIsMapped, UsersKnown
  <2> QED BY <2>1 DEF UsersKnown
<1>4. key'[t] = k /\ \A u \in Tasks \ {t} : key'[u] = key[u]
  BY <1>1 DEF Get, TypeOK
<1>5. \A j \in Keys \ {k} : map'[j] = Retained[j]
  <2>1. Retained \in [Keys -> Locks \cup {NoLock}]
    BY <1>1 DEF Retained, TypeOK
  <2> QED BY <2>1 DEF Get
<1> QED BY <1>2, <1>3, <1>4, <1>5

\* Eviction bounds the map: whatever documents were locked before, each entry
\* that a get leaves behind is for the key of a task, so there are no more
\* entries than tasks.
THEOREM LocksMapBounded == Safety => MapBounded
<1>1. Init => UsersKnown
  BY DEF Init, UsersKnown
<1>2. ASSUME IndInv, UsersKnown, [Next]_vars
      PROVE  [(\E t \in Tasks : pc[t] = "idle" /\ pc'[t] = "got") =>
              \A k \in Keys : map'[k] # NoLock => \E t \in Tasks : key'[t] = k]_vars
  <2> SUFFICES ASSUME Next, NEW t \in Tasks, pc[t] = "idle", pc'[t] = "got"
               PROVE  \A k \in Keys : map'[k] # NoLock => \E u \in Tasks : key'[u] = k
    BY <1>2
  <2>1. TypeOK
    BY <1>2 DEF IndInv
  <2>2. ASSUME NEW u \in Tasks, Step(u) \/ Cancel(u) PROVE FALSE
    BY <2>1, <2>2 DEF TypeOK, Step, Poll, Wake, Unlock, DropArc, Cancel
  <2>3. \E u \in Tasks, k \in Keys : Get(u, k)
    BY <2>2 DEF Next
  <2> QED BY <1>2, <2>3, GetBounds
<1> QED BY <1>1, <1>2, LocksInvariant, NextUsersKnown, PTL DEF Safety, MapBounded

-----------------------------------------------------------------------------
\* Every step of the lock map is a step of one mutex per key, or none.
LEMMA StepRefines ==
    ASSUME IndInv, [Next]_vars
    PROVE  [Mutex!MutexNext]_(Mutex!mutexVars)
<1> DEFINE wanted == [t \in Tasks |-> IF pc[t] \in {"got", "wait", "cs"} THEN key[t] ELSE NoKey]
           inside == {t \in Tasks : pc[t] = "cs"}
<1>0. TypeOK /\ ArcIsMapped /\ InsideOwns
  BY DEF IndInv
<1>1. ASSUME NEW t \in Tasks, NEW k \in Keys, Get(t, k) PROVE Mutex!Request(t, k)
  <2>1. pc[t] = "idle" /\ pc' = [pc EXCEPT ![t] = "got"] /\ key' = [key EXCEPT ![t] = k]
    BY <1>1 DEF Get
  <2>2. wanted[t] = NoKey
    BY <2>1
  <2>3. wanted' = [wanted EXCEPT ![t] = k]
    BY <2>1, <1>0 DEF TypeOK
  <2>4. inside' = inside
    BY <2>1, <1>0 DEF TypeOK
  <2> QED BY <2>2, <2>3, <2>4 DEF Mutex!Request
<1>2. ASSUME NEW t \in Tasks, pc[t] \in {"got", "wait"}, arc[t] \in Locks,
             owner[arc[t]] \in {t, NoTask}, pc' = [pc EXCEPT ![t] = "cs"], key' = key
      PROVE  Mutex!Acquire(t)
  <2>1. wanted[t] # NoKey /\ t \notin inside
    BY <1>0, <1>2, SentinelAssumption DEF ArcIsMapped
  <2>2. \A u \in inside : wanted[u] # wanted[t]
    BY <1>0, <1>2, SentinelAssumption DEF ArcIsMapped, InsideOwns
  <2>3. inside' = inside \cup {t} /\ wanted' = wanted
    BY <1>0, <1>2 DEF TypeOK
  <2> QED BY <2>1, <2>2, <2>3 DEF Mutex!Acquire
<1>3. ASSUME NEW t \in Tasks, Poll(t) PROVE [Mutex!MutexNext]_(Mutex!mutexVars)
  <2>1. pc[t] = "got" /\ arc[t] \in Locks /\ key' = key
    BY <1>0, <1>3 DEF Poll, ArcIsMapped
  <2>2. CASE owner[arc[t]] = NoTask
    <3>1. Mutex!Acquire(t)
      BY <1>2, <1>3, <2>1, <2>2 DEF Poll
    <3> QED BY <3>1 DEF Mutex!MutexNext, Mutex!MutexStep
  <2>3. CASE owner[arc[t]] # NoTask
    <3>1. pc' = [pc EXCEPT ![t] = "wait"]
      BY <1>3, <2>3 DEF Poll
    <3>2. wanted' = wanted /\ inside' = inside
      BY <1>0, <2>1, <3>1 DEF TypeOK
    <3> QED BY <3>2 DEF Mutex!mutexVars
  <2> QED BY <2>2, <2>3
<1>4. ASSUME NEW t \in Tasks, Wake(t) PROVE Mutex!Acquire(t)
  BY <1>0, <1>2, <1>4 DEF Wake, ArcIsMapped
<1>5. ASSUME NEW t \in Tasks, Unlock(t) \/ Cancel(t) PROVE Mutex!Release(t)
  <2>1. pc[t] \in {"got", "wait", "cs"} /\ pc' = [pc EXCEPT ![t] = "dropping"] /\ key' = key
    BY <1>5 DEF Unlock, Cancel
  <2>2. wanted[t] # NoKey
    BY <1>0, <2>1, SentinelAssumption DEF ArcIsMapped
  <2>3. wanted' = [wanted EXCEPT ![t] = NoKey]
    BY <1>0, <2>1 DEF TypeOK
  <2>4. inside' = inside \ {t}
    BY <1>0, <2>1 DEF TypeOK
  <2> QED BY <2>2, <2>3, <2>4 DEF Mutex!Release
<1>6. ASSUME NEW t \in Tasks, DropArc(t) PROVE UNCHANGED Mutex!mutexVars
  <2>1. wanted' = wanted /\ inside' = inside
    BY <1>0, <1>6 DEF DropArc, TypeOK
  <2> QED BY <2>1 DEF Mutex!mutexVars
<1>7. CASE UNCHANGED vars
  BY <1>7 DEF vars, Mutex!mutexVars
<1> QED
  BY <1>1, <1>3, <1>4, <1>5, <1>6, <1>7 DEF Next, Step, Mutex!MutexNext, Mutex!MutexStep

\* The lock map with eviction implements one mutex per key.
THEOREM LocksImplementMutex == Safety => Mutex!MutexSafety
<1>1. Init => Mutex!MutexInit
  BY DEF Init, Mutex!MutexInit
<1> QED BY <1>1, LocksInvariant, StepRefines, PTL DEF Safety, Mutex!MutexSafety
=============================================================================

----------------------------- MODULE KeyedMutex -----------------------------
(***************************************************************************)
(* What the per-document locks promise: a mutex per key.  A task asks for  *)
(* one key, may enter while no other task is inside with that key, and     *)
(* leaves (or gives up) at any time.  There are no lock objects, no        *)
(* reference counts and no queue here: DocLocks implements this module,    *)
(* and DocSync takes its document locks from it.                           *)
(***************************************************************************)
CONSTANTS
    Tasks,      \* the tasks (connections) that lock documents
    Keys,       \* lock keys, "vault_id:doc_uuid"
    NoKey       \* a task that asks for no key

VARIABLES
    want,       \* want[t]: the key t has asked for, or NoKey
    hold        \* the tasks inside their critical section

mutexVars == <<want, hold>>

MutexTypeOK ==
    /\ want \in [Tasks -> Keys \cup {NoKey}]
    /\ hold \in SUBSET Tasks

MutexInit ==
    /\ want = [t \in Tasks |-> NoKey]
    /\ hold = {}

\* doc_locks.get(key): from now on t waits for the key.
Request(t, k) ==
    /\ want[t] = NoKey
    /\ want' = [want EXCEPT ![t] = k]
    /\ UNCHANGED hold

\* lock.lock().await returns the guard.
Acquire(t) ==
    /\ want[t] # NoKey
    /\ t \notin hold
    /\ \A u \in hold : want[u] # want[t]
    /\ hold' = hold \cup {t}
    /\ UNCHANGED want

\* The guard is dropped, or the future is dropped before it had one.
Release(t) ==
    /\ want[t] # NoKey
    /\ want' = [want EXCEPT ![t] = NoKey]
    /\ hold' = hold \ {t}

MutexStep(t) ==
    \/ \E k \in Keys : Request(t, k)
    \/ Acquire(t)
    \/ Release(t)

MutexNext == \E t \in Tasks : MutexStep(t)

MutexSafety == MutexInit /\ [][MutexNext]_mutexVars

\* A task that asked is let in, or gives up; a task inside leaves.
MutexSpec == MutexSafety /\ \A t \in Tasks : WF_mutexVars(Acquire(t) \/ Release(t))

\* Two tasks inside are inside with different keys: process_inner holds the
\* guard across every await of a sync_push, doc_create or doc_delete.
MutualExclusion ==
    \A t, u \in hold : want[t] = want[u] => t = u
=============================================================================

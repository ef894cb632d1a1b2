---------------------------- MODULE SessionLane ----------------------------
(***************************************************************************)
(* The session lanes (orchestrator/session_lane_manager.py): one lock per  *)
(* session, created on demand and evicted when idle, and one semaphore for *)
(* all sessions.                                                           *)
(*                                                                         *)
(* _session_meta_lock is never held across a suspension, so its sections   *)
(* are atomic; a call switches only while it waits for its session's lock, *)
(* for the semaphore, or in the callbacks and the run.  asyncio's Lock and *)
(* Semaphore serve their waiters in order; between a release and the next  *)
(* waiter's step the lock is free, and whoever arrives queues up behind.   *)
(***************************************************************************)
EXTENDS Naturals, Sequences, FiniteSets

CONSTANTS
    Calls,      \* slots for concurrent calls of run_in_lane()
    Sessions,   \* normalised session ids
    Locks,      \* asyncio.Lock objects
    NoCall, NoSession, NoLock,
    MaxGlobal,  \* global_max_concurrent
    MaxCached   \* max_cached_session_locks (the code raises it to 32)

ASSUME SessionAssumption ==
    /\ IsFiniteSet(Calls) /\ IsFiniteSet(Sessions)
    /\ NoCall \notin Calls /\ NoSession \notin Sessions /\ NoLock \notin Locks
    /\ MaxGlobal \in Nat \ {0} /\ MaxCached \in Nat \ {0}

VARIABLES
    table,   \* _session_locks
    active,  \* _session_active_counts
    before,  \* before[s]: the sessions used longer ago than s (_session_last_used)
    holder,  \* which call holds each lock
    queue,   \* the calls waiting for each lock
    free,    \* permits left in the global semaphore
    wait,    \* the calls waiting for a permit
    pc,      \* where each call is suspended
    key,     \* the session of a call in progress
    lock     \* the lock object a call in progress refers to

vars == <<table, active, before, holder, queue, free, wait, pc, key, lock>>

Init ==
    /\ table = [s \in Sessions |-> NoLock]
    /\ active = [s \in Sessions |-> 0]
    /\ before = [s \in Sessions |-> {}]
    /\ holder = [o \in Locks |-> NoCall]
    /\ queue = [o \in Locks |-> <<>>]
    /\ free = MaxGlobal
    /\ wait = <<>>
    /\ pc = [c \in Calls |-> "idle"]
    /\ key = [c \in Calls |-> NoSession]
    /\ lock = [c \in Calls |-> NoLock]

-----------------------------------------------------------------------------
(* The lock table *)

\* A cancelled waiter is taken out of the queue (deque.remove).
WithoutCall(q, c) ==
    [i \in 1 .. Len(q) - 1 |-> IF \E j \in 1 .. i : q[j] = c THEN q[i + 1] ELSE q[i]]

\* A new Lock(): an object nobody refers to.
Unreferenced(o) == (\A s \in Sessions : table[s] # o) /\ (\A c \in Calls : lock[c] # o)

NewLock(o) == Unreferenced(o) /\ o = CHOOSE n \in Locks : Unreferenced(n)

\* The session is stamped with the time.
Touch(s) == [t \in Sessions |-> IF t = s THEN Sessions \ {s} ELSE before[t] \ {s}]

\* Seeded fault: a session is idle as soon as its lock is not locked.
IdleWhenUnlocked(s, counts) == table[s] # NoLock /\ holder[table[s]] = NoCall

\* _evict_idle_session_locks_locked spares sessions in use.
Idle(s, counts) == table[s] # NoLock /\ counts[s] = 0 /\ holder[table[s]] = NoCall

Cached == {s \in Sessions : table[s] # NoLock}

\* Seeded fault: only the idle time counts, not the size of the cache.
EvictionsByAge(s, counts) ==
    LET candidates == {t \in Sessions \ {s} : Idle(t, counts)} IN
    {E \in SUBSET candidates : \A e \in E, k \in candidates \ E : k \notin before[e]}

\* The least recently used idle sessions other than s: those idle for too
\* long, and as many more as the cache is over its size.
Evictions(s, counts) ==
    LET candidates == {t \in Sessions \ {s} : Idle(t, counts)} IN
    {E \in SUBSET candidates :
        /\ \A e \in E, k \in candidates \ E : k \notin before[e]
        /\ E = candidates \/ Cardinality(Cached \ E) <= MaxCached}

\* _mark_session_released
MarkReleased(s) ==
    LET counts == [active EXCEPT ![s] = IF @ <= 1 THEN 0 ELSE @ - 1] IN
    \E E \in Evictions(s, counts) :
        /\ table' = [t \in Sessions |-> IF t \in E THEN NoLock ELSE table[t]]
        /\ active' = [t \in Sessions |-> IF t \in E THEN 0 ELSE counts[t]]
        /\ before' = Touch(s)

-----------------------------------------------------------------------------
(* acquire() and run_in_lane() *)

\* Ask for a permit while holding the session's lock.
TakePermit(c) ==
    \/ /\ free > 0 /\ wait = <<>>
       /\ free' = free - 1
       /\ pc' = [pc EXCEPT ![c] = "running"]
       /\ UNCHANGED wait
    \/ /\ free = 0 \/ wait # <<>>
       /\ wait' = Append(wait, c)
       /\ pc' = [pc EXCEPT ![c] = "permit"]
       /\ UNCHANGED free

\* _get_or_create_session_lock, then the lock, then the semaphore, up to the
\* first of them that is not available.
Enter(c, s) ==
    /\ pc[c] = "idle"
    /\ active' = [active EXCEPT ![s] = @ + 1]
    /\ before' = Touch(s)
    /\ key' = [key EXCEPT ![c] = s]
    /\ \E o \in Locks :
          /\ IF table[s] = NoLock THEN NewLock(o) ELSE o = table[s]
          /\ table' = [table EXCEPT ![s] = o]
          /\ lock' = [lock EXCEPT ![c] = o]
          /\ \/ /\ holder[o] = NoCall /\ queue[o] = <<>>
                /\ holder' = [holder EXCEPT ![o] = c]
                /\ TakePermit(c)
                /\ UNCHANGED queue
             \/ /\ holder[o] # NoCall \/ queue[o] # <<>>
                /\ queue' = [queue EXCEPT ![o] = Append(@, c)]
                /\ pc' = [pc EXCEPT ![c] = "locking"]
                /\ UNCHANGED <<holder, free, wait>>

LockGranted(c) ==
    /\ pc[c] = "locking"
    /\ holder[lock[c]] = NoCall /\ Head(queue[lock[c]]) = c
    /\ holder' = [holder EXCEPT ![lock[c]] = c]
    /\ queue' = [queue EXCEPT ![lock[c]] = Tail(@)]
    /\ TakePermit(c)
    /\ UNCHANGED <<table, active, before, key, lock>>

PermitGranted(c) ==
    /\ pc[c] = "permit"
    /\ free > 0 /\ Head(wait) = c
    /\ free' = free - 1
    /\ wait' = Tail(wait)
    /\ pc' = [pc EXCEPT ![c] = "running"]
    /\ UNCHANGED <<table, active, before, holder, queue, key, lock>>

\* The call is over: its slot is free for another one.
Return(c) ==
    /\ pc' = [pc EXCEPT ![c] = "idle"]
    /\ key' = [key EXCEPT ![c] = NoSession]
    /\ lock' = [lock EXCEPT ![c] = NoLock]

\* Seeded fault: the permit is not given back.
LeaveKeepingPermit(c) ==
    /\ pc[c] = "running"
    /\ MarkReleased(key[c])
    /\ holder' = [holder EXCEPT ![lock[c]] = NoCall]
    /\ Return(c)
    /\ UNCHANGED <<queue, free, wait>>

\* on_acquired, the run and on_released are over, raised or were cancelled:
\* the session is marked released while its lock is still held, then the permit
\* and the lock are released.
Leave(c) ==
    /\ pc[c] = "running"
    /\ MarkReleased(key[c])
    /\ free' = free + 1
    /\ holder' = [holder EXCEPT ![lock[c]] = NoCall]
    /\ Return(c)
    /\ UNCHANGED <<queue, wait>>

\* The caller is cancelled while it waits for the lock ...
CancelLocking(c) ==
    /\ pc[c] = "locking"
    /\ queue' = [queue EXCEPT ![lock[c]] = WithoutCall(@, c)]
    /\ MarkReleased(key[c])
    /\ Return(c)
    /\ UNCHANGED <<holder, free, wait>>

\* Seeded fault: a permit is given back that was never taken.
CancelPermitReleasing(c) ==
    /\ pc[c] = "permit"
    /\ wait' = WithoutCall(wait, c)
    /\ free' = free + 1
    /\ holder' = [holder EXCEPT ![lock[c]] = NoCall]
    /\ MarkReleased(key[c])
    /\ Return(c)
    /\ UNCHANGED queue

\* ... or for a permit: the lock is released before the session is marked so.
CancelPermit(c) ==
    /\ pc[c] = "permit"
    /\ wait' = WithoutCall(wait, c)
    /\ holder' = [holder EXCEPT ![lock[c]] = NoCall]
    /\ MarkReleased(key[c])
    /\ Return(c)
    /\ UNCHANGED <<queue, free>>

-----------------------------------------------------------------------------
Next ==
    \E c \in Calls :
        \/ \E s \in Sessions : Enter(c, s)
        \/ LockGranted(c) \/ PermitGranted(c) \/ Leave(c)
        \/ CancelLocking(c) \/ CancelPermit(c)

Spec == Init /\ [][Next]_vars

\* The event loop serves woken waiters, and a run ends: every caller bounds it
\* or is a task that ends.
FairSpec ==
    /\ Spec
    /\ \A c \in Calls : WF_vars(LockGranted(c)) /\ WF_vars(PermitGranted(c)) /\ WF_vars(Leave(c))

-----------------------------------------------------------------------------
(* Properties *)

\* Type invariant of the manager's dictionaries, its locks and its callers.
TypeOK ==
    /\ table \in [Sessions -> Locks \cup {NoLock}]
    /\ active \in [Sessions -> Nat]
    /\ before \in [Sessions -> SUBSET Sessions]
    /\ holder \in [Locks -> Calls \cup {NoCall}]
    /\ queue \in [Locks -> Seq(Calls)]
    /\ free \in 0 .. MaxGlobal
    /\ wait \in Seq(Calls)
    /\ pc \in [Calls -> {"idle", "locking", "permit", "running"}]
    /\ key \in [Calls -> Sessions \cup {NoSession}]
    /\ lock \in [Calls -> Locks \cup {NoLock}]

\* Two runs of one session never overlap, although the session's lock object
\* may be evicted and created anew between two calls.
MutualExclusion ==
    \A c, d \in Calls :
        (pc[c] = "running" /\ pc[d] = "running" /\ key[c] = key[d]) => c = d

\* The lane of a session is the line the callers see: whoever holds the lock of
\* its table entry, then those queued on it.
Turns == INSTANCE SessionTurns WITH
    line <- [s \in Sessions |->
                IF table[s] = NoLock THEN <<>>
                ELSE (IF holder[table[s]] = NoCall THEN <<>> ELSE <<holder[table[s]]>>)
                        \o queue[table[s]]],
    running <- {c \in Calls : pc[c] = "running"}

\* run_in_lane() keeps the order of arrival of every session and the global
\* limit, whatever is evicted, cancelled or woken meanwhile.
ImplementsTurns == Turns!TSpec

\* Locks of sessions nobody uses never exceed the size of the cache.
IdleLocksBounded == Cardinality({s \in Sessions : table[s] # NoLock /\ active[s] = 0}) <= MaxCached

\* A call waiting for its session or for a permit runs in the end, or leaves.
NoStarvation == \A c \in Calls : pc[c] \in {"locking", "permit"} ~> pc[c] \in {"running", "idle"}
=============================================================================

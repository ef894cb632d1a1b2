----------------------------- MODULE SubrunLane -----------------------------
(***************************************************************************)
(* The subrun lane of the orchestrator (orchestrator/subrun_lane.py):      *)
(* spawning of delegated runs, the asyncio task of each run, cascading     *)
(* kills, announcement with retries, retention, and recovery of the        *)
(* persisted registry after a crash.                                       *)
(*                                                                         *)
(* asyncio runs one task at a time and switches only at an await that      *)
(* really suspends.  self._lock is never held across such an await, so its *)
(* sections are atomic; pc[r] names the await in which run r's code is     *)
(* suspended, and one action is the code between two suspensions.          *)
(***************************************************************************)
EXTENDS Integers, Sequences, FiniteSets

CONSTANTS
    Runs,           \* run ids a lane may hand out (uuid4, never reused)
    Requests,       \* ids of top-level requests, which also spawn
    Killers,        \* concurrent calls of kill() / kill_all()
    NoRun,          \* absence of a run
    MaxConcurrent,  \* max_concurrent: permits of the lane's semaphore
    MaxDepth,       \* max_spawn_depth
    MaxChildren,    \* max_children_per_parent
    MaxAttempts,    \* announce_retry_max_attempts
    MaxTerminal,    \* max_retained_terminal_runs
    MaxEntries,     \* max_retained_run_entries
    BodyOutcomes,   \* how the body of a run may end in the instance at hand
    OrphanGrace,    \* restore_orphan_grace_seconds > 0
    StoreMayFail,   \* a write of the state store may raise
    PersistMayFail, \* a write of the registry file may be lost (it is swallowed)
    LateCancel,     \* wait_for runs the body in a task of its own (Python 3.11)
    MaxCrashes      \* bound on process crashes

ASSUME LaneAssumption ==
    /\ NoRun \notin Runs \cup Requests /\ Runs \cap Requests = {}
    /\ IsFiniteSet(Runs)
    /\ {MaxConcurrent, MaxDepth, MaxChildren, MaxAttempts, MaxTerminal} \subseteq Nat \ {0}
    /\ MaxEntries \in Nat /\ MaxEntries >= MaxTerminal
    /\ BodyOutcomes \subseteq {"completed", "failed", "timed_out"}
    /\ {OrphanGrace, StoreMayFail, PersistMayFail, LateCancel} \subseteq BOOLEAN
    /\ MaxCrashes \in Nat

VARIABLES
    reg,       \* the registry: _run_specs, _run_status and _announce_status
    saved,     \* subrun_registry.json, the copy of reg on disk
    store,     \* status of each run's document in the state store
    pc,        \* where the code of each run is suspended
    cancelReq, \* task.cancel() was called and is not yet delivered
    tries,     \* number of the current announce attempt
    kill,      \* progress of each kill() / kill_all() call
    crashes

vars == <<reg, saved, store, pc, cancelReq, tries, kill, crashes>>

-----------------------------------------------------------------------------
(* The registry *)

TerminalStatuses == {"completed", "failed", "timed_out", "cancelled"}
Statuses == TerminalStatuses \cup {"none", "accepted", "running"}
AnnounceStatuses == {"none", "announced", "announce_retrying", "announce_failed"}
Parents == Runs \cup Requests

Registry ==
    [parent : [Runs -> Parents \cup {NoRun}], depth : [Runs -> 0 .. MaxDepth],
     status : [Runs -> Statuses], older : [Runs -> SUBSET Runs],
     ann : [Runs -> AnnounceStatuses]]

EmptyRegistry ==
    [parent |-> [r \in Runs |-> NoRun], depth |-> [r \in Runs |-> 0],
     status |-> [r \in Runs |-> "none"], older |-> [r \in Runs |-> {}],
     ann |-> [r \in Runs |-> "none"]]

Registered(R) == {r \in Runs : R.status[r] # "none"}
Ended(R) == {r \in Runs : R.status[r] \in TerminalStatuses}
Children(R, p) == {r \in Runs : R.parent[r] = p}

\* _collect_descendants: everything reachable through _children_by_parent.
Descendants(R, p) ==
    LET reach[n \in 0 .. Cardinality(Runs)] ==
            IF n = 0 THEN Children(R, p)
            ELSE LET nearer == reach[n - 1]
                 IN  nearer \cup UNION {Children(R, c) : c \in nearer}
    IN  Runs \cap reach[Cardinality(Runs)]

\* A status is stamped with the time (updated_at).  Only the order of terminal
\* stamps is ever read: older[r] are the terminal runs with an older stamp.
SetStatus(R, r, s) ==
    [R EXCEPT !.status[r] = s,
              !.older[r] = IF s \in TerminalStatuses THEN Ended(R) ELSE {}]

Enrol(R, r, p, d) == [R EXCEPT !.parent[r] = p, !.depth[r] = d]

Register(R, r, p, d) == [Enrol(R, r, p, d) EXCEPT !.status[r] = "accepted"]

Evict(R, E) ==
    [parent |-> [r \in Runs |-> IF r \in E THEN NoRun ELSE R.parent[r]],
     depth  |-> [r \in Runs |-> IF r \in E THEN 0 ELSE R.depth[r]],
     status |-> [r \in Runs |-> IF r \in E THEN "none" ELSE R.status[r]],
     older  |-> [r \in Runs |-> IF r \in E THEN {} ELSE R.older[r] \ E],
     ann    |-> [r \in Runs |-> IF r \in E THEN "none" ELSE R.ann[r]]]

-----------------------------------------------------------------------------
(* Retention.  "active" is the set of runs whose task is not done. *)

\* Seeded fault: the children are not looked at.
CanEvictIgnoringChildren(R, active, r) ==
    r \notin active /\ R.status[r] \in TerminalStatuses

CanEvict(R, active, r) ==
    /\ r \notin active
    /\ R.status[r] \in TerminalStatuses
    /\ \A c \in Children(R, r) :
          c \notin active /\ R.status[c] \in TerminalStatuses \cup {"none"}

Over(n, limit) == IF n > limit THEN n - limit ELSE 0

Overflow(R) ==
    LET total == Over(Cardinality(Registered(R)), MaxEntries)
        ended == Over(Cardinality(Ended(R)), MaxTerminal)
    IN  IF total > ended THEN total ELSE ended

\* _prune_retained_statuses: the oldest evictable terminal runs go, as many as
\* overflow; runs stamped alike are ordered by their (opaque) ids.
Evictions(R, active) ==
    LET candidates == {r \in Runs : CanEvict(R, active, r)} IN
    {E \in SUBSET candidates :
        /\ Cardinality(E) = IF Overflow(R) < Cardinality(candidates)
                             THEN Overflow(R) ELSE Cardinality(candidates)
        /\ \A e \in E, k \in candidates \ E : k \notin R.older[e]}

\* Every change of the registry ends in _prune_retained_statuses and
\* _persist_registry_safe, whose I/O errors are swallowed.
Commit(R, active) ==
    \E E \in Evictions(R, active) :
        /\ reg' = Evict(R, E)
        /\ \/ saved' = Evict(R, E)
           \/ PersistMayFail /\ saved' = saved

-----------------------------------------------------------------------------
(* Tasks *)

LivePoints == {"created", "starting", "queued", "working", "ending",
               "announcing", "backoff", "callback"}
Points == LivePoints \cup
    {"none",       \* id not handed out yet
     "accepting",  \* spawn() is suspended in send_event("accepted")
     "stranded",   \* spawn() was abandoned there: registered, never gets a task
     "done",       \* _run left through its finally after the last callback
     "cut",        \* _run left through its finally before that
     "dead",       \* the task ended without its finally; its entry stays
     "gone"}       \* the process crashed

LiveIn(at) == {r \in Runs : at[r] \in LivePoints}
Live == LiveIn(pc)

\* _run_tasks: the placeholder is never visible at a suspension.
HasEntry(r) == pc[r] \in LivePoints \cup {"dead"}

\* The spawn() calls a run's body has under way die with the body.
Abandon(at, p) ==
    [r \in Runs |-> IF at[r] = "accepting" /\ reg.parent[r] = p THEN "stranded" ELSE at[r]]

Goto(r, label) == pc' = [pc EXCEPT ![r] = label]

Running(r) == ~cancelReq[r]   \* the task resumes normally, no CancelledError

-----------------------------------------------------------------------------
(* spawn() *)

\* The depth of a child of p: one more than p's when p is a registered subrun.
DepthUnder(p) == IF p \in Runs /\ reg.status[p] # "none" THEN reg.depth[p] + 1 ELSE 1

\* The body of a subrun spawns while it works.  A top-level request spawns at
\* will, but not after a crash that ended it.
MaySpawn(p) ==
    \/ p \in Runs /\ pc[p] = "working" /\ Running(p)
    \/ p \in Requests /\ \A c \in Children(reg, p) : pc[c] # "gone"

\* Seeded fault: one child too many.
SpawnGuardsOffByOne(p) ==
    DepthUnder(p) <= MaxDepth /\ Cardinality(Children(reg, p)) <= MaxChildren

\* The guards of spawn(), evaluated in one section of self._lock.
SpawnGuards(p) ==
    /\ DepthUnder(p) <= MaxDepth
    /\ Cardinality(Children(reg, p)) < MaxChildren

\* uuid4: some id never handed out.
FreshId(r) == r = CHOOSE n \in Runs : pc[n] = "none"

\* Guards, registration, init_run and the "accepted" status, up to send_event.
Spawn(r, p) ==
    /\ pc[r] = "none" /\ FreshId(r)
    /\ MaySpawn(p) /\ SpawnGuards(p)
    /\ store' = [store EXCEPT ![r] = "active"]
    /\ Commit(Register(reg, r, p, DepthUnder(p)), Live)
    /\ Goto(r, "accepting")
    /\ UNCHANGED <<cancelReq, tries, kill, crashes>>

\* A write of the run document raised: the run keeps its place in the family
\* without a status, and its id is lost.
SpawnFails(r, p) ==
    /\ StoreMayFail
    /\ pc[r] = "none" /\ FreshId(r)
    /\ MaySpawn(p) /\ SpawnGuards(p)
    /\ store' \in {store, [store EXCEPT ![r] = "active"]}
    /\ reg' = Enrol(reg, r, p, DepthUnder(p))
    /\ Goto(r, "stranded")
    /\ UNCHANGED <<saved, cancelReq, tries, kill, crashes>>

\* send_event returned: the task is created and entered in _run_tasks.  A
\* cancelled body gets that far only when it is a task of its own.
SpawnReturns(r) ==
    /\ pc[r] = "accepting"
    /\ reg.parent[r] \in Runs => LateCancel \/ Running(reg.parent[r])
    /\ Goto(r, "created")
    /\ Commit(reg, LiveIn(pc'))
    /\ UNCHANGED <<store, cancelReq, tries, kill, crashes>>

\* send_event raised, or the caller was cancelled in it: spawn() propagates
\* and undoes nothing.
SpawnAborts(r) ==
    /\ pc[r] = "accepting"
    /\ Goto(r, "stranded")
    /\ UNCHANGED <<reg, saved, store, cancelReq, tries, kill, crashes>>

-----------------------------------------------------------------------------
(* _run() *)

\* The terminal half of _run, up to send_event: mark_completed / mark_failed,
\* then the terminal status.  A raising mark_completed turns into a failure; a
\* raising mark_failed escapes from its except clause and kills the task.
Conclude(r, s) ==
    /\ cancelReq' = [cancelReq EXCEPT ![r] = FALSE]
    /\ \/ \E t \in IF StoreMayFail /\ s = "completed" THEN {s, "failed"} ELSE {s} :
            /\ store' = [store EXCEPT ![r] = IF t = "completed" THEN "completed" ELSE "failed"]
            /\ pc' = [Abandon(pc, r) EXCEPT ![r] = "ending"]
            /\ Commit(SetStatus(reg, r, t), LiveIn(pc'))
       \/ /\ StoreMayFail
          /\ pc' = [Abandon(pc, r) EXCEPT ![r] = "dead"]
          /\ UNCHANGED <<reg, saved, store>>
    /\ UNCHANGED <<tries, kill, crashes>>

\* First step of the task: status "running", task status, up to send_event.
Begin(r) ==
    /\ pc[r] = "created" /\ Running(r)
    /\ Goto(r, "starting")
    /\ Commit(SetStatus(reg, r, "running"), LiveIn(pc'))
    /\ UNCHANGED <<store, cancelReq, tries, kill, crashes>>

\* set_task_status raised in that step.
BeginFails(r) ==
    /\ StoreMayFail
    /\ pc[r] = "created" /\ Running(r)
    /\ \/ Conclude(r, "failed") /\ pc'[r] = "ending"
       \/ /\ Goto(r, "dead")
          /\ Commit(SetStatus(reg, r, "running"), LiveIn(pc'))
          /\ UNCHANGED <<store, cancelReq, tries, kill, crashes>>

StartedSent(r) ==
    /\ pc[r] = "starting" /\ Running(r)
    /\ \/ Goto(r, "queued") /\ UNCHANGED <<reg, saved, store, cancelReq, tries, kill, crashes>>
       \/ Conclude(r, "failed")    \* send_event raised

\* The semaphore is held exactly while the body runs.
Acquire(r) ==
    /\ pc[r] = "queued" /\ Running(r)
    /\ Cardinality({o \in Runs : pc[o] = "working"}) < MaxConcurrent
    /\ Goto(r, "working")
    /\ UNCHANGED <<reg, saved, store, cancelReq, tries, kill, crashes>>

\* run_user_message returned, raised or timed out.  It cannot return while it
\* awaits a spawn().  A cancel that arrives together with the result is
\* swallowed by wait_for of Python 3.11.
BodyEnds(r) ==
    /\ pc[r] = "working" /\ (LateCancel \/ Running(r))
    /\ \E s \in BodyOutcomes :
          /\ s = "completed" => \A c \in Children(reg, r) : pc[c] # "accepting"
          /\ Conclude(r, s)

\* Seeded fault: the finally pops the task but does not prune.
LeaveUnpruned(r, label) ==
    /\ Goto(r, label)
    /\ cancelReq' = [cancelReq EXCEPT ![r] = FALSE]
    /\ tries' = [tries EXCEPT ![r] = 0]
    /\ UNCHANGED <<reg, saved, store, kill, crashes>>

\* The finally of _run: the entry is popped, retention and persistence follow.
Leave(r, label) ==
    /\ Goto(r, label)
    /\ Commit(reg, LiveIn(pc'))
    /\ cancelReq' = [cancelReq EXCEPT ![r] = FALSE]
    /\ tries' = [tries EXCEPT ![r] = 0]
    /\ UNCHANGED <<store, kill, crashes>>

EndedSent(r) ==
    /\ pc[r] = "ending" /\ Running(r)
    /\ \/ /\ Goto(r, "announcing")
          /\ tries' = [tries EXCEPT ![r] = 1]
          /\ UNCHANGED <<reg, saved, store, cancelReq, kill, crashes>>
       \/ Leave(r, "cut")          \* send_event raised: no announcement at all

\* One attempt of _emit_announce_with_retry, with its delivery record.
AnnounceSent(r) ==
    /\ pc[r] = "announcing" /\ Running(r)
    /\ Goto(r, "callback")
    /\ tries' = [tries EXCEPT ![r] = 0]
    /\ Commit([reg EXCEPT !.ann[r] = "announced"], LiveIn(pc'))
    /\ UNCHANGED <<store, cancelReq, kill, crashes>>

\* Seeded faults: one attempt too many; the last failed attempt is recorded
\* like the others.
AnnounceRaisedOnceMore(r) ==
    /\ pc[r] = "announcing" /\ Running(r)
    /\ IF tries[r] <= MaxAttempts
       THEN /\ Goto(r, "backoff")
            /\ Commit([reg EXCEPT !.ann[r] = "announce_retrying"], LiveIn(pc'))
            /\ UNCHANGED tries
       ELSE /\ Goto(r, "callback")
            /\ Commit([reg EXCEPT !.ann[r] = "announce_failed"], LiveIn(pc'))
            /\ tries' = [tries EXCEPT ![r] = 0]
    /\ UNCHANGED <<store, cancelReq, kill, crashes>>

AnnounceRaisedNeverFailed(r) ==
    /\ pc[r] = "announcing" /\ Running(r)
    /\ Goto(r, IF tries[r] < MaxAttempts THEN "backoff" ELSE "callback")
    /\ Commit([reg EXCEPT !.ann[r] = "announce_retrying"], LiveIn(pc'))
    /\ tries' = [tries EXCEPT ![r] = IF @ < MaxAttempts THEN @ ELSE 0]
    /\ UNCHANGED <<store, cancelReq, kill, crashes>>

AnnounceRaised(r) ==
    /\ pc[r] = "announcing" /\ Running(r)
    /\ IF tries[r] < MaxAttempts
       THEN /\ Goto(r, "backoff")
            /\ Commit([reg EXCEPT !.ann[r] = "announce_retrying"], LiveIn(pc'))
            /\ UNCHANGED tries
       ELSE /\ Goto(r, "callback")
            /\ Commit([reg EXCEPT !.ann[r] = "announce_failed"], LiveIn(pc'))
            /\ tries' = [tries EXCEPT ![r] = 0]
    /\ UNCHANGED <<store, cancelReq, kill, crashes>>

BackoffOver(r) ==
    /\ pc[r] = "backoff" /\ Running(r)
    /\ Goto(r, "announcing")
    /\ tries' = [tries EXCEPT ![r] = @ + 1]
    /\ UNCHANGED <<reg, saved, store, cancelReq, kill, crashes>>

\* The completion callback and the coordination bridge, whose errors are
\* suppressed, then the finally.
CallbackOver(r) ==
    /\ pc[r] = "callback" /\ Running(r)
    /\ Leave(r, "done")

\* CancelledError is thrown into the suspended task.
CancelDelivered(r) ==
    /\ cancelReq[r]
    /\ \/ /\ pc[r] = "created"      \* the coroutine never ran: no except, no finally
          /\ Goto(r, "dead")
          /\ cancelReq' = [cancelReq EXCEPT ![r] = FALSE]
          /\ UNCHANGED <<reg, saved, store, tries, kill, crashes>>
       \/ pc[r] \in {"starting", "queued", "working"} /\ Conclude(r, "cancelled")
       \/ pc[r] \in {"ending", "announcing", "backoff", "callback"} /\ Leave(r, "cut")

-----------------------------------------------------------------------------
(* kill() and kill_all() *)

\* A call: the run whose whole family it was asked to kill (no run otherwise),
\* the runs still to cancel, the one it awaits, and those it found with an entry.
Idle == [family |-> NoRun, todo |-> <<>>, on |-> NoRun, had |-> {}]

\* The orders in which a stack-based walk may list S: parents before children.
TopDown(S) ==
    {q \in [1 .. Cardinality(S) -> S] :
        \A i, j \in 1 .. Cardinality(S) :
            i < j => q[i] # q[j] /\ reg.parent[q[i]] # q[j]}

\* _cancel_task down the list: runs without a live task are passed over
\* without a switch, the first live one is cancelled and awaited.
Advance(k, call) ==
    \/ /\ \A i \in 1 .. Len(call.todo) : call.todo[i] \notin Live
       /\ kill' = [kill EXCEPT ![k] = Idle]
       /\ UNCHANGED cancelReq
    \/ \E i \in 1 .. Len(call.todo) :
          /\ call.todo[i] \in Live
          /\ \A j \in 1 .. (i - 1) : call.todo[j] \notin Live
          /\ kill' = [kill EXCEPT ![k] =
                 [call EXCEPT !.on = call.todo[i],
                              !.todo = SubSeq(call.todo, i + 1, Len(call.todo))]]
          /\ cancelReq' = [cancelReq EXCEPT ![call.todo[i]] = TRUE]

\* kill(run_id): without an entry in _run_tasks it returns False at once.  The
\* descendants are collected once, here, and cancelled before the run itself.
KillAsk(k, t, cascade) ==
    LET below == IF cascade THEN Descendants(reg, t) \ {t} ELSE {} IN
    /\ kill[k] = Idle
    /\ HasEntry(t)
    /\ \E q \in TopDown(below) :
          Advance(k, [family |-> IF cascade THEN t ELSE NoRun, todo |-> Append(q, t), on |-> NoRun,
                      had |-> {n \in below \cup {t} : HasEntry(n)}])
    /\ UNCHANGED <<reg, saved, store, pc, tries, crashes>>

\* kill_all(parent_request_id): the runs under p that have an entry, now.
KillAllAsk(k, p, cascade) ==
    LET below == IF cascade THEN Descendants(reg, p) ELSE Children(reg, p)
        found == {n \in below : HasEntry(n)}
    IN
    /\ kill[k] = Idle
    /\ \E q \in TopDown(found) :
          Advance(k, [family |-> NoRun, todo |-> q, on |-> NoRun, had |-> found])
    /\ UNCHANGED <<reg, saved, store, pc, tries, crashes>>

\* kill_all() without a filter.
KillEverythingAsk(k) ==
    LET found == {n \in Runs : HasEntry(n)} IN
    /\ kill[k] = Idle
    /\ \E q \in TopDown(found) :
          Advance(k, [family |-> NoRun, todo |-> q, on |-> NoRun, had |-> found])
    /\ UNCHANGED <<reg, saved, store, pc, tries, crashes>>

\* Seeded faults: the cancelled task is not awaited; its status is polled instead.
KillNextWithoutAwait(k) ==
    /\ kill[k].on # NoRun
    /\ Advance(k, kill[k])
    /\ UNCHANGED <<reg, saved, store, pc, tries, crashes>>

\* The awaited task is done: go on with the next one, or return.
KillNext(k) ==
    /\ kill[k].on # NoRun /\ kill[k].on \notin Live
    /\ Advance(k, kill[k])
    /\ UNCHANGED <<reg, saved, store, pc, tries, crashes>>

-----------------------------------------------------------------------------
(* Waiting, and crash recovery *)

\* wait_for_completion() returns: retention and persistence once more.
WaitReturns ==
    /\ Commit(reg, Live)
    /\ UNCHANGED <<store, pc, cancelReq, tries, kill, crashes>>

\* _reconcile_orphaned_runs_after_restore: unfinished runs fail, except those
\* younger than the grace period.
Reconciled(R, orphans) ==
    [R EXCEPT !.status = [r \in Runs |-> IF r \in orphans THEN "failed" ELSE @[r]],
              !.older = [r \in Runs |-> IF r \in orphans THEN Ended(R) ELSE @[r]]]

\* Seeded fault: every restored run is an orphan.
OrphansAll(R) == Registered(R)

Orphans(R) == {r \in Runs : R.status[r] \in {"accepted", "running"}}

\* The run documents after mark_failed of the orphans; seeded fault: without it.
MarkNothing(st, marked) == st

MarkFailed(st, marked) == [r \in Runs |-> IF r \in marked THEN "failed" ELSE st[r]]

\* The process dies with store contents st and run positions at, and a new one
\* restores the registry from its file.
DieAndRestore(st, at) ==
    /\ crashes < MaxCrashes
    /\ crashes' = crashes + 1
    /\ \E orphans \in SUBSET Orphans(saved) :
          /\ OrphanGrace \/ orphans = Orphans(saved)
          /\ \E marked \in IF StoreMayFail THEN SUBSET orphans ELSE {orphans} :
                store' = MarkFailed(st, marked)
          /\ \E E \in Evictions(Reconciled(saved, orphans), {}) :
                /\ reg' = Evict(Reconciled(saved, orphans), E)
                /\ \/ saved' = Evict(Reconciled(saved, orphans), E)
                   \/ PersistMayFail /\ saved' \in {saved, Reconciled(saved, orphans)}
    /\ pc' = [r \in Runs |-> IF at[r] = "none" THEN "none" ELSE "gone"]
    /\ cancelReq' = [r \in Runs |-> FALSE]
    /\ tries' = [r \in Runs |-> 0]
    /\ kill' = [k \in Killers |-> Idle]

Crash == DieAndRestore(store, pc)

\* ... between init_run and the first registry write of spawn().
CrashInSpawn(r, p) ==
    /\ pc[r] = "none" /\ FreshId(r)
    /\ MaySpawn(p) /\ SpawnGuards(p)
    /\ DieAndRestore([store EXCEPT ![r] = "active"], [pc EXCEPT ![r] = "accepting"])

\* ... between mark_completed / mark_failed and the terminal status.
CrashInFinish(r) ==
    \/ /\ pc[r] = "working" /\ (\A c \in Children(reg, r) : pc[c] # "accepting")
       /\ LateCancel \/ Running(r)
       /\ DieAndRestore([store EXCEPT ![r] = "completed"], pc)
    \/ /\ \/ pc[r] \in {"starting", "working"}
          \/ pc[r] = "queued" /\ cancelReq[r]
       /\ DieAndRestore([store EXCEPT ![r] = "failed"], pc)

-----------------------------------------------------------------------------
Init ==
    /\ reg = EmptyRegistry /\ saved = EmptyRegistry
    /\ store = [r \in Runs |-> "none"]
    /\ pc = [r \in Runs |-> "none"]
    /\ cancelReq = [r \in Runs |-> FALSE]
    /\ tries = [r \in Runs |-> 0]
    /\ kill = [k \in Killers |-> Idle]
    /\ crashes = 0

TaskStep(r) ==
    \/ Begin(r) \/ BeginFails(r) \/ StartedSent(r) \/ Acquire(r) \/ BodyEnds(r)
    \/ EndedSent(r) \/ AnnounceSent(r) \/ AnnounceRaised(r) \/ BackoffOver(r)
    \/ CallbackOver(r) \/ CancelDelivered(r)

SpawnStep(r) == SpawnReturns(r) \/ SpawnAborts(r)

KillStep(k) ==
    \/ \E t \in Runs, cascade \in BOOLEAN : KillAsk(k, t, cascade)
    \/ \E p \in Parents, cascade \in BOOLEAN : KillAllAsk(k, p, cascade)
    \/ KillEverythingAsk(k)
    \/ KillNext(k)

CrashStep ==
    \/ Crash
    \/ \E r \in Runs, p \in Parents : CrashInSpawn(r, p)
    \/ \E r \in Runs : CrashInFinish(r)

Next ==
    \/ \E r \in Runs, p \in Parents : Spawn(r, p) \/ SpawnFails(r, p)
    \/ \E r \in Runs : SpawnStep(r) \/ TaskStep(r)
    \/ \E k \in Killers : KillStep(k)
    \/ WaitReturns
    \/ CrashStep

Spec == Init /\ [][Next]_vars

\* The event loop runs every ready task, sends and sleeps end, and the body of
\* a run ends by itself or by its timeout_seconds.
Fairness ==
    /\ \A r \in Runs : WF_vars(TaskStep(r)) /\ WF_vars(SpawnStep(r))
    /\ \A k \in Killers : WF_vars(KillNext(k))

FairSpec == Spec /\ Fairness

-----------------------------------------------------------------------------
(* Properties *)

KillCalls == [family : Runs \cup {NoRun}, todo : Seq(Runs),
              on : Runs \cup {NoRun}, had : SUBSET Runs]

\* Type invariant of the variables, which stand for the lane's dictionaries,
\* its registry file, the state store and the asyncio tasks.
TypeOK ==
    /\ reg \in Registry /\ saved \in Registry
    /\ store \in [Runs -> {"none", "active", "completed", "failed"}]
    /\ pc \in [Runs -> Points]
    /\ cancelReq \in [Runs -> BOOLEAN]
    /\ tries \in [Runs -> 0 .. MaxAttempts]
    /\ kill \in [Killers -> KillCalls]
    /\ crashes \in 0 .. MaxCrashes

FamilyOf(R) ==
    /\ \A p \in Parents : Cardinality(Children(R, p)) <= MaxChildren
    /\ \A r \in Runs : R.parent[r] \in Registered(R) => R.depth[r] = R.depth[R.parent[r]] + 1

\* max_children_per_parent and the depth of a child hold for the registry in
\* memory and for every registry file a restart could restore, whatever
\* spawn() calls overlap in their await of send_event.
FamilyLimits == FamilyOf(reg) /\ FamilyOf(saved)

\* Between two steps of the event loop the run document agrees with the status
\* snapshot: an unfinished run's document is active, a finished run's document
\* carries the same verdict, also after a crash between the two file writes.
RegistryMatchesStore ==
    \A r \in Registered(reg) :
        store[r] = CASE reg.status[r] \in {"accepted", "running"} -> "active"
                     [] reg.status[r] = "completed" -> "completed"
                     [] OTHER -> "failed"

RememberedIn(R) ==
    \A r \in Registered(R) :
        (R.status[r] \notin TerminalStatuses /\ R.parent[r] \in Runs)
            => R.parent[r] \in Registered(R)

\* Retention never forgets the parent of an unfinished run: the run keeps the
\* depth it was given, and a cascading kill of the parent still finds it.
ParentRemembered == RememberedIn(reg)

\* Retention leaves nothing behind: when the table is over its limits, every
\* terminal run in it is pinned by its own task or by an unfinished child.
RetentionSettled == Overflow(reg) > 0 => \A r \in Runs : ~CanEvict(reg, Live, r)

\* When kill() or kill_all() returns, every run that had a task when the call
\* was made has no live task any more.
KillFinishesWhatItSaw ==
    [][\A k \in Killers : (kill[k] # Idle /\ kill'[k] = Idle)
          => \A n \in kill[k].had : pc'[n] \notin LivePoints]_vars

\* The status snapshot and the run document together implement the contract
\* of SubrunLifecycle: terminal statuses are final, and verdicts follow them.
Lifecycle == INSTANCE SubrunLifecycle WITH phase <- reg.status, verdict <- store
ImplementsLifecycle == Lifecycle!ASpec

\* A run whose task started reaches a terminal status (or is forgotten by a
\* restart), whatever is killed, raised or retried meanwhile.
StartedRunsEnd ==
    \A r \in Runs : reg.status[r] = "running" ~> reg.status[r] \notin {"accepted", "running"}

\* The announcement of a finished run is delivered or given up, unless its
\* task is cancelled or lost while it retries.
AnnouncementsSettle ==
    \A r \in Runs : pc[r] \in {"announcing", "backoff"}
        ~> (reg.ann[r] \in {"announced", "announce_failed"} \/ pc[r] \in {"cut", "gone"})

\* Every kill() and kill_all() returns.
KillsReturn == \A k \in Killers : kill[k] # Idle ~> kill[k] = Idle

\* What was begun in the lane ends: runs, announcements and kills.
LaneSettles == StartedRunsEnd /\ AnnouncementsSettle /\ KillsReturn

\* When a kill returns, the runs it saw show a terminal status: what the kill
\* tests assert of the status after kill() returned True.
KilledRunsEnd ==
    [][\A k \in Killers : (kill[k] # Idle /\ kill'[k] = Idle)
          => \A n \in kill[k].had : reg'.status[n] \in TerminalStatuses \cup {"none"}]_vars
=============================================================================

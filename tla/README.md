# Verification of the agent backend

TLA+ models of the agent backend in `src/backend/app`, the TLC runs that check
them on small instances, and TLAPS proofs that hold for every instance.
`PROJECT.json` lists the components, the runs, the mutants, the source lines
behind every definition, the findings, the hazards and the theorems; this file
explains them.

The backend is one asyncio process: tasks switch only at an await that really
suspends. All models use that: one action is the code between two suspensions,
and a variable (`pc`, `callPc`, `job[j].at`, ...) names the await in which a
task, call or request is suspended. A section under an `asyncio.Lock` or
`threading.Lock` that contains no suspension is part of an action; a lock that
is held across an await is a variable. Tools run in threads, and the modules
about them let the threads' steps interleave.

## 1. The system

A client talks to the backend over a WebSocket (`ws_handler.py`) or HTTP
(`handlers/run_handlers.py`, routers). A message becomes a *run*:

    ws_handler / run_handlers                     WsSession, RunControl
      -> OrchestratorApi.run_user_message         AgentCatalog (which agent), RuntimeSwitch
         -> SessionLaneManager.run_in_lane        SessionLane
            -> PipelineRunner                     Recovery (route, strategies)
               -> FallbackStateMachine            ModelFallback; shares the
                    |                             CircuitBreakerRegistry (CircuitBreaker)
                    -> agent.run, AgentRunner     AgentLoop
                         |-> LlmClient            ModelCalls
                         |-> tools                ToolInvoke, ToolContracts, ToolHost,
                         |                        BrowserPool, ReplPool
                         |-> policy approvals     PolicyApproval
                         |-> memory, learning     SessionStore, Knowledge, ToolOutcomes
                         -> spawn_subrun (main.py)
                            -> SubrunLane.spawn   SubrunLane: a task per subrun, which
                                                  goes through run_user_message again

Beside this path stand workflows (`Workflow`), the bus and the executor of
several agents (`AgentBus`, `FanOut`, `Coordination`), settings (`Settings`)
and the older tool execution manager (`ToolLoop`), which the live loop does not
use but `agent.py` and its tests still reach.

| Component (source) | State | Hard behaviour | What makes it correct |
|---|---|---|---|
| **Subrun lane** (`orchestrator/subrun_lane.py`) | specs, statuses, family tree, announcements, task table, registry file | spawns overlapping in `send_event`; kills while runs are spawned; cancellation at any await; crash between two writes | family limits, one final verdict that agrees with the document, kills leave nothing they saw, retention forgets only what is settled |
| **Session lanes** (`orchestrator/session_lane_manager.py`) | lock per session, use counts and times, global semaphore | a lock evicted and created anew, cancelled waiters, wake-up order | mutual exclusion, first come first served, bounded cache, no starvation |
| **Circuit breaker**, **model fallback** (`services/circuit_breaker.py`, `orchestrator/fallback_state_machine.py`) | circuit per model; per request route, model, attempts | answers after the circuit changed; errors and cancellation between taking and returning a probe | probes come back, an open circuit closes only by probing, requests end |
| **Pipeline runner, recovery** (`pipeline_runner.py`, `recovery_strategy.py`) | metrics with their file, feedback, budgets | metrics that age and are reloaded; a request between two others' outcomes | order of strategies complete, budgets kept, credit given once |
| **Policy approvals** (`services/policy_approval_service.py`, `main.py`) | records, events, standing permissions, rules file, policy holds | decision against timeout, cascades, eviction under a waiter, restart | nothing is let through unless the user said so; decisions final; no parent held for ever |
| **WebSocket session, inbox** (`ws_handler.py`, `session_inbox_service.py`) | queue, receive loop, worker, clarification, documents | worker ending while a message arrives, disconnect anywhere | no message lost or run twice, follow-ups not starved, closed documents stay closed |
| **Run handlers** (`handlers/run_handlers.py`, `run_state_machine.py`, `idempotency_*.py`) | background tasks, run state, idempotency registry | hard failure while the agent goes on, shutdown, unwritable documents | one verdict; a replay answers the same request |
| **Workflows** (`workflow_handlers.py`, `workflow_engine.py`, `workflow_run_store.py`) | step results, run file, spawned subruns | the whole execution lies between lookup and registration; crash; step timeouts | steps form a path of the graph, the file is never ahead |
| **Agent loop** (`agent_runner.py`, `compaction_service.py`) | conversation, budgets, plan, answer | compaction between a call and its results; blocked and cancelled tools; reflection | calls answered, budget final, plan in order, one answer |
| **Tools** (`agent.py`, `tool_registry.py`, `tool_arg_validator.py`, `mcp_bridge.py`, `tools.py`, `browser_pool.py`, `persistent_repl.py`, ...) | policies, attempts, connections, jobs, contexts, REPLs | threads a timeout cannot stop, concurrent reconnects, contexts evicted in use, output left in a pipe | denials hold, attempts bounded, answers match, pools bounded |
| **Stores** (`memory.py`, `state_store.py`, `agent_store.py`, `config_service.py`, `long_term_memory.py`) | memory and file, records and adapters, overrides and file, index | crash in a rewrite, failing writes, restart, stale copies | what is told is what is used and survives a restart |
| **Model client, health, limits, runtime switch** (`llm_client.py`, `model_health_tracker.py`, `rate_limiter.py`, `runtime_manager.py`) | attempts, samples, buckets, current runtime | retry of a stream, aged samples, a switch between two awaits of a request | a stream is assembled once, rates kept, one switch at a time, rollback |
| **Multi-agency** (`multi_agency/*`) | mailboxes, pending replies, graph of steps, votes | handlers running inside a send, replies after a timeout, quorum and race | one reply per request, graph order, decisions monotone |

## 2. Modules

| Module | Models | Uses |
|---|---|---|
| `SubrunLifecycle` | contract of a subrun: its status and the verdict of its document | - |
| `SubrunLane` | `SubrunLane`, its callers in `main.py`, the documents of `StateStore` | implements `SubrunLifecycle` |
| `SessionTurns` | contract of `run_in_lane`: a line of callers per session, at most `MaxGlobal` running | - |
| `SessionLane` | `SessionLaneManager` | implements `SessionTurns` |
| `CircuitBreaker` | `CircuitBreakerRegistry` | - |
| `ModelFallback` | `FallbackStateMachine`, for concurrent requests | composes with `CircuitBreaker` |
| `Recovery` | routing, ordering and application of recovery strategies, their metrics | `Lists` |
| `PolicyApproval` | approval service, agent-side handler, policy holds of the subrun lane | - |
| `WsSession` | receive loop with its refusals, inbox, worker, commands, clarifications, direct runs, teardown | - |
| `Idempotency` | one namespace of the idempotency registry | - |
| `RunControl` | runs over REST: start, replay, background task, hard failure, poll, restart | `Idempotency` |
| `Workflow` | executions: engine, run store, parallel branch | `Idempotency` |
| `AgentLoop` | one run of `AgentRunner` with compaction, plan tracker, gates, reflection | - |
| `AgentBus`, `FanOut`, `Coordination` | bus; parallel executor; supervisor, blackboard, router, consensus | `Lists` |
| `ToolLoop` | tool execution manager and gatekeeper | `Lists` |
| `Lists` | comprehensions with a condition, slices, first matches, sorting and sums, in a form proofs can follow | - |
| `ToolInvoke` | tool policy, retries around threads, registration and streams of MCP servers | - |
| `ToolCalls` | the tools of an agent: the loop and what carries out its calls | `ToolLoop`, `ToolInvoke` |
| `ToolSpecs`, `ToolContracts` | published schema of every tool; what both paths make of every call | `ToolContracts` extends `ToolSpecs` |
| `ToolHost`, `BrowserPool`, `ReplPool` | commands, jobs, fetches, sandbox; browser contexts; Python REPLs | - |
| `SessionStore` | session memory with its file; run documents as session operations see them | `Idempotency`, `Lists` |
| `AgentCatalog` | agent records, adapters, synchronisation, choice by capability | - |
| `Settings` | overrides with their file, resets, tool configurations, command patterns | - |
| `RuntimeSwitch` | switches between the local and the API endpoint | - |
| `ModelCalls` | client attempts, streamed tool calls, health, route, token buckets | `Lists` |
| `Knowledge`, `ToolOutcomes` | long-term memory, reflection records; learning loop | `Lists` |
| `Serving` | what serves the runs, side by side | `Settings`, `ToolHost`, `ModelCalls`, `Knowledge`, `ToolOutcomes` |
| `MCModelFallback` | constants TLC cannot take from a `.cfg`; the two lanes are checked from their `.cfg` files alone | |
| `MCServices`, `MCSupport`, `MCPlatform` | the modules without a run of their own, side by side | |
| `SubrunLane_proofs` | theorems about the subrun lane and its contract (section 5) | |
| `SessionLane_proofs` | ... the session lane and its contract, `WsSession` and `SessionStore` | |
| `ModelFallback_proofs` | ... breaker, fallback, `RuntimeSwitch` and `Recovery` | |
| `Serving_proofs` | ... approvals, `AgentCatalog`, and the five components of `Serving` | |
| `Orchestration_proofs` | ... REST runs, `Workflow`, `AgentBus`, `FanOut` and `Coordination` | |
| `ToolUse_proofs` | ... `AgentLoop`, `ReplPool` and `BrowserPool` | |
| `ToolCalls_proofs` | ... `ToolLoop` and `ToolInvoke` | |
| `Lists_proofs` | lemmas on sublists, ranks, sums, least and largest numbers the others cite | |

*The composites.* `MCServices`, `MCSupport` and `MCPlatform` check components
that share no state. The variable `part` names the component a behaviour is
about; it never changes, the other components keep their initial state, and
`Next` is the component's own next-state relation. A behaviour of a composite
is thus a behaviour of one component, the product of their states is never
built, and one run checks them all. Fairness conditions are guarded by `part`.

*Mutants.* `PROJECT.json` lists for every checked property an operator that
changes a modelled definition the way a plausible bug would (a dropped guard,
an off-by-one, a missing reset). These operators stand before the definition
they change and are used nowhere in a specification; put in its place they make
the property fail.

The header comment of each module says what it models and what it leaves out.
The sections below add what a reader needs to compare state and code.

### SubrunLane

*State.* `reg` is the registry in memory (`_run_specs`, `_run_status`,
`_announce_status`, the family maps, which are functions of the specs), `saved`
its copy in `subrun_registry.json`, `store` the status of each run's document.
`pc[r]` stands for the entry of `r` in `_run_tasks` and the await its code is in:

| `pc[r]` | meaning |
|---|---|
| `none` | the id is not handed out |
| `accepting` | `spawn()` is suspended in `send_event("accepted")`: registered, no task yet |
| `stranded` | `spawn()` was left there by an error or a cancellation |
| `created` | the task exists and has not run |
| `starting`, `queued`, `working` | sending "running"; waiting for the semaphore; in `run_user_message` |
| `ending`, `announcing`, `backoff`, `callback` | after the terminal status |
| `done`, `cut`, `dead` | the task ended: through the end of `_run`, through its `finally` early, or without it |
| `gone` | the process died |

`cancelReq[r]` is a `task.cancel()` not yet delivered. Only the order of the
time stamps of terminal statuses is read by the code (retention evicts the
oldest), so `reg.older[r]` keeps the terminal runs stamped before `r`.

*Actions.* `Spawn` is `spawn()` up to its one suspension, `SpawnReturns` and
`SpawnAborts` what follows, `SpawnFails` a raising document write. `Begin` to
`CallbackOver` are the steps of `_run`; `Conclude` writes document and status
as `_run` does; `Leave` is its `finally`. `CancelDelivered` throws
`CancelledError` into whatever await the task is in. `KillAsk`, `KillAllAsk`,
`KillEverythingAsk` and `KillNext` are the kills: the list of runs is made
once, and each is cancelled and awaited in turn. `WaitReturns` is the retention
in `wait_for_completion`. Every registry change ends in `Commit`: retention
(`Evictions`), then the write of the file, which may be lost. `Crash`,
`CrashInSpawn` and `CrashInFinish` kill the process between two steps and
between two file writes inside one, and restore and reconcile the registry.

*Abstracted.* Messages, tools, outcome texts and handover contracts; times
except the order above; `_restored_orphan` details other than the choice which
orphans are young. `LateCancel` says whether `wait_for` runs the body in a task
of its own (Python 3.11, where a cancellation that meets the result is lost) or
inline (3.12 and later); the code allows both (`requires-python >= 3.11`).

### SessionLane

`table`, `active` and `before` are `_session_locks`, `_session_active_counts`
and the order of `_session_last_used`. Lock objects are values with a holder
and a queue, as `asyncio.Lock` keeps them: a released lock is free until its
first waiter runs, and newcomers queue behind. `Enter` is `acquire()` up to the
first thing that is not available, `LockGranted` and `PermitGranted` go on from
there, `Leave` is the `finally` of `run_in_lane`, `CancelLocking` and
`CancelPermit` a cancelled caller. Eviction by age may take any least recently
used idle sessions, since time is not modelled.

### CircuitBreaker and ModelFallback

A circuit keeps its state, failures in the window (up to the threshold),
successes while half-open, the probe flag, and whether its recovery timeout has
passed (`RecoveryElapses`). The methods never suspend and are operators used
inside the actions of the requests. `pc[r]` is the await of `run()` request `r`
is in; slots are reused by later requests. `probing[r]` is a history variable:
`r` was let through as the probe of its current model. Failures fall out of the
window at any time (`Counts`). `SendErrors` says how `send_event` may raise:
`ClientDisconnectedError` is re-raised by its own clause, any other error lands
in the catch-all. `MayCancel` lets the request's task be cancelled, which no
clause catches. Recovery may answer anything here; `Recovery` models what it
answers.

### PolicyApproval

Each method of the service is one section of its asyncio lock and one action.
A call is one use of the handler in `main.py`: preapproval, create or join,
prompt, wait, decision. The wait has two ends that may cross: `asleep` is a
waiter whose timer has not fired, `late` one whose timer fired before it took
the lock, `woken` one whose event is set. `said` is what the user said, a
history variable the properties compare permissions with. `holds` and
`parentPc` are the policy holds of the subrun lane and the parent that waits.

### WsSession, RunControl, Workflow

`WsSession` has two tasks, the receive loop (`recvPc`) and the worker
(`workerPc`); each send is an await in which the client may vanish. `inbox` is
the session's queue with its limit, expiry and deferral of follow-ups. A message
of a foreign session, or one too large or too frequent, is turned away before a
run is opened for it (`Foreign`); a type that is not served and a directive that
is not allowed open a run and close it (`RefuseType`, `RefuseDirective`); a
direct request and a job that raise close theirs before a word of it is sent
(`DirectFails`, `HandleRequestFailure`); a "/run" command leaves its open
(`TryRunCommand`). With `SendsHardFail` a send of the job may close the run's
document as failed because its stage does not follow (`HardFailInSend`; `broken`
keeps such runs); the job does not notice. `RunControl` and `Workflow` share the
registry of `Idempotency`, a bounded sequence pruned by every operation. In
`RunControl` starting a run contains no await and is one action; `Derive` is the
hard failure of a lifecycle event, whose two writes (the document, then the note
of it, `hardFailed`) may each fail: `unflagged` keeps the runs closed without
the note. In `Workflow` the whole execution lies between lookup and
registration. Workflows crash at any point and fail to save at any save.

### AgentLoop and tools

`AgentLoop` is one run of `AgentRunner`: the model may ask for any batch of tool
calls, and tools may succeed, fail, be blocked or be cancelled. A text is known
by what the gates look for in it, and each of the three evidence gates replaces
it as the code does (`ApplyGates`). In `ToolLoop` the read-only calls of a list
pass the gate one by one (`GateRead`), start together (`StartReads`), return in
any order (`ReadReturns`) and are then accounted for one by one in the order of
the list (`Gather`); the other calls follow, each with its retry. `ToolInvoke`
has four groups with variables of their own: policy, one call with its retries,
registration, the MCP streams. The policy group merges the layers in the order
the code applies them (preset, adapter, depth, request, and the override last)
and then asks which tools are offered and which a call may still reach.
`ToolContracts` writes every call field by field, with up to `MaxOdd` fields of
any value, and follows it through the validator of the manager's path and
through the runner's path, which checks nothing; `denied`, `grants` and `off`
are the policy, the permissions and the feature switches of the run. `ToolHost`,
`BrowserPool` and `ReplPool` let threads and tasks of several sessions use one
`AgentTooling`, one pool and one manager. In `ToolHost` a background job runs
from `StartJob` on and is listed by `EnterJob`. In `BrowserPool` the contexts
stand in the order of their last use, so that those idle for too long are a
prefix, whose length is chosen. The eviction loop, the end of a session and the
shutdown take entries out of the table under the lock (`EvictIdle`,
`CloseSession`, `ShutClears`) into `closing[closer]`, and close them one by one
without it (`CloseEntry`); only the eviction inside `get_context` keeps the lock
meanwhile. `leaked` keeps contexts whose making or closing broke off. In
`ReplPool` `Closes` and `CloseDone` are the eviction of a REPL another call may
be waiting for.

### Stores, settings, model clients

Each store keeps its memory and its file apart, with a failing write or a crash
between the two where the code has one; a history variable keeps what a failed
write left behind (`unsaved` and `torn` of the sessions, `unwritten` and
`toolUnsaved` of the settings, `unkept` of the runtime). `SessionStore` treats
two spellings of a session id that `_session_file` maps to the same name.
`Settings` stores the value as the client wrote it and answers what the
section's model makes of it (`Coerced`), as `update_value` does. `AgentCatalog`
tells the spellings of an id from the name the registry makes of them (`Key`),
and lets a patch give `read_only` as a boolean or as a string, whose truth the
floor tests before it is converted (`Floored`; `loosened` keeps the agents this
happened to). `ToolOutcomes` returns the best `FindLimit` tools of a capability,
by a trust that decays with the days (`Remains`). `Recovery` follows the task
records of a request (`tasks`), also when a call ends the request (`AbortCall`)
or a send fails after the answer (`Answer`). `RuntimeSwitch` keeps a switch's
steps (gateway, model check, commit, rollback), each with a state file that may
not be written, and the awaits of the requests that read the runtime meanwhile.
`ModelCalls` measures time in whole units and caps counters at `MaxNow`,
`MaxTries` and `MaxChunks`.

## 3. Runs

| Run | Instance | Checks |
|---|---|---|
| `subrun_family` | 3 runs, 1 request, 1 killer, depth 3, fan-out 2, 1 terminal and 2 entries kept | `TypeOK`, `ParentRemembered`, `RetentionSettled`, `KillFinishesWhatItSaw` |
| `subrun_faults` | 3 runs, depth 1, 1 crash, failing document writes, lost registry writes, grace period | `FamilyLimits` in memory and in the file |
| `subrun_liveness` | 2 runs, 1 killer, 1 crash, 2 announce attempts | `RegistryMatchesStore`, `ImplementsLifecycle`, `LaneSettles` |
| `session_turns` | 3 calls, 3 sessions, 3 lock objects, 2 permits, cache of 1 | `TypeOK`, `MutualExclusion`, `IdleLocksBounded`, `ImplementsTurns`, `NoStarvation` |
| `fallback_probes` | 2 requests, 2 models, thresholds 2, lost clients | `TypeOK`, `ProbeHasOwner`, `FallbackSettles` |
| `fallback_faults` | as above, both routes, table of 1, all errors, cancellation | `OpenClosesByProbing` |
| `services` | approvals, WebSocket session, REST runs, workflows, agent loop, bus, executor, REPLs | one invariant each (below), `DecisionFinal`, `ClosedRunsStay`, `ClosedDocsStay`, `ServicesSettle` |
| `support` | tool loop, recovery, multi-agency, tool invocation and MCP, browser contexts | `ToolsSound`, `RecoverySound`, `CoordinationSound`, `BrowserPoolSound`, `SupportSettles` |
| `platform` | stores, agents, settings, runtime switch, model clients, tool hosts, learning, contracts | `SessionStoreSound`, `AgentCatalogSound`, `ServingSound`, `RuntimeSound`, `ContractsSound`, `PlatformSettles` |

Three more runs show a disagreement each: `subrun_zombie`, `recovery_feedback`
and `contracts_delegation` (section 4).

The invariants of the composites are conjunctions of named parts, each with its
own comment in its module:

| Invariant | Says |
|---|---|
| `PermissionsGiven` | a tool is let through, and a permission or rule stands, only if the user said so, also after joins, cascades and a restart; an open hold belongs to a call still waiting |
| `DecisionFinal` | the user's decision on a record is never replaced |
| `InboxSound` | every open run is in the queue, in a task or pending; none twice; a filled queue has a worker; the oldest follow-up is passed over at most `MaxDeferrals` times |
| `ClosedRunsStay` | over WebSocket a closed document is not changed again, except by the job whose own send hard-failed it: ending well, it says completed |
| `ClosedDocsStay` | over REST likewise, except by a task whose hard failure was stored without the note it looks for |
| `RunsAccounted` | a replay names a run of the same key and payload; a task that ended has closed its document |
| `ExecutionSound` | steps form a path of the graph, a failed execution has a reason, the file is never ahead, subruns do not overlap except after a timeout, a replay has ended |
| `RunSound` | every tool call in the conversation has one answer also after compaction (an answer may have lost its call), the budget is final for the loop's own calls, the plan in order, at most one answer and never an empty one |
| `MailSound` | mailboxes ordered by urgency, signals match, copies accounted for, no finished request still pending |
| `ResultsSound` | the first success wins a race, nothing is left running, a quorum is heeded, graph order |
| `ReplSound` | pool within its bound, one REPL per session, a call reads its own output unless one before it was cut off |
| `ToolsSound` | the loop's budget, permissions and repetition limits; denials hold, attempts bounded, registration complete, MCP answers match |
| `RecoverySound` | the order of strategies is complete, each within its budget, credit given once, every model of the route once; the request's task records are open exactly while it goes on, and closed afterwards or left open in one of four ways |
| `CoordinationSound` | redelegation bounded and only to the skilled, blackboard conflicts counted, routing monotone in confidence, consensus independent of the order of votes |
| `SessionStoreSound` | file and memory agree, repair is idempotent and leaves no call open, snapshots follow documents, a key starts one run |
| `AgentCatalogSound` | builtins keep their origin and denied tools through patches, resets and restarts, and stay read-only unless the last change spelt the flag as a string; a name belongs to the custom record that makes it, or else to the builtin; routing by best coverage |
| `ServingSound` | settings: what is told is used, unless the stored spelling differs or the change is transient, and survives a restart unless a write failed; model calls: streams assembled once, health and rates kept; tool hosts: allowlist and overrides, limit on running jobs, listed or not, redirects, sandbox; learning: searches find only live entries, contexts match, retries monotone, alerts timely, a tool that worked is found until it is too long ago, unless the search is full of others that worked no longer ago |
| `RuntimeSound` | one switch at a time, the state file holds the state in use unless its last write failed, the model is one its runtime serves and the flags are those asked for unless a change crossed a switch (`crossed`, `overlapped`), no running agent is pointed elsewhere |
| `BrowserPoolSound` | the table within its limit, one context for a key; a context taken out to be closed is nobody's next context; what is open beyond the table is being made, is with a closer, or was lost when that broke off; after a shutdown nothing is open; two calls share a context only by the same key |
| `ContractsSound` | what a schema admits the validator accepts, and what it hands on is what the schema promised |

*Bounds and why they are enough.* Three runs give a parent with two children
and a chain of three generations, which is every shape the guards, the cascade
and the pinning of parents tell apart; with one terminal run kept, retention
evicts as soon as the second run ends. `MaxEntries` above `MaxTerminal` makes
both limits bite at different times. One killer suffices for properties of one
call; its slot is reused, so kills follow each other. One crash puts every
reachable state on disk in front of a restore. The faults run has no nesting
(depth 1): nesting without faults is in `subrun_family`, and the theorems cover
both together. The session run has more sessions than cached locks and more
calls than permits; three calls can put a holder and two waiters on one lock,
or a call into each session while a lock is evicted. Two fallback requests
whose slots are reused give late answers: one call may last while the other
fails, probes, is answered and starts again. A breaker table of one entry with
two models evicts on every change of model.

In `services` two calls ask for one tool from two sessions with one restart;
seven messages (a plain one, two follow-ups, a clarification, a direct run, an
unsupported type, a forbidden directive) meet a queue of three, so that a second
follow-up waits while the first is passed over. One client sends four of them:
`Conversations` lists the mixes of what is queued, what answers and what the
loop deals with by itself; two REST requests share a key with different
payloads; a sequential and a parallel execution share a key with a graph that
has a branch, a delay, a missing step and an end; the agent loop may get a shell
call that needs approval, a write with a spawn, and a tool that does not exist,
with every kind of reflection once; two sends with a handler and a waiter; a
graph of four tasks with a shared and a missing dependency under all four
strategies; three REPL calls and a reset over a pool of one. In `support`
recovery meets four kinds of failure (context overflow, truncation, failed
compaction, timeout) with a configured order that holds an unknown and a
repeated strategy; the full set of reasons adds branches of the same shape.
Tasks of the supervisor may be reported twice (one of them) or once. Three keys
and three contexts meet a pool of two, with three calls: every way to evict, to
end a session and to shut down finds a context in use, idle or being closed. In
`platform` `MaxOdd = 1` lets one field of a call go wrong: both paths judge a
call field by field and stop at the first that is wrong, so that a second adds
no new outcome; `contracts_delegation` needs one as well. Of the values of a
setting one is another spelling of a second one, which the section's model makes
equal; one custom id is another spelling of a builtin's, two are spellings of
one name (ids that lose other characters on the way to their file's name are
left out). A search returns one tool of two (`FindLimit = 1`, where the code's
default is ten and its caller asks for five), so that the limit bites; trust
halves after one ageing and falls below the search's least after two. Agents are
registered in every order (`Orders`), and in every order without the reviewer
behind the primary agent. The learning loop sees four kinds of outcome, a window
of five and six outcomes, enough for every alert's threshold. The real limits
(hundreds of runs and models, 32 locks, 50 inbox messages) are constants of the
theorems where there is a theorem.

*Deadlock.* `session_turns` and the fallback runs check it. The other runs say
`CHECK_DEADLOCK FALSE`: ids, messages, requests and calls are handed out once
there, so the model stops when all are settled. That nothing is stuck before
that is what the `*Settle*` properties say.

*Fairness.* Every liveness property assumes weak fairness of the event loop
and of external work that ends in some way, and never that users or clients
act.

- `SubrunLane`: every step of a task, of a suspended `spawn()` and of a kill
  whose task is done: the loop runs ready tasks, sends and sleeps end, the body
  is bounded by `timeout_seconds`. Nothing obliges requests to spawn, kills to
  be asked or processes to crash. The semaphore needs no strong fairness: ids
  are not reused, so a permit is not taken again for ever.
- `SessionLane`: woken waiters run and runs end; the queues make weak fairness
  enough.
- `ModelFallback`: `Step` of each request, as sends, calls (bounded by the
  client's timeouts) and backoffs end; cancellation, start and the recovery
  timeout are not fair.
- `MCServices`: `CallStep` contains the timeout of an approval, so a call ends
  although the user never answers; `LoopStep` and `WorkerStep` are the two
  tasks of a connection, not the arrival of messages; `RunStep`, `WfStep`,
  `SendStep`, `ReplStep` are code between two awaits that are bounded by
  timeouts; `LoopNext` and `FanNext` are one sequential computation.
- `MCSupport`: likewise the steps of the tool loop, of tool calls with timeouts,
  of MCP calls and recovery, and of browser calls and those who close contexts; a
  shutdown that began ends because the event loop lives on until it has.
- `MCPlatform`: the steps of switches and of the requests that wait for them; the
  remaining parts answer at once and have nothing to settle.

*What is not promised.* `KillFinishesWhatItSaw` is about tasks the kill saw,
not about their status or about runs spawned meanwhile. `RegistryMatchesStore`
and `ImplementsLifecycle` hold when writes succeed; with failing writes they do
not, and no document of the code says they should. `ProbeHasOwner` holds
without cancellation. See the findings.

## 4. Findings

Shown by a run, in which TLC contradicts a line of the repository:

1. `subrun_zombie`: a task killed before its first step never enters the `try`
   of `_run`. `kill()` returns True, the status stays `accepted` for ever and
   the entry in `_run_tasks` is never popped.
2. `recovery_feedback`: the strategy that failed is remembered as
   "fallback_retry", while the steps to be moved back are called
   "overflow_fallback_retry" and "truncation_fallback_retry"; the strategy that
   just failed is tried first again.
3. `contracts_delegation`: the live loop never carries out a `spawn_subrun`
   call, which the prompt tells the model to make: `_runner_execute_tool` ends
   in `_invoke_tool`, which raises for this tool.

Met while modelling and kept in the models, without a run of their own:

- *Fallback.* `except Exception` does not catch `CancelledError`, although the
  clause names it (`fallback_state_machine.py:320`): a request cancelled during
  its probe leaves the flag set. The catch-all reads `_attempt_start_mono`
  before it is bound (`:322`). An error while reporting a success is recorded
  as a failure (`:285`). Late answers settle other requests' probes
  (`circuit_breaker.py:116`) and restart the recovery timeout (`:161`).
- *Subrun lane.* A cascading kill passes over runs whose `spawn()` is suspended
  in `send_event`; they get their task afterwards and survive.
- *WebSocket.* After a disconnect the queued runs are dropped and their
  documents stay active (`ws_handler.py:726`). A run that is hard-failed inside a
  send of its own job ends as completed (`run_handlers.py:246`,
  `ws_handler.py:658`).
- *Run handlers.* A background run whose hard failure was stored, but not the note
  of it, ends as completed (`run_handlers.py:246-259`).
- *Agent loop.* The text of a reflection retry replaces the gated one and is not
  gated again (`agent_runner.py:1696`); "allow once" allows a tool for the rest
  of the run (`:920`). The results of a call that was compacted away stay in the
  conversation, and the calls of a reflection retry are not counted against the
  budget.
- *Settings.* A changed value is stored as the client wrote it, although what
  the client is told is what the section's model made of it
  (`config_service.py:210`, `:228`, `:237`). A write of the tool configurations
  that fails is swallowed (`tool_config_store.py:61`). A change of the runtime's
  flags or model is in force although the write that should keep it raised
  (`runtime_manager.py:92`, `:97`). A reset section keeps its values until a
  restart (`config_service.py:254`; `ResetRestores` states the docstring).
  Reading all tool configurations takes a non-reentrant lock twice and blocks
  the event loop (`tool_config_store.py:85`; `ListTools2` in `Settings`).
  Command patterns live in memory only, and no tool reads its configuration.
- *Agents.* Synchronising rebuilds the adapters of custom agents and drops the
  spawn handler set by `main.py`; builtin adapters keep the record they were
  built with (`RecordIsTruth` states the docstring). A patch that spells
  `read_only` as "false" passes the floor, which tests the string, and is then
  converted to False (`agent_store.py:200`, `:131`). An id such as
  "Security-Agent" makes a custom record that takes the builtin's name
  (`agent_resolution.py:84`, `:105`).
- *Tool policy.* A tool whose feature is switched off is not offered but can
  still be called: the tools a call may reach are `ALLOWED_TOOLS` and the
  registry, which is built without a list of allowed tools (`agent.py:795`,
  `:1385`; `tool_catalog.py:61`). An override whose allow list is empty removes
  the restriction, and it is applied last although the recorded order names it
  before depth and request.
- *Bus, executor.* An entry leaks when a request is cancelled while a handler
  runs (`agent_message_bus.py:239`), and a second waiter returns None early; a
  failed step of a graph counts as satisfied (`parallel_executor.py:226`).
- *Tools.* A REPL call that was cut off leaves its output for the next call of
  the session (`persistent_repl.py:285`), and a call that waits for a REPL
  evicted meanwhile starts it again, so that more processes may run than
  `max_sessions` (`persistent_repl.py:291`, against
  `repl_session_manager.py:3`). Job ownership is always empty and finished jobs
  are never removed; an allow-once override is shared by all sessions. Browser
  calls without a key share one context. More contexts than `max_contexts` may
  be open, since those taken out of the table are closed afterwards
  (`browser_pool.py:188`, against `:84`); one whose closing fails stays open in
  the browser. `also_allow` can re-add a disallowed tool; concurrent reconnects
  leave an MCP process behind.
- *Contracts.* The live path validates no argument and normalises no alias; the
  schema of `spawn_subrun.mode` admits "wait", the validator "run" and
  "session" (`tool_registry.py:720`, `tool_arg_validator.py:424`); the minimum
  of `web_fetch.max_chars` is 1 in one and 1000 in the other; `Infinity` raises
  out of the validator (`:128`). The rules of `ContractsSound` except the first
  two by name (`Contradicts`); they except what a schema has no word for
  (`Unsaid`: blank, overlong or forbidden strings, numbers and lists without a
  bound), and six fields whose rule is laxer than their schema (`Lenient`):
  `code_execute.persistent` and `.session_id`, `build_workflow.execution_mode`,
  and of `spawn_subrun` the mode, the policy and `timeout_seconds`, which may be 0
  for the one and must be 1 for the other.
- *Learning.* A search returns a limited number of tools (ten unless its caller
  says otherwise), so that a tool that worked may not be found when others that
  worked fill it (`tool_knowledge_base.py:134`, `:173`).
- *Recovery.* A reload brings lifetime counters back that the window had
  forgotten. A request may end with its task records open: refused by a send
  before the `try`, cancelled, with a send failing after the answer
  (`pipeline_runner.py:264-275`), or with a status that cannot be written.
- *Workflow scheduler.* No schedule ever fires (`workflow_scheduler.py:147`).

`ResetRestores` and `RecordIsTruth` are stated and not listed as findings with a
run, because what they quote is a docstring's summary; TLC refutes both.

## 5. Proofs

All theorems hold for every value of the constants that satisfies the named
assumption of the module (finite sets, positive limits).

| Theorem | Statement | Argument |
|---|---|---|
| `SubrunLane_proofs!TypeCorrect` | `Spec => []TypeOK` | `IInv` below |
| `SubrunLane_proofs!FamilyLimitsHold` | `Spec => []FamilyLimits`, with every fault | `IInv` |
| `SubrunLane_proofs!ParentRememberedHolds` | `Spec => []ParentRemembered`, with every fault | `IInv` |
| `SubrunLane_proofs!RetentionSettledHolds` | `Spec => []RetentionSettled`, with every fault | `IInv`, lemmas `EvictSettles`, `CommitSettles` |
| `SubrunLane_proofs!KillFinishesWhatItSawHolds` | `Spec => KillFinishesWhatItSaw`, with every fault | `KInv` = `IInv` and `KillSound` of every kill |
| `SubrunLane_proofs!LifecycleImplemented` | `Spec => ImplementsLifecycle`, a refinement, if writes succeed and a restart spares no orphan | step simulation `Simulates` under `LInv` |
| `SubrunLane_proofs!RegistryMatchesStoreHolds` | `Spec => []RegistryMatchesStore` under the same assumption | the simulation, with `saved = reg` |
| `SessionLane_proofs!SessionsExclude` | `Spec => []MutualExclusion` | `IInv` = `Shapes`, `Current`, `Counted`, `Held` |
| `SessionLane_proofs!LaneTypeCorrect` | `Spec => []TypeOK` | `JInv` below |
| `SessionLane_proofs!IdleLocksBoundedHolds` | `Spec => []IdleLocksBounded` | `JInv` |
| `SessionLane_proofs!TurnsImplemented` | `Spec => ImplementsTurns`, a refinement | `JInv`, lemmas `Departs`, `Arrives`, `Starts` |
| `ModelFallback_proofs!TypeCorrect` | `Spec => []TypeOK` | `BTypeOK` and the ranges of the requests |
| `ModelFallback_proofs!OpenClosesByProbingHolds` | `Spec => OpenClosesByProbing`, with every fault | a half-open circuit changes only by its methods |
| `ModelFallback_proofs!ProbeHasOwnerHolds` | without cancellation and other send errors, `Spec => []ProbeHasOwner` | `IInv` = `BTypeOK`, `FlagHalfOpen`, `Books` |
| `Serving_proofs!PermissionsGivenHolds` | `ApprovalSpec => []PermissionsGiven` | `IInv` = `PermissionsGiven`, `Joined`, `Decided` |
| `Serving_proofs!DecisionFinalHolds` | `ApprovalSpec => DecisionFinal` | `IInv` |
| `SessionLane_proofs!InboxSoundHolds` | `WsSpec => []InboxSound` | `WInv`, lemmas `PurgeFits`, `SelectedFits` |
| `SessionLane_proofs!ClosedRunsStayHolds` | `WsSpec => ClosedRunsStay` | under `WInv` every action keeps closed documents, but the end of a job that its send hard-failed |
| `SessionLane_proofs!SessionStoreSoundHolds` | `StoreSpec => []SessionStoreSound` | `MemoryInv`, `DocsInv`; `RepairRuns` and `Neighbours` for the two passes over a history |
| `Orchestration_proofs!RunsAccountedHolds` | `RunSpec => []RunsAccounted` | `IInv` = `RunsAccounted`, `RegistrySound`, `Documents` |
| `Orchestration_proofs!ClosedDocsStayHolds` | `RunSpec => ClosedDocsStay` | `IInv` |
| `Orchestration_proofs!ExecutionSoundHolds` | `WfSpec => []ExecutionSound` | `WfInv` = `ExecutionOk` of every execution, the registry, the file |
| `ToolUse_proofs!RunSoundHolds` | `LoopSpec => []RunSound` | `LoopInv` |
| `ToolUse_proofs!ReplSoundHolds` | `ReplSpec => []ReplSound` | who holds a REPL, what its pipe still holds |
| `ToolUse_proofs!BrowserPoolSoundHolds` | `PoolSpec => []BrowserPoolSound` | `PoolInv` |
| `ToolCalls_proofs!ToolsSoundHolds` | `ToolSpec /\ PolicySpec /\ InvokeSpec /\ McpInitSpec /\ McpSpec => []ToolsSound` | `LoopInv`, `InvokeInv`, `RegisterInv`, `StreamsInv` |
| `Orchestration_proofs!MailSoundHolds` | `BusSpec => []MailSound` | mailboxes, signals and pending replies in one invariant |
| `Orchestration_proofs!ResultsSoundHolds` | `FanSpec => []ResultsSound` | what ran, what is done and what was stopped, per strategy |
| `Orchestration_proofs!CoordinationSoundHolds` | `SupervisorSpec /\ RouterSpec /\ BallotSpec => []CoordinationSound` | `SupervisorInv`, `RouterInv`, `BallotInv`, and lemmas on sums |
| `ModelFallback_proofs!RuntimeSoundHolds` | `RuntimeSpec => []RuntimeSound` | `RuntimeInv` |
| `ModelFallback_proofs!RecoverySoundHolds` | `RecoverySpec => []RecoverySound` | `RecoveryInv` = `OnRoute`, `Spent`, `Credits`, `Ledger` |
| `Serving_proofs!AgentCatalogSoundHolds` | `CatalogSpec /\ InquirySpec => []AgentCatalogSound` | `CatalogInv`, and `SomeoneLeads` for the choice |
| `Serving_proofs!SettingsSoundHolds` | `SettingsSpec /\ ToolConfigSpec => []SettingsSound` | `OverridesInv`, `ToolConfigInv` |
| `Serving_proofs!ToolHostSoundHolds` | `CommandSpec /\ BoxSpec /\ WebSpec => []ToolHostSound` | `CommandInv`, `BoxInv`, `WebInv` |
| `Serving_proofs!ModelCallsSoundHolds` | `CallSpec /\ HealthSpec /\ LimiterSpec => []ModelCallsSound` | `CallInv`, `HealthInv`, `LimiterInv` = `Paid` of every client |
| `Serving_proofs!KnowledgeSoundHolds` | `KnowledgeSpec /\ VerdictSpec => []KnowledgeSound` | `IndexInv`, `JournalInv`, `VerdictInv` |
| `Serving_proofs!ToolOutcomesSoundHolds` | `OutcomesSpec => []ToolOutcomesSound` | `OutcomesInv`, with `WindowOf` the last outcomes |
| `Serving_proofs!ServingSoundHolds` | `ServingSpec => []ServingSound` | the five theorems before it |

*SubrunLane.* The limits are not inductive alone: a restored file must satisfy
them too, an id handed out must be unused in memory and on disk, and a run with
a live task must have a status that fits its position. `IInv` is
`TypeOK /\ Attempts /\ Sound(reg) /\ Sound(saved) /\ FreshIds /\ Positions`,
where `Sound(R)` says that a registry keeps the family limits, remembers the
parents of unfinished runs and keeps no data of forgotten runs. Two lemmas
carry the proof: `EvictSound` (retention of evictable runs keeps a registry
sound) and the lemmas on steps that move one run and commit, or only move it;
each action is then an instance of one of them.

`RetentionSettled` follows because every step that ends a run also runs
retention: `EvictSettles` says that retention took every candidate or as many
as the overflow asks for, and a step that does not commit can only shrink the
overflow (`QuietSettles`). For a kill, `KillSound` says that each run it saw and
has not finished with is still to be cancelled or awaited; a task that ended
stays ended (`TaskStepEnds`), so a kill that returns leaves none of them live.

*SubrunLifecycle.* `LInv` adds to `IInv` that the file equals the registry and
that an id not handed out has no document. Every action is shown to be, for
every run at once, a move or a stutter of the contract (`Simulates`); the
crashes share one lemma, `DieSimulates`, about restore and reconciliation from
any document the crash left behind. With failing writes `saved = reg` fails,
and so does the theorem.

*SessionLane.* Two runs of a session could overlap only on two lock objects. The
invariant says that a call in progress refers to the current lock object of its
session (`Current`), that the use count of a session counts its calls
(`Counted`), so eviction spares it, and that holders are exactly the calls that
wait for a permit or run (`Held`).

*SessionTurns.* The line of a session in the contract is the holder followed by
the queue of its lock object. `JInv` adds to `IInv` that queues hold the calls
that wait, once each (`Queues`), that permits and calls running add up
(`Permits`), that an idle lock has no holder and no waiter (`OwnLocks`), and
that use times order the sessions of the table (`Stamps`), which the bound on
idle locks needs. Each action makes a call arrive, start, depart or stand
still, and one lemma per kind gives the step of the contract.

*ModelFallback.* A flag is set only while half-open (`FlagHalfOpen`), and
`Books` relates `probing` to the position of the request. Every action that ends
or moves a probing request returns the flag in the same step; the two ways in
which the code does not are excluded by the hypotheses `~MayCancel` and
`"other" \notin SendErrors`.

*PolicyApproval.* What the user said is compared with records, permissions and
rules. `Joined` says that a call which waits has a record with its own key, so
that the decision it reads was made about what it asked; `Decided` that a
record is approved only by what was said about it, its tool and session, or a
rule.

*WsSession.* `WInv` says where each open run is: `LoopRun` (with the loop, and
nowhere else), `WorkerRun` (with the worker, open until a failure was written)
and `Lined` (in the queue, once). A run hard-failed in a send is the job's
(`broken`), so the only step that can say completed of it is that job's last.
`Waits` bounds the deferrals: a queued message that was passed over is a
follow-up at the head, counted by the worker each time. It survives because the
worker prefers the first ordinary message, which passes over a follow-up only if
all before it are follow-ups (`SelectedFits`), and because a purge takes a
prefix (`PurgeFits`).

*SessionStore.* `MemoryInv` says that memory and file are trimmed sequences of
items and that they agree but for the sessions noted in `unsaved`; what it says
of repairs and sanitizations then holds of any history, reachable or not. A
repair is a pass over the items, which `RepairRuns` unfolds into its steps: at
each of them no call of what was read is open before a user's item, so a second
pass finds nothing to add. What a sanitization keeps has no two neighbours of
one speaker, since between two items kept everything left out repeats the first
(`Neighbours`). `DocsInv` says that `recent` lists every stored run once, that
snapshots agree with the documents not noted in `torn`, that every remembered
answer names a run of its session (`Honest`), and that a key
whose entry was never dropped started nothing, or one run while its entry is on
record (`KeysKept`).

*RunControl.* A replay could name a foreign run only through the registry, so
`RegistrySound` ties each entry to the request that made it. `Documents` ties the
document to the position of the task, which makes a second closing impossible
except where the task could not know: `unflagged` keeps the runs that failed in
the store without the note of it.

*Workflow.* `ExecutionSound` speaks of paths of the graph, which a step-by-step
proof cannot follow backwards. `ExecutionOk` therefore says of every execution,
at every position of its code, that the current step can be reached from every
step that ran (`FlowOf`), that what the file says was true before, and that a
verdict has its reason. The registry holds only executions that were answered;
as the whole execution lies between lookup and registration, two of one key may
run, and the invariant says nothing that would exclude it.

*AgentLoop.* `LoopInv` follows the conversation: every call in it is answered or
pending. Compaction keeps a tail of the conversation, so a call it keeps has all
its results after it; of results it keeps, the call may be gone. Tools are
offered only within the budget; the plan is worked off in order or untouched;
what was answered and remembered is told by the position of the run.

*ToolLoop, ToolInvoke.* `LoopInv` ties every place of the loop to its books
(`LoopPlaces`: what was counted and what is under way are the calls handed to a
tool, and reads that wait for the gate still fit the budget), says that the
results of calls that ran stand in the order of these calls and that those
remembered early are the reads not yet listed (`LoopAnswers`), and that a call
handed to a tool was permitted and counted by the gate before (`LoopGate`).
Counting results needs lemmas on the places of a sequence that grows
(`RanAt`, `OkAt`) and on the calls kept of a list (`OnlyAt`). An attempt that
timed out leaves its thread behind, so `InvokeInv` counts what was begun by the
position of the call; `RegisterInv` ties the lock of the registration to the
one request inside it; `StreamsInv` says that the holder of a stream is the one
call that reads it. Denials hold in every state without an invariant:
`DenialsAlwaysHold` is about any request and any set it denies.

*ReplPool, BrowserPool.* A pool is sound because what a call has in hand is
protected by where the call is. For browser contexts: one that is being made is
in nobody's hands, one in use keeps the key it was asked for by, and the lock
is held by the call that is inside `get_context`; a context leaves the table
for one closer (`ClosingOk`), where no call finds it again, and leaves the closer
closed or lost. So what is open is accounted for, although it may be more than
the table's limit. For REPLs: the pipe of a
REPL holds nothing a call before has left, unless that one was cut off.

*AgentBus, FanOut.* The invariants relate every copy of a message to the mailbox,
the handler or the waiter that has it, and every task of a strategy to the
verdict that ended it.

*Coordination.* `SupervisorInv` counts the agents a task was given to by its
tries, whatever is reported late, twice or after a cancellation (`GateOk`), and
relates the history of a board entry to its version and its conflicts: a
trimmed history has forgotten conflicts and never invented one (`BoardOk`,
`OverwritesOfSlice`). `RouterInv` keeps records within percentages, from which
it follows that a score never falls when the confidence rises (`ScoresFit`).
That a consensus ignores the order of votes rests on three facts about sums: a
reordering keeps them (`SumReordered`), the backings of two answers are
together at most the total (`BackingsFit`), and the leading answer exists and
was given (`LeadingLeads`). So an answer with more than half of the total leads
in every order; with half of it or less it need not, and nothing is claimed.

*RuntimeSwitch.* `RuntimeInv` says that the state a switch would go back to is as
good as the one it began with, and that a request between two of its awaits
took a local state if it acts on one. A file whose last write failed holds an
earlier state, which is as good in itself, and `unkept` says so.

*Recovery.* An order of strategies has every strategy of the reason once
(`Order`), and each thing that rearranges it only moves one to the front or the
back (`OrderMoves`, which rests on what a sublist has, `Lists_proofs`). The
metrics lead with a best strategy, which must exist: a reason has two
strategies at most (`StepsTwo`), and of two one leads (`OneLeads`). The route is
complete for the same reason, once a best affordable model exists, which holds
because a finite set has a model the fewest are better than (`BestFits`).
`RecoveryInv` adds that credit and decision go together (`Credits`), and that no
history is longer than its window (`Ledger`). It assumes what the code
provides: a route names a model once, since the router drops duplicates
(`model_routing/router.py`). `TasksFollow` needs no help: each step that ends a
request says what became of its task records.

*AgentCatalog.* `CatalogInv` states what one change needs: every builtin record
keeps its floor unless `loosened` says its flag was respelt, custom ids never
hold a builtin's record (they may take its name), and the registry is at most as
far behind as `drifted` says. `UpdatedOk` and `FactoryOk` are the
only ways a record is written, and `SyncKeeps` and `BuiltSound` the only ways
the registry is. For the routing, `SomeoneLeads` shows that a leading agent
exists: of those that cover most, those that are favoured most, among them the
primary agent if it is there; numbers that are bounded have a largest
(`LargestNumber`, from the well-foundedness of the natural numbers).

*Serving.* The five components share no state, so each has its own invariants
and `ServingSoundHolds` combines their theorems. *Settings*: what is told and
what is used differ only by spelling, and memory and file only in what a failed
write left (`unwritten`, `toolUnsaved`). *Running jobs* are counted by the call
that starts them before they are listed: `CommandInv` bounds both kinds
together. A behaviour of `MCPlatform` satisfies `ServingSpec`: a component it is
not about keeps an initial state. Five more arguments are not read off the code.
*The index of memory*: a replaced row leaves its terms behind, and a search must
not find them under another row. No posting is of a row above all that are
there, and a new row is, so what was left behind never becomes true of another
entry (`IndexInv`). *Streamed tool calls*: what is collected for an index is
exactly its fragments, in order, and its name that of the last fragment with
one, so interleaving and replaced names do no harm (`ToolChunkKeeps`). *The
route*: a stable sort is a reordering that no better candidate is behind in
(`SortedByFits`, for any list and key; the places ahead of a candidate are
counted, and no two have the same number of them), so every model is tried once.
*The limiter*: the requests a client was granted since any moment and the tokens
left to it were paid for by a burst and the time since (`Paid`); dropping an
idle bucket is no loss because a bucket idle for `IdleTime` would be full, which
is what `LimiterAssumption` (`Rate * IdleTime >= Burst`) says of the configured
values. *Alerts*: the window of commands is the last outcomes, whatever was
appended (`WindowMoves`); that three versions were tried is then counting in a
set (`VersionsFit`), and four same commands the largest number counted from the
end (`TrailingFits`). *Working tools*: a success restores the trust in a tool
and no failure takes it away, so a search that leaves one out is full of others
that worked, no longer ago. Two settings of the code are assumptions: words too
short to be indexed are no terms, and the routed models are distinct
(`_dedupe`).

*Model-checked only.* Liveness (`LaneSettles`, `NoStarvation`, `FallbackSettles`
and the three `*Settle` of the composites), which is outside the proof system;
and the invariant `ContractsSound`, which is a statement about one table, the
fields and rules of every tool: it has no parameter a proof could generalise,
and TLC goes through the table entry by entry. Every other property of a passing
run is a theorem. Where a recursion is written as a recursive function, as the
sum of `Lists` is, the proofs follow it: `UpTo` states induction about a set,
which the provers can instantiate, in place of a formula, which they cannot.

## 6. Not modelled

- of the subrun lane: `kill_all` by session, and the read-only listing,
  visibility and handover methods;
- `reset()` of the breaker and `_mark_session_active` of the lanes, which have
  no caller;
- texts everywhere: prompts, replies, events, error messages; encryption and
  redaction of stored text; query planning and skill retrieval of the tool
  manager; the clean-up of ids into file names, beyond their spelling;
- the nesting of lanes: a parent holds its session's lock, a global permit and
  a lane permit while it waits for a child that may need the same; only
  timeouts resolve it. `SubrunLane` and `SessionLane` are checked apart, and no
  document of the repository bounds that wait;
- the components marked `not_modelled` in `PROJECT.json`, for the reasons given
  there: the scheduler never fires, connectors and several services are reached
  by nothing in the running program, skills, prompts, files, pictures and audio
  keep no state that steps could disturb, wiring builds and forwards, and the
  frontend is a program of its own.

## 7. What is left

The plan of the project was carried out in this order: lanes and their
contracts, breaker and fallback, approvals, connections and runs, workflows,
the agent's loop and its tools, the stores and clients around them, then the
refinement proofs. Candidates for further work:

1. the nesting of lanes with its timeouts, once the code says how long a
   parent may wait;
2. larger instances of the agent loop (two batches of tools and two
   compactions in one run).

---------------------------- MODULE RuntimeSwitch ----------------------------
(***************************************************************************)
(* The model runtime that all requests share (runtime_manager.py): it is   *)
(* switched between a local and an API endpoint while requests are being   *)
(* prepared (ws_handler.py, run_handlers.py) and agents are pointed at it  *)
(* (agent.py configure_runtime, run).  Left out: URLs and ports, the text  *)
(* of progress events; of the gateway, the process.                        *)
(***************************************************************************)
EXTENDS Naturals, FiniteSets, Sequences

CONSTANTS
    Jobs,           \* requests for an agent's run
    AgentOf,        \* [job -> agent]
    Switches,       \* requests to switch
    LocalModel, ApiModel, Alias, \* Alias: the name LocalModel may be installed under
    Flags,          \* values of the feature flags
    MaxTrouble      \* bound: progress events that cannot be sent, starts, pulls and writes that fail

ASSUME RuntimeSwitchAssumption ==
    /\ ApiModel \notin {LocalModel, Alias} /\ Flags # {}
    /\ "none" \notin Switches /\ MaxTrouble \in Nat

Runtimes == {"local", "api"}
Agents == {AgentOf[j] : j \in Jobs}
Endpoint(state) == [runtime |-> state.runtime, model |-> state.model]
State(runtime, model, flags) == [runtime |-> runtime, model |-> model, flags |-> flags]

-----------------------------------------------------------------------------
VARIABLES
    current,    \* _state
    stateFile,  \* the persisted state
    unkept,     \* history: the last write of stateFile failed
    lock,       \* _switch_lock: the holder, or "none"
    switch,     \* [switch -> [at, target, attempt, before]]
    installed,  \* models the local server lists
    gateway,    \* "down", "starting", or "up": its port answers
    job,        \* [job -> [at, shares, seen, model, used]]
    client,     \* [agent -> the endpoint and model it calls]
    trouble,    \* failures so far, but for the writes of stateFile
    lost,       \* writes of stateFile that failed so far, but for rollbacks
    asked,      \* history: the flags last asked for
    overlapped, \* history: flags were set while a switch held the lock
    crossed     \* history: a request noted its model after the runtime had changed
runtimeVars == <<current, stateFile, unkept, lost, lock, switch, installed, gateway, job, client, trouble, asked, overlapped, crossed>>

Unasked == CHOOSE f \in Flags : TRUE
NoClient == [runtime |-> "none", model |-> "none"]
Switching(at, target, attempt, before) ==
    [at |-> at, target |-> target, attempt |-> attempt, before |-> before]
Resting(at) == Switching(at, "local", 0, NoClient)
Job(at, shares, seen, model, used) ==
    [at |-> at,
     shares |-> shares,     \* the state object it took is still the one in use
     seen |-> seen,         \* if not, what that object says
     model |-> model, used |-> used]
JobAt(at) == Job(at, FALSE, NoClient, "none", NoClient)

RuntimeInit ==
    /\ asked = Unasked
    /\ current = State("local", LocalModel, asked) /\ stateFile = current /\ unkept = FALSE /\ lost = 0 /\ lock = "none"
    \* Bound: one of them is over before the rest begins.
    /\ \E x \in {CHOOSE s \in Switches : TRUE, CHOOSE j \in Jobs : TRUE} :
         /\ switch = [s \in Switches |-> IF s = x THEN Resting("done") ELSE Resting("idle")]
         /\ job = [j \in Jobs |-> IF j = x THEN JobAt("over") ELSE JobAt("new")]
    /\ installed = {}
    /\ gateway = "down"
    /\ client = [a \in Agents |-> NoClient]
    /\ trouble = 0 /\ overlapped = FALSE /\ crossed = FALSE

Goes(s, at) == switch' = [switch EXCEPT ![s].at = at]
Trouble == trouble + lost < MaxTrouble /\ trouble' = trouble + 1

-----------------------------------------------------------------------------
(* switch_runtime.  Every step of it ends at an await.                     *)

Request(s) ==
    /\ switch[s].at = "idle"
    /\ \E target \in Runtimes : switch' = [switch EXCEPT ![s] = Switching("lock", target, 0, NoClient)]
    /\ UNCHANGED <<current, stateFile, unkept, lost, lock, installed, gateway, job, client, trouble, asked, overlapped, crossed>>

Acquire(s) ==
    /\ switch[s].at = "lock" /\ lock = "none" /\ lock' = s
    /\ switch' = [switch EXCEPT ![s] = Switching("begin", switch[s].target, 1, current)]
    /\ UNCHANGED <<current, stateFile, unkept, lost, installed, gateway, job, client, trouble, asked, overlapped, crossed>>

(* The gateway is started unless its port answers. *)
Begin(s) ==
    /\ switch[s].at = "begin" /\ Goes(s, "gateway")
    /\ gateway' = IF gateway = "up" THEN "up" ELSE "starting"
    /\ UNCHANGED <<current, stateFile, unkept, lost, lock, installed, job, client, trouble, asked, overlapped, crossed>>
GatewayAnswers ==
    /\ gateway = "starting" /\ gateway' = "up"
    /\ UNCHANGED <<current, stateFile, unkept, lost, lock, switch, installed, job, client, trouble, asked, overlapped, crossed>>
GatewayReady(s) ==
    /\ switch[s].at = "gateway" /\ gateway = "up"
    /\ Goes(s, IF switch[s].target = "local" THEN "model" ELSE "chosen")
    /\ UNCHANGED <<current, stateFile, unkept, lost, lock, installed, gateway, job, client, trouble, asked, overlapped, crossed>>

(* _ensure_model_available: the first of the model's names that is installed,
   or that can be pulled. *)
Names(m) == IF m = LocalModel THEN <<LocalModel, Alias>> ELSE <<m>>
FirstInstalled(m) ==
    {Names(m)[n] : n \in {i \in DOMAIN Names(m) : Names(m)[i] \in installed /\ \A k \in 1 .. i - 1 : Names(m)[k] \notin installed}}
FoundListedOnly(m, got) == got \in FirstInstalled(m) /\ UNCHANGED <<installed, trouble>>

Found(m, got) ==
    \/ got \in FirstInstalled(m) /\ UNCHANGED <<installed, trouble>>
    \/ /\ FirstInstalled(m) = {} /\ got = Names(m)[1] /\ installed' = installed \union {got} /\ UNCHANGED trouble
    \/ /\ FirstInstalled(m) = {} /\ Len(Names(m)) > 1 /\ got = Names(m)[2] /\ installed' = installed \union {got} /\ Trouble

(* _persist_state comes after the change, which stays when it raises. *)
Kept == stateFile' = current' /\ unkept' = FALSE /\ UNCHANGED lost
NotKept == unkept' = TRUE /\ UNCHANGED stateFile
Loses == NotKept /\ trouble + lost < MaxTrouble /\ lost' = lost + 1

(* The new state has the flags from before the switch. *)
Replaced(new) ==
    /\ current' = new
    /\ job' = [j \in Jobs |-> IF job[j].shares
                              THEN Job(job[j].at, FALSE, Endpoint(current), job[j].model, job[j].used)
                              ELSE job[j]]
Commit2(s, model) == Replaced(State(switch[s].target, model, switch[s].before.flags))
\* A write that fails is a failure of the attempt.
Committed(s) == (Kept /\ Goes(s, "committed")) \/ (Loses /\ Goes(s, "failing"))
CommitLocal(s) ==
    /\ switch[s].at = "model"
    /\ \E got \in {LocalModel, Alias} : Found(LocalModel, got) /\ Commit2(s, got)
    /\ Committed(s)
    /\ UNCHANGED <<lock, gateway, client, asked, overlapped, crossed>>
CommitApi(s) ==
    /\ switch[s].at = "chosen" /\ Commit2(s, ApiModel) /\ Committed(s)
    /\ UNCHANGED <<lock, installed, gateway, client, trouble, asked, overlapped, crossed>>

Leaves(s, at) == switch' = [switch EXCEPT ![s] = Resting(at)] /\ lock' = "none"
Succeed(s) ==
    /\ switch[s].at = "committed" /\ Leaves(s, "done")
    /\ UNCHANGED <<current, stateFile, unkept, lost, installed, gateway, job, client, trouble, asked, overlapped, crossed>>

\* Any await of an attempt can fail: an event, the gateway, the token, the pull.
Attempt2 == {"begin", "gateway", "model", "chosen", "committed"}
AttemptFails(s) ==
    /\ switch[s].at \in Attempt2 /\ Trouble /\ Goes(s, "failing")
    /\ UNCHANGED <<current, stateFile, unkept, lost, lock, installed, gateway, job, client, asked, overlapped, crossed>>

(* The failure is reported, then comes the second attempt or the rollback.
   When the report fails too, or the state gone back to cannot be written,
   the switch ends as it is. *)
Reported(s) ==
    /\ switch[s].at = "failing"
    /\ IF switch[s].attempt = 1
       THEN /\ switch' = [switch EXCEPT ![s] = Switching("begin", switch[s].target, 2, switch[s].before)]
            /\ UNCHANGED <<current, stateFile, unkept, lost, lock, job>>
       ELSE /\ Replaced(switch[s].before)
            /\ \/ Kept /\ Goes(s, "rolledback") /\ UNCHANGED lock
               \/ NotKept /\ Leaves(s, "broken") /\ UNCHANGED lost
    /\ UNCHANGED <<installed, gateway, client, trouble, asked, overlapped, crossed>>
Unreported(s) ==
    /\ switch[s].at = "failing" /\ Trouble /\ Leaves(s, "broken")
    /\ UNCHANGED <<current, stateFile, unkept, lost, installed, gateway, job, client, asked, overlapped, crossed>>
RolledBack(s) ==
    /\ switch[s].at = "rolledback" /\ Leaves(s, "failed")
    /\ UNCHANGED <<current, stateFile, unkept, lost, installed, gateway, job, client, trouble, asked, overlapped, crossed>>

-----------------------------------------------------------------------------
(* update_feature_flags, at any time; bound: once. When the state cannot be
   written the caller is told, and the flags are in use all the same. *)
SetFlags(f) ==
    /\ asked = Unasked /\ f # Unasked /\ asked' = f /\ overlapped' = (overlapped \/ lock # "none")
    /\ current' = State(current.runtime, current.model, f) /\ (Kept \/ Loses)
    /\ UNCHANGED <<lock, switch, installed, gateway, job, client, trouble, crossed>>

(* A request takes the state object and points its agent at it, which is
   refused while the agent runs. *)
Running(a) == {j \in Jobs : AgentOf[j] = a /\ job[j].at = "running"}
MayConfigureAnyway(a) == Cardinality(Running(a)) <= 1

MayConfigure(a) == Running(a) = {}

Prepare(j) ==
    LET a == AgentOf[j] IN
    /\ job[j].at = "new"
    /\ IF MayConfigure(a)
       THEN /\ client' = [client EXCEPT ![a] = Endpoint(current)]
            /\ job' = [job EXCEPT ![j] = IF current.runtime = "local" THEN Job("ensure", TRUE, NoClient, current.model, NoClient)
                                         ELSE JobAt("ready")]
       ELSE job' = [job EXCEPT ![j] = JobAt("refused")] /\ UNCHANGED client
    /\ UNCHANGED <<current, stateFile, unkept, lost, lock, switch, installed, gateway, trouble, asked, overlapped, crossed>>

\* ensure_model_ready, and the status event when it found another name.
Ensure2(j) ==
    /\ job[j].at = "ensure"
    /\ \E got \in {LocalModel, Alias, ApiModel} :
         /\ Found(job[j].model, got)
         /\ job' = [job EXCEPT ![j] = IF got = job[j].model THEN JobAt("ready")
                                      ELSE Job("note", job[j].shares, job[j].seen, got, job[j].used)]
    /\ UNCHANGED <<current, stateFile, unkept, lost, lock, switch, gateway, client, asked, overlapped, crossed>>
EnsureFails(j) ==
    /\ job[j].at \in {"ensure", "note"} /\ Trouble /\ job' = [job EXCEPT ![j] = JobAt("refused")]
    /\ UNCHANGED <<current, stateFile, unkept, lost, lock, switch, installed, gateway, client, asked, overlapped, crossed>>

(* set_active_model, if the state the request took names another model. *)
Took(j) == IF job[j].shares THEN Endpoint(current) ELSE job[j].seen
Note(j) ==
    /\ job[j].at = "note"
    /\ IF Took(j).model # job[j].model
       THEN /\ current' = State(current.runtime, job[j].model, current.flags)
            /\ \/ Kept /\ job' = [job EXCEPT ![j] = JobAt("ready")]
               \/ Loses /\ job' = [job EXCEPT ![j] = JobAt("refused")]
            /\ crossed' = (crossed \/ current.runtime # Took(j).runtime)
       ELSE job' = [job EXCEPT ![j] = JobAt("ready")] /\ UNCHANGED <<current, stateFile, unkept, lost, crossed>>
    /\ UNCHANGED <<lock, switch, installed, gateway, client, trouble, asked, overlapped>>

RunBegins(j) ==
    /\ job[j].at = "ready"
    /\ job' = [job EXCEPT ![j] = Job("running", FALSE, NoClient, "none", client[AgentOf[j]])]
    /\ UNCHANGED <<current, stateFile, unkept, lost, lock, switch, installed, gateway, client, trouble, asked, overlapped, crossed>>
RunEnds(j) ==
    /\ job[j].at = "running" /\ job' = [job EXCEPT ![j] = JobAt("over")]
    /\ UNCHANGED <<current, stateFile, unkept, lost, lock, switch, installed, gateway, client, trouble, asked, overlapped, crossed>>

RuntimeNext ==
    \/ \E s \in Switches : \/ Request(s) \/ Acquire(s) \/ Begin(s) \/ GatewayReady(s)
                           \/ CommitLocal(s) \/ CommitApi(s) \/ Succeed(s)
                           \/ AttemptFails(s) \/ Reported(s) \/ Unreported(s) \/ RolledBack(s)
    \/ GatewayAnswers \/ \E f \in Flags : SetFlags(f)
    \/ \E j \in Jobs : \/ Prepare(j) \/ Ensure2(j) \/ EnsureFails(j) \/ Note(j)
                       \/ RunBegins(j) \/ RunEnds(j)
RuntimeSpec == RuntimeInit /\ [][RuntimeNext]_runtimeVars

\* What the event loop runs when it is ready; gateway polls, pulls and runs
\* come to an end.
SwitchStep(s) ==
    \/ Acquire(s) \/ Begin(s) \/ GatewayReady(s) \/ CommitLocal(s) \/ CommitApi(s)
    \/ Succeed(s) \/ Reported(s) \/ RolledBack(s)
JobStep(j) == Prepare(j) \/ Ensure2(j) \/ Note(j) \/ RunBegins(j) \/ RunEnds(j)

-----------------------------------------------------------------------------
RuntimeTypeOK ==
    /\ lock \in Switches \union {"none"} /\ trouble \in 0 .. MaxTrouble
    /\ lost \in 0 .. MaxTrouble /\ unkept \in BOOLEAN
    /\ current.runtime \in Runtimes /\ current.flags \in Flags
    /\ \A j \in Jobs : job[j].shares => job[j].at \in {"ensure", "note"}
    /\ \A s \in Switches : switch[s].attempt \in 0 .. 2

(* One switch at a time is past the lock, and the lock is never left behind. *)
OneSwitch ==
    \A s \in Switches : (switch[s].at \in Attempt2 \union {"failing", "rolledback"}) <=> lock = s

(* What a restart would load is the state in use, unless it could not be
   written (runtime_manager.py _persist_state). *)
StateKept == ~unkept => stateFile = current

(* The runtime's model is one that the runtime serves, now and after a
   restart, unless a request noted its model after the runtime had changed
   under it. *)
ModelFits ==
    ~crossed => \A state \in {current, stateFile} : state.runtime = "api" <=> state.model = ApiModel

(* The flags in use are those last asked for, unless they were set during a
   switch, which goes back to the flags it started with. *)
FlagsKept == ~overlapped => current.flags = asked

(* While an agent runs, the endpoint it calls is not exchanged (agent.py
   configure_runtime, H-6). *)
ClientStable == \A j \in Jobs : job[j].at = "running" => client[AgentOf[j]] = job[j].used

(* All of it: one switch at a time, a file that holds the state in use unless writing it failed, a
   model its runtime serves, the flags last asked for, and no running agent
   pointed elsewhere (runtime_manager.py, agent.py). *)
RuntimeSound == RuntimeTypeOK /\ OneSwitch /\ StateKept /\ ModelFits /\ FlagsKept /\ ClientStable

(* At rest: no requested switch is under way, and every request has been
   served or refused. *)
RuntimeQuiet ==
    /\ \A s \in Switches : switch[s].at \in {"idle", "done", "failed", "broken"}
    /\ \A j \in Jobs : job[j].at \in {"over", "refused"}
=============================================================================

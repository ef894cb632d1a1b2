----------------------------- MODULE ToolInvoke -----------------------------
(***************************************************************************)
(* How agent.py runs one tool call: the policy that says which tools are    *)
(* allowed, from the layers of tool_policy_service.py through the agent's   *)
(* adapter to the set a run uses, the retries of _run_tool_with_policy      *)
(* around threads that cannot be stopped, the registration of MCP tools,    *)
(* and the connection of services/mcp_bridge.py that concurrent calls       *)
(* share.  The four groups have variables and a next-state relation of      *)
(* their own.  Left out: the shape of arguments and results, the check of   *)
(* an MCP server's command line, the HTTP transports, which keep no stream. *)
(***************************************************************************)
EXTENDS Naturals, FiniteSets, SequencesExt

CONSTANTS
    Catalog,        \* tools the registry knows
    Vision,         \* the tool that vision_enabled switches
    Nameable,       \* TOOL_NAMES: the tools that are known by name, without those of MCP
    Wishes,         \* lists a request may name: sets of names, known or not, {} for none
    Denials,        \* lists it may deny
    Overrides,      \* what it may say for the agent that is chosen: [allow, deny, also]
    Agents,         \* agents: [spawns, flow, readOnly, deny, plusAllow, plusDeny]
    NoList,         \* model value: a list that is not given
    ConfigAllow, ConfigDeny,   \* agent_tools_allow and agent_tools_deny
    Kinds,          \* of tools: [class, retries, threaded, shell]
    Servers,        \* MCP servers, in the order they are initialized
    Requests,       \* runs that make sure the tools are registered
    McpCalls,       \* concurrent calls of one MCP server's tools
    MaxLinks        \* bound: connections made to that server

CallAttempts == 3   \* of McpBridge.call_tool
Nobody == "none"    \* holds a lock

ASSUME ToolInvokeAssumption ==
    /\ Vision \in Catalog /\ {} \in Denials
    /\ \A k \in Kinds : k.class \in {"none", "timeout", "transient"} /\ k.retries \in Nat
    /\ Servers \in Seq(ToSet(Servers)) \ {<<>>} /\ IsInjective(Servers) /\ MaxLinks \in Nat \ {0}
    /\ Nobody \notin Requests /\ Nobody \notin McpCalls

-----------------------------------------------------------------------------
(* resolve_tool_policy, the adapter of the agent, and                      *)
(* _resolve_effective_allowed_tools.  A policy is [allow, deny, also]; the *)
(* functions drop a list that is empty, so {} stands for a list not given. *)
(* Names are in their canonical spelling.                                  *)

VARIABLE wish   \* the policy of a request, how it came, its agent, and the vision setting
policyVars == <<wish>>

Policy(allow, deny, also) == [allow |-> allow, deny |-> deny, also |-> also]
Nothing == Policy({}, {}, {})
Known(list) == list \cap Catalog

ReadTools == {"read_file", "file_search", "grep_search", "list_code_usages", "list_dir",
              "get_changed_files", "web_search", "web_fetch"}
BackgroundTools == {"start_background_command", "kill_background_process"}
WriteTools == {"write_file", "apply_patch", "run_command"} \union BackgroundTools
Presets == [p \in {"none", "research", "review"} |->
    IF p = "none" THEN Nothing
    ELSE Policy(ReadTools, WriteTools \union {"http_request", "spawn_subrun"}, {})]
RuntimeDeny == [r \in {"local", "api"} |-> IF r = "api" THEN BackgroundTools ELSE {}]
ModelDeny == [m \in {"any", "minimax-m2:cloud"} |-> IF m = "any" THEN {} ELSE BackgroundTools]

(* What a client on the WebSocket may not add (the handler's list). *)
NeverAdded == WriteTools \union {"code_execute"}
Added(w) == (IF w.socket THEN w.also \ NeverAdded ELSE w.also) \cap Nameable

\* A run below a subrun does not delegate, nor does an agent not made for it.
DepthDeny(w) == IF w.depth >= 2 \/ ~w.agent.spawns THEN {"spawn_subrun"} ELSE {}

(* merge_tool_policy over the layers: what any layer allows or denies. *)
Given(list) == IF list = NoList THEN {} ELSE list
Layered(w) == Policy(
    Given(ConfigAllow) \union Presets[w.preset].allow \union w.allow,
    ConfigDeny \union Presets[w.preset].deny \union RuntimeDeny[w.runtime] \union ModelDeny[w.model]
        \union DepthDeny(w) \union w.deny,
    {})

(* _apply_agent_override_precedence: what the override names, it decides;
   then what the request adds takes the place of what the override adds. *)
Named(w) == w.override.allow \union w.override.deny
Overridden(w) ==
    IF w.override = Nothing THEN Layered(w)
    ELSE Policy((Layered(w).allow \ Named(w)) \union w.override.allow,
                (Layered(w).deny \ Named(w)) \union w.override.deny,
                w.override.also)
Resolved(w) == IF Added(w) = {} THEN Overridden(w) ELSE Policy(Overridden(w).allow, Overridden(w).deny, Added(w))

(* _merge_custom_tool_policy and normalize_tool_policy of the adapter. *)
WithOwn(w) ==
    IF w.agent.flow THEN Policy(Resolved(w).allow \union w.agent.plusAllow, Resolved(w).deny \union w.agent.plusDeny, {})
    ELSE Resolved(w)
ForAgent(w) ==
    IF w.agent.readOnly THEN Policy(WithOwn(w).allow, WithOwn(w).deny \union w.agent.deny, {})
    ELSE IF w.agent.deny # {} THEN Policy({}, WithOwn(w).deny \union w.agent.deny, {})
    ELSE WithOwn(w)

\* An allow list that names only unknown tools is ignored.
Narrowed(base, list) == IF list = NoList THEN base ELSE base \cap Known(list)
Requested(base, list) == IF Known(list) = {} THEN base ELSE base \cap Known(list)
Denied(policy) == Known(ConfigDeny) \union Known(policy.deny)
Allowed(w) ==
    LET base == Narrowed(IF w.vision THEN Catalog ELSE Catalog \ {Vision}, ConfigAllow)
        policy == ForAgent(w)
    IN (Requested(base, policy.allow) \union Known(policy.also)) \ Denied(policy)

Wish(allow, deny, also, override, agent, preset, runtime, model, depth, socket, vision) ==
    [allow |-> allow, deny |-> deny, also |-> also, override |-> override, agent |-> agent, preset |-> preset,
     runtime |-> runtime, model |-> model, depth |-> depth, socket |-> socket, vision |-> vision]
NoWish(agent) == Wish({}, {}, {}, Nothing, agent, "none", "local", "any", 0, TRUE, TRUE)
PolicyInit == \E a \in Agents : wish = NoWish(a)

(* A request comes with a policy, over the socket or as a run of the API, or
   as a subrun, which adds nothing. *)
PolicyNext ==
    /\ wish = NoWish(wish.agent)
    /\ \E allow \in Wishes, deny, also \in Denials, override \in Overrides, preset \in DOMAIN Presets,
         runtime \in DOMAIN RuntimeDeny, model \in DOMAIN ModelDeny, depth \in 0..2, socket, vision \in BOOLEAN :
         /\ depth > 0 => also = {} /\ ~socket
         /\ wish' = Wish(allow, deny, also, override, wish.agent, preset, runtime, model, depth, socket, vision)
PolicySpec == PolicyInit /\ [][PolicyNext]_policyVars

-----------------------------------------------------------------------------
(* _run_tool_with_policy.                                                  *)

VARIABLES
    pc,         \* "ready", "runs", "asks", "reruns", "pauses", "ok", "error", "raw", "cut"
    tool,       \* [class, retries, threaded, shell]
    attempt,
    begun,      \* history: executions begun
    stray,      \* threads of given-up executions that still run
    spared,     \* history: errors that were not to be retried
    granted     \* approvals of the user that no execution has used
invokeVars == <<pc, tool, attempt, begun, stray, spared, granted>>

Attempts == tool.retries + 1

InvokeInit ==
    /\ pc = "ready" /\ tool \in Kinds /\ attempt = 1 /\ begun = 0 /\ stray = 0 /\ spared = 0
    /\ granted = 0

Begin ==
    /\ pc = "ready" /\ pc' = "runs" /\ begun' = begun + 1
    /\ UNCHANGED <<tool, attempt, stray, spared, granted>>

Return ==
    /\ pc \in {"runs", "reruns"} /\ pc' = "ok"
    /\ UNCHANGED <<tool, attempt, begun, stray, spared, granted>>

\* A threaded tool goes on after its caller gave up.
Strays == stray' = IF tool.threaded THEN stray + 1 ELSE stray

TimesOut ==
    /\ pc = "runs" /\ Strays
    /\ pc' = IF attempt < Attempts /\ tool.class \in {"timeout", "transient"} THEN "pauses" ELSE "error"
    /\ UNCHANGED <<tool, attempt, begun, spared, granted>>

(* ToolRetryStrategy.decide, as it is called here. *)
Retries(err) ==
    /\ tool.class # "none"
    /\ <<err, tool.class>> \in {"transient"} \X {"timeout", "transient"} \union {<<"exhausted", "transient">>, <<"slow", "timeout">>}
AfterError(err) ==
    /\ pc' = IF attempt < Attempts /\ Retries(err) THEN "pauses" ELSE "error"
    /\ spared' = IF err = "fatal" THEN spared + 1 ELSE spared

(* A shell command outside the policy is put to the user first. *)
Err(err) ==
    /\ pc = "runs"
    /\ IF err = "unsupported" /\ tool.shell THEN pc' = "asks" /\ UNCHANGED spared ELSE AfterError(err)
    /\ UNCHANGED <<tool, attempt, begun, stray, granted>>
Approve ==
    /\ pc = "asks" /\ pc' = "reruns" /\ begun' = begun + 1 /\ granted' = granted + 1
    /\ UNCHANGED <<tool, attempt, stray, spared>>
Decline ==
    /\ pc = "asks" /\ AfterError("unsupported")
    /\ UNCHANGED <<tool, attempt, begun, stray, granted>>

(* The approved run is made within the handler of the first one's error: its
   own error, or the bare timeout, is not retried. *)
RerunFails ==
    /\ pc = "reruns"
    /\ \/ pc' = "error" /\ UNCHANGED stray
       \/ pc' = "raw" /\ Strays
    /\ UNCHANGED <<tool, attempt, begun, spared, granted>>

PauseEnds ==
    /\ pc = "pauses" /\ pc' = "ready" /\ attempt' = attempt + 1
    /\ UNCHANGED <<tool, begun, stray, spared, granted>>

(* Any other exception, such as that of an MCP call, is not caught. *)
Escapes ==
    /\ pc \in {"runs", "reruns"} /\ pc' = "raw"
    /\ UNCHANGED <<tool, attempt, begun, stray, spared, granted>>

CutInvoke ==
    /\ pc \in {"runs", "asks", "reruns", "pauses"} /\ pc' = "cut"
    /\ IF pc \in {"runs", "reruns"} THEN Strays ELSE UNCHANGED stray
    /\ UNCHANGED <<tool, attempt, begun, spared, granted>>
StrayEnds ==
    /\ stray > 0 /\ stray' = stray - 1
    /\ UNCHANGED <<pc, tool, attempt, begun, spared, granted>>

Errors == {"transient", "exhausted", "slow", "unsupported", "fatal"}
InvokeStep ==
    Begin \/ Return \/ TimesOut \/ (\E e \in Errors : Err(e)) \/ Approve \/ Decline \/ RerunFails \/ Escapes
    \/ PauseEnds \/ StrayEnds
InvokeNext == InvokeStep \/ CutInvoke
InvokeSpec == InvokeInit /\ [][InvokeNext]_invokeVars

-----------------------------------------------------------------------------
(* _ensure_mcp_tools_registered and McpBridge.initialize.                  *)

VARIABLES
    ready,      \* _mcp_initialized
    initLock,   \* holder of _mcp_init_lock, or Nobody
    joined,     \* _connections: servers in the order they were connected
    found,      \* servers whose tools were discovered
    offered,    \* servers whose tools are in the registry
    place       \* of each request: "new", "linking", "listing", "telling", "done", "cut"
mcpInitVars == <<ready, initLock, joined, found, offered, place>>

McpInitInit ==
    /\ ready = FALSE /\ initLock = Nobody /\ joined = <<>> /\ found = {} /\ offered = {}
    /\ place = [r \in Requests |-> "new"]

Offer == ready' = TRUE /\ offered' = found'
Goes(r, to) == place' = [place EXCEPT ![r] = to]

(* Registered tools are used without the lock.  Connections that an earlier
   request left behind are taken as they are. *)
EnsureDone(r) ==
    /\ place[r] = "new" /\ ready /\ Goes(r, "done")
    /\ UNCHANGED <<ready, initLock, joined, found, offered>>
Ensure(r) ==
    /\ place[r] = "new" /\ ~ready /\ initLock = Nobody
    /\ initLock' = r /\ UNCHANGED joined
    /\ \/ joined = <<>> /\ found' = {} /\ Goes(r, "linking") /\ UNCHANGED <<ready, offered>>
       \/ joined # <<>> /\ found' = found /\ Goes(r, "telling") /\ Offer

(* initialize connects to a server and lists its tools, one after the other. *)
Connect(r) ==
    /\ place[r] = "linking" /\ joined' = Append(joined, Servers[Len(joined) + 1])
    /\ Goes(r, "listing") /\ UNCHANGED <<ready, initLock, found, offered>>
ListTools(r) ==
    /\ place[r] = "listing" /\ found' = found \union {Last(joined)}
    /\ IF Len(joined) < Len(Servers) THEN Goes(r, "linking") /\ UNCHANGED <<ready, offered>>
       ELSE Goes(r, "telling") /\ Offer
    /\ UNCHANGED <<initLock, joined>>
Told(r) ==
    /\ place[r] = "telling" /\ Goes(r, "done") /\ initLock' = Nobody
    /\ UNCHANGED <<ready, joined, found, offered>>

(* A server cannot be reached, does not list its tools, or the client cannot
   be told; the next request tries again.  Or the request is cancelled. *)
InitFails(r) ==
    /\ place[r] \in {"linking", "listing", "telling"} /\ initLock' = Nobody
    /\ \/ Goes(r, "done") /\ ready' = FALSE
       \/ Goes(r, "cut") /\ UNCHANGED ready
    /\ UNCHANGED <<joined, found, offered>>

McpInitStep ==
    \E r \in Requests :
        EnsureDone(r) \/ Ensure(r) \/ Connect(r) \/ ListTools(r) \/ Told(r) \/ InitFails(r)
McpInitNext == McpInitStep
McpInitSpec == McpInitInit /\ [][McpInitNext]_mcpInitVars

-----------------------------------------------------------------------------
(* StdioMcpConnection and McpBridge.call_tool: calls that share one stream. *)

VARIABLES
    link,       \* the bridge's connection: its number
    links,      \* [number -> [alive, next, holder, asked, pipe]]
    call        \* of each call: [at, link, attempt, id, got]
mcpVars == <<link, links, call>>

Stream(alive, next, holder, asked, pipe) ==
    [alive |-> alive, next |-> next, holder |-> holder, asked |-> asked, pipe |-> pipe]
NewLink == Stream(TRUE, 1, Nobody, <<>>, <<>>)
McpCall(at, l, n, id, got) == [at |-> at, link |-> l, attempt |-> n, id |-> id, got |-> got]
McpInit ==
    /\ link = 1 /\ links = <<NewLink>>
    /\ call = [c \in McpCalls |-> McpCall("new", 1, 1, 0, <<>>)]

Becomes(c, next) == call' = [call EXCEPT ![c] = next]
Moves(c, where) == Becomes(c, McpCall(where, call[c].link, call[c].attempt, call[c].id, call[c].got))
LinkOf(c) == links[call[c].link]
With(k, stream) == [links EXCEPT ![k] = stream]

(* _rpc_call: an id is drawn, then the stream's lock is waited for. *)
Draw(c) ==
    /\ call[c].at \in {"new", "again"}
    /\ LET k == IF call[c].at = "new" THEN link ELSE call[c].link
           l == links[k]
       IN /\ Becomes(c, McpCall("queued", k, call[c].attempt, l.next, call[c].got))
          /\ links' = With(k, Stream(l.alive, l.next + 1, l.holder, l.asked, l.pipe))
    /\ UNCHANGED link
Send(c) ==
    /\ call[c].at = "queued" /\ LinkOf(c).holder = Nobody /\ LinkOf(c).alive
    /\ LET l == LinkOf(c)
       IN links' = With(call[c].link, Stream(TRUE, l.next, c, Append(l.asked, call[c].id), l.pipe))
    /\ Moves(c, "reads") /\ UNCHANGED link
ServerAnswers(k) ==
    /\ links[k].alive /\ links[k].asked # <<>>
    /\ LET l == links[k]
       IN links' = With(k, Stream(TRUE, l.next, l.holder, Tail(l.asked), Append(l.pipe, Head(l.asked))))
    /\ UNCHANGED <<link, call>>
Dead(k) == With(k, Stream(FALSE, links[k].next, links[k].holder, <<>>, links[k].pipe))
ServerDies(k) ==
    /\ links[k].alive /\ links' = Dead(k)
    /\ UNCHANGED <<link, call>>

\* The lock is released however the call leaves the stream, which has pipe left.
Left(c) == IF LinkOf(c).holder = c THEN Nobody ELSE LinkOf(c).holder
Releases(c, pipe) ==
    LET l == LinkOf(c) IN links' = With(call[c].link, Stream(l.alive, l.next, Left(c), l.asked, pipe))

ReceivesAny(c) ==
    /\ call[c].at = "reads" /\ LinkOf(c).pipe # <<>>
    /\ Releases(c, Tail(LinkOf(c).pipe)) /\ UNCHANGED link
    /\ Becomes(c, McpCall("answered", call[c].link, call[c].attempt, call[c].id, <<call[c].link, Head(LinkOf(c).pipe)>>))

(* The first message with an id ends the wait: it is the answer, or the
   answer to an earlier call that gave up. *)
Receives(c) ==
    /\ call[c].at = "reads" /\ LinkOf(c).pipe # <<>>
    /\ Releases(c, Tail(LinkOf(c).pipe)) /\ UNCHANGED link
    /\ LET id == Head(LinkOf(c).pipe)
       IN Becomes(c, McpCall(IF id = call[c].id THEN "answered" ELSE "failed", call[c].link, call[c].attempt,
                             call[c].id, <<call[c].link, id>>))

(* The stream has ended, the server answers with an error, or 30 seconds
   have passed: the attempt has failed.  What cannot be parsed ends the call. *)
AttemptFails(c) ==
    /\ call[c].at \in {"queued", "reads"} /\ Releases(c, LinkOf(c).pipe) /\ UNCHANGED link
    /\ Moves(c, "failed") \/ (call[c].at = "reads" /\ Moves(c, "error"))

(* The connection is closed, also for calls that use it, and a new one takes
   its place; a failed reconnect keeps the old. *)
Again(c, k) == Becomes(c, McpCall("again", k, call[c].attempt + 1, call[c].id, call[c].got))
Reconnect(c) ==
    /\ call[c].at = "failed" /\ call[c].attempt < CallAttempts
    /\ \/ /\ Len(links) < MaxLinks
          /\ links' = Append(Dead(call[c].link), NewLink) /\ link' = Len(links) + 1
          /\ Again(c, Len(links) + 1)
       \/ links' = Dead(call[c].link) /\ Again(c, call[c].link) /\ UNCHANGED link
GiveUpLater(c) ==
    /\ call[c].at = "failed" /\ call[c].attempt > CallAttempts
    /\ Moves(c, "error") /\ UNCHANGED <<link, links>>

GiveUp(c) ==
    /\ call[c].at = "failed" /\ call[c].attempt >= CallAttempts
    /\ Moves(c, "error") /\ UNCHANGED <<link, links>>

(* The agent's own timeout cancels the call. *)
CutCall(c) ==
    /\ call[c].at \in {"queued", "reads", "failed", "again"}
    /\ Releases(c, LinkOf(c).pipe) /\ Moves(c, "cut") /\ UNCHANGED link

McpCallStep(c) ==
    Draw(c) \/ Send(c) \/ Receives(c) \/ AttemptFails(c) \/ Reconnect(c) \/ GiveUp(c)
McpNext ==
    \/ \E c \in McpCalls : McpCallStep(c) \/ CutCall(c)
    \/ \E k \in DOMAIN links : ServerAnswers(k) \/ ServerDies(k)
McpSpec == McpInit /\ [][McpNext]_mcpVars

-----------------------------------------------------------------------------
InvokeQuiet == pc \in {"ok", "error", "raw", "cut"} /\ stray = 0
McpQuiet == \A c \in McpCalls : call[c].at \in {"new", "answered", "error", "cut"}
McpInitQuiet == initLock = Nobody

ToolInvokeTypeOK ==
    /\ pc \in {"ready", "runs", "asks", "reruns", "pauses", "ok", "error", "raw", "cut"}
    /\ attempt \in 1..Attempts /\ stray \in Nat
    /\ ToSet(joined) \subseteq ToSet(Servers) /\ offered \subseteq ToSet(Servers)
    /\ link \in DOMAIN links /\ \A c \in McpCalls : call[c].link \in DOMAIN links

DenyingToo(w, d) == Wish(w.allow, w.deny \union d, w.also, w.override, w.agent, w.preset, w.runtime, w.model,
                         w.depth, w.socket, w.vision)

(* Whatever the layers, the override, the agent and the request say together:
   what the settings deny or a read-only agent must not do is never allowed;
   what any layer denies, the rule of depth included, is allowed only if the
   override for that agent allows it; what the settings' allow list leaves
   out, only if it is added by name, over the socket none of the tools that
   may not be; and a request that denies more is never allowed more. *)
DenialsHold ==
    /\ Allowed(wish) \subseteq Catalog \ (ConfigDeny \union wish.agent.deny)
    /\ Allowed(wish) \cap Layered(wish).deny \subseteq wish.override.allow
    /\ \A t \in Allowed(wish) \ Narrowed(Catalog, ConfigAllow) :
         \/ t \in wish.override.also
         \/ t \in wish.also /\ (wish.socket => t \notin NeverAdded)
    /\ \A d \in Denials : Allowed(DenyingToo(wish, d)) \subseteq Allowed(wish)

(* However errors, timeouts and approvals mix, a call executes its tool at
   most once per attempt and once more for an approval, never after an error
   that is not to be retried, and leaves at most that many threads behind. *)
AttemptsBounded ==
    /\ begun <= Attempts + granted /\ granted <= 1 /\ stray <= begun
    /\ spared <= 1 /\ (spared = 1 => pc = "error")

(* The registry offers exactly the tools that were discovered, no server is
   connected twice, and the lock is free when nobody initializes. *)
RegistrationSound ==
    /\ ready => offered = found
    /\ found \subseteq ToSet(joined) /\ IsInjective(joined)
    /\ \A r \in Requests : place[r] \in {"linking", "listing", "telling"} <=> initLock = r

(* A call is answered with the answer to its own request, also when the
   stream still holds answers to calls that gave up; the lock of a stream is
   held by the call that reads it. *)
StreamsSound ==
    /\ \A c \in McpCalls : call[c].at = "answered" => call[c].got = <<call[c].link, call[c].id>>
    /\ \A k \in DOMAIN links : links[k].holder # Nobody =>
         call[links[k].holder].at = "reads" /\ call[links[k].holder].link = k
    /\ \A c \in McpCalls : call[c].at = "reads" => LinkOf(c).holder = c

(* Tool calls keep to the policy, the retries, and their own answers. *)
ToolInvokeSound == ToolInvokeTypeOK /\ DenialsHold /\ AttemptsBounded /\ RegistrationSound /\ StreamsSound
=============================================================================

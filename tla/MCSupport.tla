------------------------------ MODULE MCSupport ------------------------------
(***************************************************************************)
(* More components that share no state, checked side by side in one run as  *)
(* in MCServices: "part" names the one a behaviour is about.                *)
(***************************************************************************)
EXTENDS ToolCalls, BrowserPool, Recovery, Coordination

CONSTANT Parts
VARIABLE part

(* ToolLoop: a ping-pong, a repeated source with an unknown tool between,
   and reads mixed with writes. *)
Do(t, a) == [tool |-> t, args |-> a]
SomeSelections == {<<>>,
    <<Do("read", "x"), Do("shell", "x"), Do("read", "x"), Do("shell", "x"), Do("read", "x")>>,
    <<Do("web", "x"), Do("ghost", "x"), Do("write", "x"), Do("web", "x")>>,
    <<Do("read", "x"), Do("read", "y"), Do("write", "x"), Do("read", "x"), Do("write", "x")>>}
Extra == Do("web", "x")

(* Recovery: a route of two models and a configured order with an unknown
   and a repeated strategy. *)
Route == <<"m1", "m2">>
Scores == [m \in {"m1", "m2"} |-> IF m = "m2" THEN 2 ELSE 1]
Costs == [m \in {"m1", "m2"} |-> IF m = "m1" THEN 2 ELSE 1]
SomeOrders == [r \in {"context_overflow", "truncation_required"} |->
    IF r = "context_overflow" THEN <<>> ELSE <<"payload_truncation", "ghost", "payload_truncation">>]
Budgets == [s \in Strategies |-> IF s = "overflow_fallback_retry" THEN 2 ELSE 1]

(* Coordination: a specialist that is full with one task, a reviewer, and a
   generalist. *)
Team == <<"coder", "reviewer", "general">>
Skills == [a \in ToSet(Team) |-> [j \in {"t1", "t2"} |->
    IF a = "coder" THEN 100 ELSE IF a = "general" /\ j = "t1" THEN 50 ELSE 0]]
Reports == [j \in {"t1", "t2"} |-> IF j = "t1" THEN 2 ELSE 1]
Rooms == [a \in ToSet(Team) |-> IF a = "coder" THEN 1 ELSE 2]

(* ToolInvoke: overrides that allow what the depth denies, deny what is
   allowed, and add; an agent that delegates, one of a custom workflow, a
   read-only one and one that denies what it likes. *)
SomeOverrides == {Policy({}, {}, {}), Policy({"spawn_subrun"}, {}, {}), Policy({}, {"read_file", "spawn_subrun"}, {}),
                  Policy({"run_command"}, {}, {"mcp_tool"})}
Adapter(spawns, flow, readOnly, deny, plus) ==
    [spawns |-> spawns, flow |-> flow, readOnly |-> readOnly, deny |-> deny, plusAllow |-> plus, plusDeny |-> {}]
SomeAgents == {Adapter(TRUE, FALSE, FALSE, {}, {}), Adapter(FALSE, TRUE, FALSE, {}, {"analyze_image"}),
               Adapter(FALSE, FALSE, TRUE, {"run_command"}, {}), Adapter(FALSE, FALSE, FALSE, {"spawn_subrun"}, {})}

(* And a shell command, a threaded read that is retried and a slow
   one that is not. *)
ToolKind(class, tries, threaded, shell) ==
    [class |-> class, retries |-> tries, threaded |-> threaded, shell |-> shell]
SomeKinds == {ToolKind("timeout", 2, TRUE, TRUE), ToolKind("transient", 1, TRUE, FALSE),
              ToolKind("none", 1, FALSE, FALSE)}
TwoServers == <<"s1", "s2">>

-----------------------------------------------------------------------------
vars == <<part, toolVars, recoveryVars, supervisorVars, routerVars, ballot,
          policyVars, invokeVars, mcpInitVars, mcpVars, poolVars>>

Init ==
    /\ part \in Parts
    /\ ToolInit /\ RecoveryInit /\ SupervisorInit /\ RouterInit /\ BallotInit
    /\ PolicyInit /\ InvokeInit /\ McpInitInit /\ McpInit /\ PoolInit
    /\ part # "tools" => parallel = TRUE
    /\ part # "invoke" => tool = CHOOSE k \in Kinds : TRUE
    /\ part # "policy" => wish.agent = CHOOSE a \in Agents : TRUE

Next ==
    /\ UNCHANGED part
    /\ IF part = "tools" THEN ToolNext ELSE UNCHANGED toolVars
    /\ IF part = "recovery" THEN RecoveryNext ELSE UNCHANGED recoveryVars
    /\ IF part = "supervisor" THEN SupervisorNext ELSE UNCHANGED supervisorVars
    /\ IF part = "router" THEN RouterNext ELSE UNCHANGED routerVars
    /\ IF part = "ballot" THEN BallotNext ELSE UNCHANGED ballot
    /\ IF part = "policy" THEN PolicyNext ELSE UNCHANGED policyVars
    /\ IF part = "invoke" THEN InvokeNext ELSE UNCHANGED invokeVars
    /\ IF part = "register" THEN McpInitNext ELSE UNCHANGED mcpInitVars
    /\ IF part = "mcp" THEN McpNext ELSE UNCHANGED mcpVars
    /\ IF part = "browser" THEN PoolNext ELSE UNCHANGED poolVars

(* The fairness of each component, while it is the one that runs. *)
FairSpec ==
    /\ Init /\ [][Next]_vars
    /\ WF_toolVars(part = "tools" /\ ToolStep)
    /\ WF_invokeVars(part = "invoke" /\ InvokeStep)
    /\ WF_mcpInitVars(part = "register" /\ McpInitStep)
    /\ \A c \in McpCalls : WF_mcpVars(part = "mcp" /\ McpCallStep(c))
    /\ \A u \in Users : WF_poolVars(part = "browser" /\ UserStep(u))
    /\ \A k \in Closers : WF_poolVars(part = "browser" /\ CloseEntry(k))
    /\ WF_poolVars(part = "browser" /\ ShutStep)
    /\ WF_recoveryVars(part = "recovery" /\ RecoveryStep)

(* Under the fairness of an event loop every component comes to rest again
   and again. *)
SupportSettles ==
    []<>(/\ part = "tools" => ToolQuiet
         /\ part = "invoke" => InvokeQuiet
         /\ part = "register" => McpInitQuiet
         /\ part = "mcp" => McpQuiet
         /\ part = "browser" => PoolQuiet
         /\ part = "recovery" => RecoveryQuiet)
=============================================================================

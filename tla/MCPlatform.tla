------------------------------ MODULE MCPlatform ------------------------------
(***************************************************************************)
(* The stores, settings, clients and hosts around the core, checked side   *)
(* by side in one run as in MCServices: "part" names the one a behaviour   *)
(* is about.                                                               *)
(***************************************************************************)
EXTENDS SessionStore, AgentCatalog, Serving, RuntimeSwitch, ToolContracts

CONSTANT Parts

(* SessionStore: two spellings of one session, and calls that are answered,
   not answered, and answered twice. *)
Cleaned == [s \in {"s1", "s/1"} |-> "s1"]
Item(role, calls, answers) == [role |-> role, calls |-> calls, answers |-> answers]
SomeItems == {Item("user", {}, {}), Item("assistant", {}, {}), Item("assistant", {"x", "y"}, {}),
              Item("tool", {}, {"x"}), Item("plan", {}, {})}

(* AgentCatalog: the primary agent, a read-only specialist with a floor, one
   custom agent in two spellings and one that is spelt like the specialist;
   routing among five. *)
Listing == [i \in {"head-agent", "security-agent", "mine", "Mine", "Security-Agent"} |->
    CASE i = "Mine" -> 1 [] i = "Security-Agent" -> 2 [] i = "head-agent" -> 3 [] i = "mine" -> 4 [] OTHER -> 5]
Spelt == [i \in DOMAIN Listing |-> CASE i = "Mine" -> "mine" [] i = "Security-Agent" -> "security-agent" [] OTHER -> i]
Floor == [b \in {"head-agent", "security-agent"} |-> IF b = "head-agent" THEN {} ELSE {"write"}]
Required2 == [t \in {"review", "code", "docs"} |->
    CASE t = "review" -> {"review_analysis", "quality"} [] t = "code" -> {"code_reasoning", "tooling"}
      [] t = "docs" -> {"documentation"}]
Order == <<"code_reasoning", "review_analysis", "documentation">>
Specialists == [s \in ToSet(Order) |->
    CASE s = "code_reasoning" -> "coder-agent" [] s = "review_analysis" -> "review-agent" [] OTHER -> "doc-agent"]
Offers == [a \in {"head-agent", "coder-agent", "review-agent", "doc-agent"} |->
    CASE a = "head-agent" -> {"general", "tooling"} [] a = "coder-agent" -> {"code_reasoning", "tooling"}
      [] a = "review-agent" -> {"review_analysis", "quality"} [] OTHER -> {"documentation", "code_reasoning"}]
Routed == DOMAIN Offers
Orders == SetToSeqs({"head-agent"} \union Routed) \union {<<"head-agent">> \o s : s \in SetToSeqs(Routed \ {"head-agent", "review-agent"})}

(* Settings: an ordinary setting of two sections and a secret; 3 is another
   spelling of 2. *)
Section2 == [f \in {"limit", "secret", "model"} |-> IF f = "model" THEN "llm" ELSE "core"]
Accepts == [f \in {"limit", "secret", "model"} |-> IF f = "limit" THEN {1, 2} ELSE {1, 2, 3}]
Reads == [f \in {"limit", "secret", "model"} |-> [v \in 1 .. 3 |-> IF v = 3 THEN 2 ELSE v]]
FromEnv == [f \in {"limit", "secret", "model"} |-> 1]
Factory2 == [t \in {"run_command", "web_fetch"} |-> [enabled |-> 1, timeout |-> 2]]

(* RuntimeSwitch: two requests of one agent. *)
AgentOfJob == [j \in {"j1", "j2"} |-> "head-agent"]

(* ModelCalls: a local and an API model, the second dearer. *)
TwoModels == <<"local-model", "api-model">>
Static2 == [m \in ToSet(TwoModels) |-> IF m = "local-model" THEN 7 ELSE 5]

(* Knowledge: two kinds of tasks with a strict and a mild threshold; tools'
   results without brackets, and two of them with an error. *)
Strictness == [t \in {"research", "general"} |-> IF t = "research" THEN 70 ELSE 35]
ToolResults == {<<0, 0>>, <<2, 1>>}

(* ToolOutcomes: an installer tried in two versions that fails or not, another
   tool of its capability, which does not fit into the answer beside it, and a
   tool of no known capability. *)
Provides == [t \in {"t1", "t2", "t3"} |-> IF t = "t2" THEN "none" ELSE "net"]
Decay == [d \in 0 .. 140 |-> IF d < 70 THEN 100 ELSE IF d < 140 THEN 49 ELSE 24]
Install(version, sudo) == [base |-> "pip", version |-> version, installs |-> TRUE, sudo |-> sudo, destroys |-> FALSE]
Outcome(tool, command, ok) ==
    [tool |-> tool, command |-> command, success |-> ok, slow |-> ~ok, pitfall |-> IF ok THEN "none" ELSE "p1"]
SomeOutcomes == {Outcome("t1", Install("1", FALSE), TRUE), Outcome("t1", Install("2", FALSE), FALSE),
                 Outcome("t2", Install("3", TRUE), TRUE),
                 Outcome("t3", Install("1", FALSE), TRUE)}

-----------------------------------------------------------------------------
vars == <<part, memoryVars, docVars, catalogVars, inquiryVars, settingsVars, toolConfigVars, runtimeVars,
          callVars, healthVars, limiterVars, commandVars, sandboxVars, webVars,
          knowledgeVars, verdictVars, outcomeVars, contractVars>>

Init ==
    /\ part \in Parts
    /\ MemoryInit /\ DocsInit /\ CatalogInit /\ InquiryInit
    /\ SettingsInit /\ ToolConfigInit
    /\ RuntimeInit /\ (part = "runtime" \/ \A x \in Switches : switch[x].at # "done")
    /\ IF part = "llm" THEN CallInit ELSE call = NewCall("stream", FALSE)
    /\ HealthInit /\ LimiterInit
    /\ CommandInit
    /\ BoxInit /\ (part = "sandbox" \/ (box.flaws = {} /\ box.strategy = "process"))
    /\ WebInit /\ (part = "web" \/ (fetch.scheme = "other" /\ fetch.host = CHOOSE h \in Hosts : TRUE))
    /\ KnowledgeInit /\ (part = "knowledge" \/ wanted = "off")
    /\ VerdictInit /\ (part = "verdicts" => keeper) /\ (part # "verdicts" => ~keeper)
    /\ OutcomesInit /\ ContractInit

Next ==
    /\ UNCHANGED part
    /\ IF part = "memory" THEN MemoryNext ELSE UNCHANGED memoryVars
    /\ IF part = "sessions" THEN DocsNext ELSE UNCHANGED docVars
    /\ IF part = "catalog" THEN CatalogNext ELSE UNCHANGED catalogVars
    /\ IF part = "inquiry" THEN InquiryNext ELSE UNCHANGED inquiryVars
    /\ IF part = "settings" THEN SettingsNext ELSE UNCHANGED settingsVars
    /\ IF part = "toolconfig" THEN ToolConfigNext ELSE UNCHANGED toolConfigVars
    /\ IF part = "runtime" THEN RuntimeNext ELSE UNCHANGED runtimeVars
    /\ IF part = "llm" THEN CallNext ELSE UNCHANGED callVars
    /\ IF part = "health" THEN HealthNext ELSE UNCHANGED healthVars
    /\ IF part = "limiter" THEN LimiterNext ELSE UNCHANGED limiterVars
    /\ IF part = "commands" THEN CommandNext ELSE UNCHANGED commandVars
    /\ IF part = "sandbox" THEN BoxNext ELSE UNCHANGED sandboxVars
    /\ IF part = "web" THEN WebNext ELSE UNCHANGED webVars
    /\ IF part = "knowledge" THEN KnowledgeNext ELSE UNCHANGED knowledgeVars
    /\ IF part = "verdicts" THEN VerdictNext ELSE UNCHANGED verdictVars
    /\ IF part = "outcomes" THEN OutcomesNext ELSE UNCHANGED outcomeVars
    /\ IF part = "contracts" THEN ContractNext ELSE UNCHANGED contractVars

FairSpec ==
    /\ Init /\ [][Next]_vars
    /\ WF_runtimeVars(part = "runtime" /\ GatewayAnswers)
    /\ \A s \in Switches : WF_runtimeVars(part = "runtime" /\ SwitchStep(s))
    /\ \A j \in Jobs : WF_runtimeVars(part = "runtime" /\ JobStep(j))

(* Switches of the runtime and the requests behind them come to rest again
   and again. *)
PlatformSettles == []<>(part = "runtime" => RuntimeQuiet)
=============================================================================

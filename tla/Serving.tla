------------------------------- MODULE Serving -------------------------------
(***************************************************************************)
(* What serves the runs of agents, side by side: the settings, the calls of *)
(* the language model, the hosts of tools, and what is remembered of runs   *)
(* and of tools.  They share no state; "part" names the one a reader, or a  *)
(* behaviour of the run that checks them, is looking at.                    *)
(***************************************************************************)
EXTENDS Settings, ModelCalls, ToolHost, Knowledge, ToolOutcomes

VARIABLE part

ServingSpec ==
    /\ SettingsSpec /\ ToolConfigSpec
    /\ CallSpec /\ HealthSpec /\ LimiterSpec
    /\ CommandSpec /\ BoxSpec /\ WebSpec
    /\ KnowledgeSpec /\ VerdictSpec /\ OutcomesSpec

(* What serves the runs of agents: settings (config_service.py,
   tool_config_store.py), calls of models (llm_client.py and what picks and
   limits them), commands, sandbox and fetches (tools.py, code_sandbox.py,
   url_validator.py), and what is remembered of runs and of tools
   (long_term_memory.py, reflection_service.py, learning_loop.py). *)
ServingSound ==
    /\ part \in {"settings", "toolconfig"} => SettingsSound
    /\ part \in {"llm", "health", "limiter"} => ModelCallsSound
    /\ part \in {"commands", "sandbox", "web"} => ToolHostSound
    /\ part \in {"knowledge", "verdicts"} => KnowledgeSound
    /\ part = "outcomes" => ToolOutcomesSound
=============================================================================

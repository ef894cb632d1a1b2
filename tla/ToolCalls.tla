------------------------------ MODULE ToolCalls ------------------------------
(***************************************************************************)
(* The tools of an agent: the loop that works off the calls a model        *)
(* selects (ToolLoop), and how each call is admitted, carried out and      *)
(* answered (ToolInvoke).  The two share no state: a call the loop hands   *)
(* to its tool is any call of the second.                                  *)
(***************************************************************************)
EXTENDS ToolLoop, ToolInvoke

(* What the loop makes of the calls, and how each is admitted and carried
   out (tool_execution_manager.py, agent.py). *)
ToolsSound == ToolLoopSound /\ ToolInvokeSound
=============================================================================

-------------------------------- MODULE AgentLoop --------------------------------
(***************************************************************************)
(* One run of the agent (agent_runner.py): the loop of model calls and     *)
(* tool batches with its budgets, the compaction of the conversation       *)
(* (services/compaction_service.py), the plan tracker                      *)
(* (agent_runner_types.py), and what becomes of the answer afterwards:     *)
(* evidence gates, reflection, shaping, verification.                      *)
(*                                                                         *)
(* The model, the user and the tools are external: any batch, verdict and  *)
(* outcome may come.  A text is known by what the gates look for in it:    *)
(* "claim" (of success), "admit" (of a failure), "notice" (a fixed text    *)
(* that admits nothing), "empty".                                          *)
(***************************************************************************)
EXTENDS Naturals, Sequences, FiniteSets, SequencesExt

CONSTANTS
    Batches,        \* the batches of tool calls the model may ask for
    AllowedTools,   \* _allowed_tools_resolver
    Approvable,     \* _APPROVABLE_PROCESS_TOOLS
    Evidence,       \* the tools that count as implementation evidence
    SpawnTools,     \* the tools whose results may name a subrun they started
    NeedsEvidence,  \* is the task an implementation?
    MaxIterations, MaxToolCalls, LoopThreshold, TailKeep,
    PlanSize, MaxReplans,
    MaxReflections, ToolRetry, RetryCalls \* passes; tools in a retry, and model calls of one (3)

ToolNames == UNION {Range(b) : b \in Batches}

ASSUME LoopAssumption ==
    /\ \A b \in Batches : b \in Seq(ToolNames) /\ b # <<>>
    /\ MaxIterations \in Nat \ {0} /\ MaxToolCalls \in Nat /\ LoopThreshold \in Nat \ {0}
    /\ TailKeep \in Nat \ {0} /\ PlanSize \in Nat /\ MaxReplans \in Nat
    /\ MaxReflections \in Nat /\ RetryCalls \in Nat \ {0}
    /\ NeedsEvidence \in BOOLEAN /\ ToolRetry \in BOOLEAN

VARIABLES
    loopPc,
    iteration,
    messages,    \* the conversation: [role, id, size]; the id ties results to their call
    batch,       \* the tool calls under execution
    gathered,    \* is_error of the results so far
    retryAt,     \* model calls of the reflection's tool loop; 0 outside it
    toolCalls,   \* total_tool_calls
    offered,     \* tool_definitions is not None
    exhausted,   \* budget_exhausted
    steered,     \* steer_interrupted
    signatures,  \* tool_call_history
    plan,        \* [steps, at, replans]; no steps while planning is not active
    outcomes,    \* all_tool_results as a set of <<tool, is_error>>
    permitted,   \* effective_allowed_tools
    passes,      \* reflection passes begun
    text,        \* final_text
    finals,      \* the texts of the "final" events
    remembered,  \* the assistant texts in the session's memory
    ran          \* ghost: the calls that reached the tool, as <<tool, ok, tools were offered>>

conversation == <<messages, batch, gathered>>
budgets == <<iteration, toolCalls, offered, exhausted, steered, signatures>>
answerVars == <<text, finals, remembered>>
loopVars == <<loopPc, conversation, budgets, retryAt, plan, outcomes, permitted, passes, answerVars, ran>>

Texts == {"claim", "admit", "notice", "empty"}

LoopTypeOK ==
    /\ loopPc \in {"setup", "top", "call", "tools", "batched", "after", "gates", "reflect",
                   "verdict", "retry", "shape", "final", "remember", "done", "failed"}
    /\ iteration \in 0 .. MaxIterations + 1
    /\ \A i \in DOMAIN messages : messages[i].role \in {"system", "user", "call", "tool"}
    /\ batch \in Batches \cup {<<>>}
    /\ gathered \in Seq(BOOLEAN) /\ Len(gathered) <= Len(batch)
    /\ retryAt \in 0 .. RetryCalls
    /\ toolCalls \in Nat
    /\ <<offered, exhausted, steered>> \in BOOLEAN \X BOOLEAN \X BOOLEAN
    /\ signatures \in Seq(Batches)
    /\ plan.at \in 0 .. PlanSize /\ plan.replans \in 0 .. MaxReplans
    /\ Range(plan.steps) \subseteq {"pending", "in_progress", "completed", "failed"}
    /\ outcomes \subseteq ToolNames \X BOOLEAN
    /\ permitted \subseteq ToolNames \cup AllowedTools
    /\ passes \in 0 .. MaxReflections
    /\ text \in Texts

Message(role) == [role |-> role, id |-> <<>>, size |-> 0]

LoopInit ==
    /\ loopPc = "setup"
    /\ iteration = 0
    /\ messages = <<Message("system"), Message("user")>>
    /\ batch = <<>> /\ gathered = <<>> /\ retryAt = 0
    /\ toolCalls = 0 /\ offered = (AllowedTools # {}) /\ exhausted = FALSE /\ steered = FALSE
    /\ signatures = <<>>
    /\ plan = [steps |-> <<>>, at |-> 0, replans |-> 0]
    /\ outcomes = {} /\ permitted = AllowedTools
    /\ passes = 0
    /\ text = "empty" /\ finals = <<>> /\ remembered = <<>>
    /\ ran = {}

LoopGoes(pc) == loopPc' = pc

-----------------------------------------------------------------------------
(* The loop. *)

(* Guardrails, MCP and memory come first; an error ends the run. *)
SetUp ==
    /\ loopPc = "setup"
    /\ \E pc \in {"top", "failed"} : LoopGoes(pc)
    /\ UNCHANGED <<conversation, budgets, retryAt, plan, outcomes, permitted, passes, answerVars, ran>>

(* The top of the loop: the iterations, the time (its budget may be up at
   any iteration), then a newer message of the user. *)
StartIteration ==
    /\ loopPc = "top" /\ ~exhausted
    /\ iteration' = iteration + 1
    /\ \/ iteration < MaxIterations /\ LoopGoes("call") /\ UNCHANGED <<exhausted, steered>>
       \/ exhausted' = TRUE /\ LoopGoes("after") /\ UNCHANGED steered
       \/ iteration < MaxIterations /\ steered' = TRUE /\ LoopGoes("after") /\ UNCHANGED exhausted
    /\ UNCHANGED <<conversation, toolCalls, offered, signatures, retryAt, plan, outcomes, permitted,
                   passes, answerVars, ran>>

LeaveLoop ==
    /\ loopPc = "top" /\ exhausted
    /\ LoopGoes("after")
    /\ UNCHANGED <<conversation, budgets, retryAt, plan, outcomes, permitted, passes, answerVars, ran>>

(* compact: the system message, a summary, and the last TailKeep messages. *)
Compacted(m) ==
    IF Len(m) <= TailKeep + 2 THEN m
    ELSE <<m[1], Message("user")>> \o SubSeq(m, Len(m) - TailKeep + 1, Len(m))

(* What is sent: the conversation, compacted first if it grew large. *)
Sent == {messages, Compacted(messages)}

CallOf(b, id) == [role |-> "call", id |-> id, size |-> Len(b)]

(* A call id that is not in use. *)
FreshId == <<iteration, passes, retryAt>>

(* On the first answer of a task that was asked to plan. *)
PlanOf(i) ==
    IF i = 1 /\ PlanSize > 0
      THEN {plan, [steps |-> [k \in 1 .. PlanSize |-> IF k = 1 THEN "in_progress" ELSE "pending"],
                   at |-> 0, replans |-> 0]}
      ELSE {plan}

(* "stop" closes the plan: what was not failed is called completed. *)
Closed(p) == [p EXCEPT !.steps = [k \in DOMAIN @ |-> IF @[k] = "failed" THEN "failed" ELSE "completed"]]

(* The model answers with a text. *)
Stop ==
    /\ loopPc = "call"
    /\ messages' \in Sent
    /\ \E p \in PlanOf(iteration) : plan' = Closed(p)
    /\ text' \in {"claim", "admit", "empty"}
    /\ LoopGoes("after")
    /\ UNCHANGED <<batch, gathered, budgets, retryAt, outcomes, permitted, passes, finals, remembered, ran>>

(* The model asks for tools, which it can only while they are offered. *)
AskTools(b) ==
    /\ loopPc = "call" /\ offered
    /\ \E m \in Sent : messages' = Append(m, CallOf(b, FreshId))
    /\ plan' \in PlanOf(iteration)
    /\ batch' = b /\ gathered' = <<>>
    /\ LoopGoes("tools")
    /\ UNCHANGED <<budgets, retryAt, outcomes, permitted, passes, answerVars, ran>>

(* The answer was cut off: the conversation is compacted (by truncation of
   its texts if that fails) and the loop goes on. *)
Overflow ==
    /\ loopPc = "call"
    /\ messages' \in {Compacted(m) : m \in Sent} \cup {messages}
    /\ plan' \in PlanOf(iteration)
    /\ LoopGoes("top")
    /\ UNCHANGED <<batch, gathered, budgets, retryAt, outcomes, permitted, passes, answerVars, ran>>

(* The call raises, and so does the run. *)
CallFails ==
    /\ loopPc = "call"
    /\ LoopGoes("failed")
    /\ UNCHANGED <<conversation, budgets, retryAt, plan, outcomes, permitted, passes, answerVars, ran>>

-----------------------------------------------------------------------------
(* _execute_tool_calls: one tool after the other. *)

Tool == batch[Len(gathered) + 1]

InBatch == loopPc = "tools" /\ Len(gathered) < Len(batch)

(* A tool runs when it is allowed, or the user approves it, which allows it
   for the rest of the run. *)
RunTool ==
    /\ InBatch
    /\ Tool \in permitted \cup Approvable
    /\ permitted' = permitted \cup {Tool}
    /\ \E failed \in BOOLEAN :
         /\ gathered' = Append(gathered, failed)
         /\ ran' = ran \cup {<<Tool, ~failed, toolCalls <= MaxToolCalls>>}
    /\ UNCHANGED <<loopPc, messages, batch, budgets, retryAt, plan, outcomes, passes, answerVars>>

(* It is not allowed and the user denies it, or nobody can be asked. *)
BlockTool ==
    /\ InBatch
    /\ Tool \notin permitted
    /\ gathered' = Append(gathered, TRUE)
    /\ UNCHANGED <<loopPc, messages, batch, budgets, retryAt, plan, outcomes, permitted, passes, answerVars, ran>>

(* The user cancels: the run is given up, but a retry of the reflection
   takes the cancellation for a failure of its own. *)
CancelTool ==
    /\ InBatch
    /\ Tool \in Approvable
    /\ LoopGoes(IF retryAt > 0 THEN "shape" ELSE "failed")
    /\ retryAt' = 0 /\ batch' = <<>> /\ gathered' = <<>>
    /\ UNCHANGED <<messages, budgets, plan, outcomes, permitted, passes, answerVars, ran>>

Results(m) ==
    m \o [k \in 1 .. Len(batch) |-> [role |-> "tool", id |-> Last(m).id, size |-> 0]]

(* Two detectors: the same batch LoopThreshold times, or A B A B. *)
Looping(h) ==
    LET n == Len(h)
    IN  \/ n >= LoopThreshold /\ \A k \in n - LoopThreshold + 1 .. n : h[k] = h[n]
        \/ n >= 4 /\ h[n] = h[n - 2] /\ h[n - 1] = h[n - 3] /\ h[n] # h[n - 1]

(* advance and fail_current, on the step at plan.at + 1. *)
Advanced(p) ==
    [at |-> p.at + 1, replans |-> p.replans,
     steps |-> [k \in DOMAIN p.steps |-> IF k = p.at + 1 THEN "completed"
                                         ELSE IF k = p.at + 2 THEN "in_progress" ELSE p.steps[k]]]
FailedPlan(p) ==
    [at |-> p.at, replans |-> p.replans + 1,
     steps |-> [k \in DOMAIN p.steps |-> IF k = p.at + 1 THEN "failed" ELSE p.steps[k]]]

(* A failure asks for a new plan while replans are left; otherwise the step
   may have had the tools it expected. *)
Planned(p, failures) ==
    IF p.steps = <<>> THEN {p}
    ELSE IF (\E k \in DOMAIN failures : failures[k]) /\ p.replans < MaxReplans THEN {FailedPlan(p)}
    ELSE {p} \cup (IF p.at < Len(p.steps) /\ \E k \in DOMAIN failures : ~failures[k]
                     THEN {Advanced(p)} ELSE {})

(* The results join the conversation; the tool budget, loop detection and
   the plan follow in that order, each with a message of its own.  Budget and
   detection skip what follows them. *)
EndBatch ==
    /\ loopPc = "tools" /\ retryAt = 0 /\ Len(gathered) = Len(batch)
    /\ LET total == toolCalls + Len(batch)
           over == total > MaxToolCalls
           history == Append(signatures, batch)
       IN  /\ toolCalls' = total
           /\ outcomes' = outcomes \cup {<<batch[k], gathered[k]>> : k \in DOMAIN batch}
           /\ exhausted' = over
           /\ offered' = (offered /\ ~over)
           /\ signatures' = IF over THEN signatures ELSE history
           /\ \E p \in IF over \/ Looping(history) THEN {plan} ELSE Planned(plan, gathered) :
                /\ plan' = p
                /\ messages' = IF over \/ Looping(history) \/ p.replans > plan.replans
                                 THEN Append(Results(messages), Message("user")) ELSE Results(messages)
    /\ LoopGoes("top")
    /\ batch' = <<>> /\ gathered' = <<>>
    /\ UNCHANGED <<iteration, steered, retryAt, permitted, passes, answerVars, ran>>

-----------------------------------------------------------------------------
(* After the loop. *)

(* A run out of budget asks once more, without tools; then a text is made
   sure of. *)
Conclude ==
    /\ loopPc = "after"
    /\ text' \in IF text # "empty" THEN {text}
                 ELSE IF exhausted THEN {"claim", "admit"} \* "unable ..." if the call fails or is empty
                 ELSE IF steered THEN {"notice"} ELSE {"admit"}
    /\ LoopGoes("gates")
    /\ UNCHANGED <<conversation, budgets, retryAt, plan, outcomes, permitted, passes, finals, remembered, ran>>

HasEvidence == \E tool \in Evidence : <<tool, FALSE>> \in outcomes
AllToolsFailed == outcomes # {} /\ \A o \in outcomes : o[2]

HasSpawned == \E tool \in SpawnTools : <<tool, FALSE>> \in outcomes

(* _apply_evidence_gates: an implementation without evidence, a run whose
   tools all failed, and one whose subrun did not complete admit it.  A run
   that started a subrun is no implementation unless the detector of intents
   calls it one, and what the results say of the subrun is the tools' affair. *)
ApplyGates ==
    /\ loopPc = "gates"
    /\ text' \in IF AllToolsFailed THEN {"admit"}
                 ELSE IF HasSpawned THEN {text, "admit"}
                 ELSE IF NeedsEvidence /\ ~HasEvidence THEN {"admit"} ELSE {text}
    /\ LoopGoes("reflect")
    /\ UNCHANGED <<conversation, budgets, retryAt, plan, outcomes, permitted, passes, finals, remembered, ran>>

OffersTools == ToolRetry

(* Is the retry a loop with tools?  Only while they are still offered. *)
RetriesWithTools == ToolRetry /\ offered

(* A reflection pass: it fails, is content, or asks for a retry with its
   feedback as a message; a text that is too short is not looked at. *)
Reflect ==
    /\ loopPc = "reflect"
    /\ \/ LoopGoes("shape") /\ UNCHANGED <<messages, passes, retryAt>>
       \/ /\ passes < MaxReflections /\ (text # "empty" \/ passes > 0)
          /\ passes' = passes + 1
          /\ messages' = Append(messages, Message("user"))
          /\ \/ LoopGoes("verdict") /\ UNCHANGED retryAt
             \/ RetriesWithTools /\ LoopGoes("retry") /\ retryAt' = 1
    /\ UNCHANGED <<batch, gathered, budgets, plan, outcomes, permitted, answerVars, ran>>

(* The retry without tools: its text is the answer, whatever the gates had
   made of the one before. *)
RetryText ==
    /\ loopPc = "verdict"
    /\ \/ text' \in {"claim", "admit", "empty"} /\ LoopGoes("reflect")
       \/ UNCHANGED text /\ LoopGoes("shape")
    /\ UNCHANGED <<conversation, budgets, retryAt, plan, outcomes, permitted, passes, finals, remembered, ran>>

(* The retry with tools, a loop of at most RetryCalls model calls. *)
RetryStops ==
    /\ loopPc = "retry"
    /\ \/ text' \in {"claim", "admit", "empty"} /\ LoopGoes("reflect")
       \/ UNCHANGED text /\ \E pc \in {"reflect", "shape"} : LoopGoes(pc) \* cut off, or it raises
    /\ retryAt' = 0
    /\ UNCHANGED <<conversation, budgets, plan, outcomes, permitted, passes, finals, remembered, ran>>

RetryTools(b) ==
    /\ loopPc = "retry"
    /\ messages' = Append(messages, CallOf(b, FreshId))
    /\ batch' = b /\ gathered' = <<>>
    /\ LoopGoes("tools")
    /\ UNCHANGED <<budgets, retryAt, plan, outcomes, permitted, passes, answerVars, ran>>

(* Its results join the conversation only: no budget, no gate counts them. *)
EndRetryBatch ==
    /\ loopPc = "tools" /\ retryAt > 0 /\ Len(gathered) = Len(batch)
    /\ messages' = Results(messages)
    /\ batch' = <<>> /\ gathered' = <<>>
    /\ IF retryAt < RetryCalls
         THEN retryAt' = retryAt + 1 /\ LoopGoes("retry")
         ELSE retryAt' = 0 /\ LoopGoes("reflect")
    /\ UNCHANGED <<budgets, plan, outcomes, permitted, passes, answerVars, ran>>

(* verify_final: an empty text is replaced, a short one only noted. *)
Verified(x) == IF x = "empty" THEN "notice" ELSE x

(* Shaping may suppress a text; what it leaves is verified. *)
Shape ==
    /\ loopPc = "shape"
    /\ text' \in {Verified(text), "notice"}
    /\ LoopGoes("final")
    /\ UNCHANGED <<conversation, budgets, retryAt, plan, outcomes, permitted, passes, finals, remembered, ran>>

(* The final event; a client that is gone makes it raise. *)
SendFinal ==
    /\ loopPc = "final"
    /\ \/ finals' = Append(finals, text) /\ LoopGoes("remember")
       \/ UNCHANGED finals /\ LoopGoes("failed")
    /\ UNCHANGED <<conversation, budgets, retryAt, plan, outcomes, permitted, passes, text, remembered, ran>>

Remember ==
    /\ loopPc = "remember"
    /\ remembered' = Append(remembered, text)
    /\ LoopGoes("done")
    /\ UNCHANGED <<conversation, budgets, retryAt, plan, outcomes, permitted, passes, text, finals, ran>>

LoopNext ==
    \/ SetUp \/ StartIteration \/ LeaveLoop
    \/ Stop \/ Overflow \/ CallFails \/ (\E b \in Batches : AskTools(b))
    \/ RunTool \/ BlockTool \/ CancelTool \/ EndBatch
    \/ Conclude \/ ApplyGates \/ Reflect \/ RetryText \/ RetryStops \/ EndRetryBatch
    \/ (\E b \in Batches : RetryTools(b))
    \/ Shape \/ SendFinal \/ Remember

LoopSpec == LoopInit /\ [][LoopNext]_loopVars

-----------------------------------------------------------------------------
(* Properties. *)

(* Whenever the model is called, every tool call in the conversation has all
   its results right behind it: through blocked and failed tools, compaction
   and the reflection's own tool loop (an unanswered call is refused by the
   providers and would poison every later call). *)
CallsAnswered ==
    loopPc \in {"call", "after", "retry", "verdict"} =>
        \A i \in DOMAIN messages : messages[i].role = "call" =>
            /\ i + messages[i].size <= Len(messages)
            /\ \A k \in i + 1 .. i + messages[i].size :
                 messages[k].role = "tool" /\ messages[k].id = messages[i].id

(* Once the tool budget is exceeded no tool runs any more, not in the
   loop and not in a retry of the reflection. *)
ToolBudgetFinal == \A call \in ran : call[3]

(* The plan is worked through in order: the steps before the current one are
   completed, those behind it untouched, and "stop" leaves none open. *)
PlanInOrder ==
    \A k \in DOMAIN plan.steps :
        /\ k <= plan.at => plan.steps[k] = "completed"
        /\ k = plan.at + 1 => plan.steps[k] # "pending"
        /\ k > plan.at + 1 /\ passes = 0 /\ loopPc \in {"top", "call", "tools"} =>
             plan.steps[k] = "pending"

(* What the session remembers is what the user was shown, and at most one
   answer is given, never an empty one. *)
OneAnswer ==
    /\ Len(finals) <= 1 /\ "empty" \notin Range(finals)
    /\ IsPrefix(remembered, finals)
    /\ loopPc = "done" => remembered = finals /\ finals # <<>>

(* The conversation, the budget, the plan and the answer of a run hold
   together to its end. *)
RunSound == LoopTypeOK /\ CallsAnswered /\ ToolBudgetFinal /\ PlanInOrder /\ OneAnswer

(* At rest: the run has ended, with an answer or an error for its caller. *)
LoopQuiet == loopPc \in {"done", "failed"}
=============================================================================

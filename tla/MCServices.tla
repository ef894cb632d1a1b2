------------------------------ MODULE MCServices ------------------------------
(***************************************************************************)
(* The components of the backend that share no state with the lanes and    *)
(* the fallback machine, checked side by side: "part" names the one a      *)
(* behaviour is about, and the others keep their initial state.            *)
(***************************************************************************)
EXTENDS PolicyApproval, WsSession, RunControl, Workflow,
        AgentLoop, AgentBus, FanOut, ReplPool

CONSTANTS
    Parts,
    w1, f1, f2, c1, d1, u1, x1, q1, q2, e1, e3, s1, s2, s3, s4    \* messages, requests, executions and steps, by name
VARIABLE part

(* PolicyApproval: two calls for one tool: a subrun and a run of another session. *)
Asks == [c \in Calls |->
    [run |-> c, session |-> IF c = "b" THEN "s2" ELSE "s1", tool |-> "t", resource |-> "x"]]

(* WsSession. *)
Kinds == [m \in Messages |->
    CASE m \in {f1, f2} -> "follow_up" [] m = c1 -> "clarification" [] m = d1 -> "direct"
      [] m = u1 -> "unsupported" [] m = x1 -> "forbidden" [] OTHER -> "wait"]
Endings == [m \in Messages |->
    CASE m = w1 -> {"ask", "error"}
      [] m = f1 -> {"command"} [] OTHER -> {"ok"}]

(* What one client sends: messages that are queued and an answer, or fewer of
   them among those that the loop handles by itself. *)
Conversations == {{w1, f1, f2, c1}, {w1, f1, f2, d1}, {w1, f1, c1, d1}, {w1, f2, c1, x1}, {w1, f1, u1, x1}}

(* RunControl: two requests with one key and different payloads. *)
RunKeys == [q \in Requests |-> "k"]
RunPrints == [q \in Requests |-> IF q = q1 THEN "p1" ELSE "p2"]

(* Workflow: a sequential and a parallel execution with one key.  The graph: s1, then
   a condition s2, whose branches are a delay s3, leading to a step that does
   not exist, and an agent step s4, which ends the workflow. *)
Modes == [e \in Executions |-> IF e = e3 THEN "parallel" ELSE "sequential"]
WfKeys == [e \in Executions |-> "k"]
WfPrints == [e \in Executions |-> "p"]
StepTypes == [s \in Steps |-> CASE s = s2 -> "condition" [] s = s3 -> "await" [] OTHER -> "agent"]
NextSteps == [s \in Steps |-> CASE s = s1 -> s2 [] s = s2 -> s3 [] s = s3 -> MissingStep [] OTHER -> NoStep]
Branches == [s \in Steps |-> [true |-> s3, false |-> s4]]

(* AgentLoop: the model may ask for a shell, for a write and a spawn together,
   or for a tool it does not have. *)
SomeBatches == {<<"shell">>, <<"write", "spawn">>, <<"ghost">>}

(* AgentBus: a request from a to b, an urgent topic message of a; b is also waited for. *)
Kinds2 == [s \in Sends |-> IF s = "s1" THEN "request" ELSE "topic"]
Senders == [s \in Sends |-> "a"]
Recipients == [s \in Sends |-> IF s = "s1" THEN "b" ELSE "a"]
Priorities == [s \in Sends |-> IF s = "s1" THEN "normal" ELSE "urgent"]
WaitsFor == [w \in Waits |-> "b"]

(* FanOut: q and r form a graph over p; s depends on an id that is no step. *)
Dependencies == [t \in Tasks |->
    CASE t = "q" -> {"p"} [] t = "r" -> {"p", "q"} [] t = "s" -> {"ghost"} [] OTHER -> {}]
Surety == [t \in Tasks |-> IF t = "p" THEN 2 ELSE 1]

(* ReplPool: the calls of a behaviour are three of one session, or two with a
   reset or a shutdown and a call that needs the room. *)
Owners == [c \in ReplCalls |-> IF c = "b1" THEN "B" ELSE "A"]
ReplScenes == {{"a1", "a2", "a3"}, {"a1", "a2", "b1", "ar"}, {"a1", "a2", "b1", "ac"}}

-----------------------------------------------------------------------------
vars == <<part, approvalVars, wsVars, runVars, wfVars, loopVars, busVars, fanVars, replVars>>

Init ==
    /\ part \in Parts
    /\ ApprovalInit /\ WsInit /\ RunInit /\ WfInit
    /\ LoopInit /\ BusInit /\ FanInit /\ ReplInit
    /\ part # "fan" => mode = "all"
    /\ {c \in ReplCalls : replPc[c] = "idle"} \in IF part = "repl" THEN ReplScenes ELSE {{}}

Next ==
    /\ UNCHANGED part
    /\ IF part = "approval" THEN ApprovalNext ELSE UNCHANGED approvalVars
    /\ IF part = "ws" THEN WsNext ELSE UNCHANGED wsVars
    /\ {m \in Messages : doc'[m] # "none"} \in UNION {SUBSET sent : sent \in Conversations}
    /\ IF part = "run" THEN RunNext ELSE UNCHANGED runVars
    /\ IF part = "workflow" THEN WfNext ELSE UNCHANGED wfVars
    /\ IF part = "loop" THEN LoopNext ELSE UNCHANGED loopVars
    /\ IF part = "bus" THEN BusNext ELSE UNCHANGED busVars
    /\ IF part = "fan" THEN FanNext ELSE UNCHANGED fanVars
    /\ IF part = "repl" THEN ReplNext ELSE UNCHANGED replVars

(* The fairness of each component, while it is the one that runs. *)
FairSpec ==
    /\ Init /\ [][Next]_vars
    /\ \A c \in Calls : WF_approvalVars(part = "approval" /\ CallStep(c))
    /\ \A r \in Subruns : WF_approvalVars(part = "approval" /\ (ParentLooks(r) \/ ParentReturns(r)))
    /\ WF_wsVars(part = "ws" /\ LoopStep) /\ WF_wsVars(part = "ws" /\ WorkerStep)
    /\ \A q \in Requests : WF_runVars(part = "run" /\ RunStep(q))
    /\ \A e \in Executions : WF_wfVars(part = "workflow" /\ WfStep(e))
    /\ WF_loopVars(part = "loop" /\ LoopNext)
    /\ \A s \in Sends : WF_busVars(part = "bus" /\ SendStep(s))
    /\ WF_fanVars(part = "fan" /\ FanNext)
    /\ \A c \in ReplCalls : WF_replVars(part = "repl" /\ ReplStep(c))

(* Under the fairness of an event loop every component comes to rest again
   and again: asks for permission and the parents behind them return, the
   inbox is worked off and both tasks of a closed connection end, background
   runs, workflow executions, the agent's loop, sends between agents,
   fanned-out tasks and REPL calls end. *)
ServicesSettle ==
    []<>(/\ part = "approval" => ApprovalQuiet
         /\ part = "ws" => WsQuiet
         /\ part = "run" => RunQuiet
         /\ part = "workflow" => WfQuiet
         /\ part = "loop" => LoopQuiet
         /\ part = "bus" => BusQuiet
         /\ part = "fan" => FanQuiet
         /\ part = "repl" => ReplQuiet)
=============================================================================

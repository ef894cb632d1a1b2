------------------------------ MODULE ToolLoop ------------------------------
(***************************************************************************)
(* services/tool_execution_manager.py with services/tool_call_gatekeeper.py *)
(* and the action checks of agent.py: the model selects a list of tool      *)
(* calls, the list is repaired, approved, validated and augmented, and the  *)
(* loop runs it under a call budget, a time budget and the detectors of     *)
(* repeated calls; read-only calls may run first, all at once.             *)
(* Abstracted: prompts, skills and retrieval text, lifecycle events and     *)
(* warnings, the shape of a result (a result is the value "h1" or "h2").    *)
(***************************************************************************)
EXTENDS Naturals, FiniteSets, SequencesExt, Lists

CONSTANTS
    Selections,     \* the lists of calls a model may select, of [tool, args] records
    AllowedNames,   \* tools the policy allows
    Grantable,      \* process tools a user may allow for this run
    KnownNames,     \* tools of the registry
    ReadOnlyNames,  \* READ_ONLY_TOOLS
    WebName,        \* the tool retried with another source after a 404
    Augmented,      \* the call the augmenter may append
    ParallelModes,  \* values of tool_execution_parallel_read_only_enabled
    CallCap, CriticalAt, BreakerAt, PollAt   \* thresholds of the configuration

ASSUME ToolLoopAssumption ==
    /\ CallCap \in Nat \ {0} /\ PollAt \in Nat \ {0, 1}
    /\ CriticalAt \in Nat \ {0, 1} /\ BreakerAt \in Nat /\ BreakerAt > CriticalAt
    /\ ParallelModes \subseteq BOOLEAN
    /\ \A s \in Selections : s \in Seq(ToSet(s))

VARIABLES
    at,         \* where the turn is
    parallel,   \* the read-only setting of this run
    permitted,  \* effective_allowed_tools
    queue,      \* calls the loop has not considered
    reads,      \* read-only calls the gate has not considered
    batch,      \* read-only calls that run at once, with their outcomes
    current,    \* the call that runs, or NoToolCall
    used,       \* tool_call_count
    invoked,    \* history: the calls handed to a tool, in order
    retries,    \* history: how many of them were retries with another source
    answers,    \* results
    remembered, \* history: results written to memory
    gate,       \* the ToolCallGatekeeper
    late,       \* the time budget is spent
    steer,      \* what should_steer_interrupt returns
    span        \* a telemetry span is open

toolVars == <<at, parallel, permitted, queue, reads, batch, current, used, invoked, retries,
              answers, remembered, gate, late, steer, span>>

NoToolCall == [tool |-> "none", args |-> "none"]
Outcomes == {"h1", "h2"}
Bare(c) == [tool |-> c.tool, args |-> "none"]
Count(seq, c) == Cardinality({i \in DOMAIN seq : seq[i] = c})
Rejects(c) == <<c, "rejected">>

-----------------------------------------------------------------------------
(* The gatekeeper.                                                         *)

Gate(counts, history, outcomes, blocked) ==
    [counts |-> counts, history |-> history, outcomes |-> outcomes, blocked |-> blocked]
FreshGate == Gate(<<>>, <<>>, <<>>, 0)

(* The last k outcomes alternate between the most recent call and c. *)
Alternate(g, c, k) ==
    \A i \in 0..(k - 1) : g.outcomes[Len(g.outcomes) - i][1] =
        IF i % 2 = 0 THEN Last(g.outcomes)[1] ELSE c

(* The call would continue a ping-pong between two calls that bring nothing
   new, CriticalAt calls long. *)
PingPong(g, c) ==
    \E k \in Max({3, CriticalAt - 1})..Len(g.outcomes) :
        /\ c # Last(g.outcomes)[1] /\ Alternate(g, c, k)
        /\ k = Len(g.outcomes) \/ ~Alternate(g, c, k + 1)
        /\ Cardinality(ToSet(SubSeq(g.outcomes, Len(g.outcomes) - k + 1, Len(g.outcomes)))) = 2

Noted(g, c) ==
    LET h == Append(g.history, c)
    IN Gate(Append(g.counts, c), IF Len(h) > 12 THEN SubSeq(h, Len(h) - 11, Len(h)) ELSE h,
            g.outcomes, g.blocked)

(* before_tool_call: run the call, skip it, or end the run. *)
Judgement(g, c) ==
    IF PingPong(g, c) THEN "skip"
    ELSE IF Count(g.counts, c) + 1 >= CriticalAt THEN "skip"
    ELSE IF Count(Noted(g, c).history, c) - 1 >= BreakerAt THEN "break"
    ELSE "run"

Counts(g, more) == Gate(g.counts, g.history, g.outcomes, g.blocked + more)
Judged(g, c) == Counts(Noted(g, c), IF Judgement(g, c) = "run" THEN 0 ELSE 1)

(* after_tool_success: how often in a row the call has had this outcome. *)
Streak(g, c) ==
    LET mine == SelectSeq(g.outcomes, LAMBDA o : o[1] = c)
        n == Len(mine)
    IN CHOOSE k \in 0..n : /\ \A i \in 0..(k - 1) : mine[n - i] = mine[n]
                           /\ k = n \/ mine[n - k] # mine[n]
Recorded(g, c, o) ==
    LET n == Gate(g.counts, g.history, Append(g.outcomes, <<c, o>>), g.blocked)
    IN Counts(n, IF Streak(n, c) >= PollAt THEN 1 ELSE 0)
NoProgress(g, c) == Streak(g, c) >= PollAt

-----------------------------------------------------------------------------
ToolInit ==
    /\ at = "selecting" /\ parallel \in ParallelModes /\ permitted = AllowedNames
    /\ queue = <<>> /\ reads = <<>> /\ batch = <<>> /\ current = NoToolCall
    /\ used = 0 /\ invoked = <<>> /\ retries = 0 /\ answers = <<>> /\ remembered = <<>>
    /\ gate = FreshGate /\ late = FALSE /\ steer = FALSE /\ span = FALSE

loopState == <<reads, batch, current, used, invoked, retries, answers, remembered, gate, span>>

Finish(how) == at' = how /\ current' = NoToolCall /\ span' = FALSE

(* execute: nothing is selected when no tool is allowed. *)
SkipSelection ==
    /\ at = "selecting" /\ permitted = {}
    /\ at' = "empty"
    /\ UNCHANGED <<parallel, permitted, queue, late, steer, loopState>>

(* Function calling: a list of calls, an empty one, or a failure; the last
   two ask the model for text. *)
CallFunctions ==
    /\ at = "selecting" /\ permitted # {}
    /\ \/ \E s \in Selections \ {<<>>} : queue' = s /\ at' = "selected"
       \/ at' = "asking" /\ UNCHANGED queue
    /\ UNCHANGED <<parallel, permitted, late, steer, loopState>>

(* The text parses, or it is repaired once; a repair that fails leaves what
   the first parse could read. *)
AskForText ==
    /\ at \in {"asking", "repairing"}
    /\ \E s \in Selections : queue' = s
    /\ \/ at' = "selected"
       \/ at = "asking" /\ at' = "repairing"
    /\ UNCHANGED <<parallel, permitted, late, steer, loopState>>

(* apply_action_pipeline: process tools outside the policy are put to the
   user, calls of tools that are not allowed are dropped, and the augmenter
   may append a call of an allowed tool. *)
Vet ==
    /\ at = "selected"
    /\ \E granted \in SUBSET (({queue[i].tool : i \in DOMAIN queue} \cap Grantable) \ permitted) :
         LET ok == permitted \union granted
             valid == OnlyAt(queue, {i \in DOMAIN queue : queue[i].tool \in ok})
         IN /\ permitted' = ok
            /\ queue' \in {valid} \union
                 (IF Augmented.tool \in ok THEN {Append(valid, Augmented)} ELSE {})
    /\ at' = IF queue' = <<>> THEN "empty" ELSE IF parallel THEN "splitting" ELSE "loop"
    /\ UNCHANGED <<parallel, late, steer, loopState>>

(* A call of a name the registry lacks, or with arguments it rejects. *)
Unusable(c) == c.tool \notin permitted \/ c.tool \notin KnownNames

(* The read-only calls are taken out of the list and held against the budgets. *)
ReadAt == {i \in DOMAIN queue : queue[i].tool \in ReadOnlyNames}
Reads == OnlyAt(queue, ReadAt)
Kept ==
    IF late \/ steer THEN <<>>
    ELSE IF Len(Reads) > CallCap THEN SubSeq(Reads, 1, CallCap) ELSE Reads
Split ==
    /\ at = "splitting"
    /\ reads' = Kept /\ at' = IF Kept = <<>> THEN "loop" ELSE "gating"
    /\ queue' = OnlyAt(queue, DOMAIN queue \ ReadAt)
    /\ answers' = IF late /\ ReadAt # {} THEN Append(answers, Rejects(NoToolCall)) ELSE answers
    /\ UNCHANGED <<parallel, permitted, batch, current, used, invoked, retries, remembered, gate,
                   late, steer, span>>

(* The gate of the read-only calls, one after the other; a verdict to break
   drops those that follow. *)
Reading(c, out) == [call |-> c, out |-> out]
GateRead ==
    /\ at = "gating" /\ reads # <<>>
    /\ LET c == Head(reads)
           runs == ~Unusable(c) /\ Judgement(gate, c) = "run"
       IN /\ gate' = IF Unusable(c) THEN gate ELSE Judged(gate, c)
          /\ batch' = IF runs THEN Append(batch, Reading(c, "runs")) ELSE batch
          /\ answers' = IF runs THEN answers ELSE Append(answers, Rejects(c))
          /\ reads' = IF ~Unusable(c) /\ Judgement(gate, c) = "break" THEN <<>> ELSE Tail(reads)
    /\ UNCHANGED <<at, parallel, permitted, queue, current, used, invoked, retries, remembered,
                   late, steer, span>>

(* Those that the gate lets through start together. *)
Called(calls) == [i \in DOMAIN calls |-> calls[i].call]
StartReads ==
    /\ at = "gating" /\ reads = <<>>
    /\ invoked' = Called(batch) /\ at' = IF batch = <<>> THEN "loop" ELSE "gather"
    /\ UNCHANGED <<parallel, permitted, queue, reads, batch, current, used, retries, answers,
                   remembered, gate, late, steer, span>>

(* One of them returns, in any order; a result is written to memory at once. *)
ReadReturns ==
    /\ at = "gather"
    /\ \E i \in DOMAIN batch, o \in Outcomes \union {"error"} :
         /\ batch[i].out = "runs"
         /\ batch' = [batch EXCEPT ![i] = Reading(batch[i].call, o)]
         /\ remembered' = IF o = "error" THEN remembered ELSE Append(remembered, batch[i].call)
    /\ UNCHANGED <<at, parallel, permitted, queue, reads, current, used, invoked, retries, answers,
                   gate, late, steer, span>>

(* All of them are back: the results go in the order of the list, and the
   gate is told of each under its tool's name alone. *)
Gather ==
    /\ at = "gather" /\ \A i \in DOMAIN batch : batch[i].out # "runs"
    /\ LET r == batch[used + 1]
       IN /\ answers' = Append(answers, <<r.call, IF r.out = "error" THEN "error" ELSE "ok">>)
          /\ gate' = IF r.out = "error" THEN gate ELSE Recorded(gate, Bare(r.call), r.out)
    /\ used' = used + 1
    /\ at' = IF used + 1 = Len(batch) THEN "loop" ELSE at
    /\ batch' = IF used + 1 = Len(batch) THEN <<>> ELSE batch
    /\ UNCHANGED <<parallel, permitted, queue, reads, current, invoked, retries, remembered, late, steer, span>>

(* The next call of the list: the budgets first, then the policy, then the
   gate; what is let through is handed to its tool. *)
Consider ==
    /\ at = "loop" /\ queue # <<>>
    /\ LET c == Head(queue)
           rejected == answers' = Append(answers, Rejects(c))
       IN IF late \/ used >= CallCap
          THEN rejected /\ Finish("results") /\ UNCHANGED <<gate, invoked>>
          ELSE IF Unusable(c)
          THEN rejected /\ UNCHANGED <<at, current, span, gate, invoked>>
          ELSE /\ gate' = Judged(gate, c)
               /\ \/ /\ Judgement(gate, c) = "run"
                     /\ at' = "running" /\ current' = c /\ span' = TRUE
                     /\ invoked' = Append(invoked, c) /\ UNCHANGED answers
                  \/ /\ Judgement(gate, c) = "skip"
                     /\ rejected /\ UNCHANGED <<at, current, span, invoked>>
                  \/ /\ Judgement(gate, c) = "break"
                     /\ rejected /\ Finish("results") /\ UNCHANGED invoked
    /\ queue' = Tail(queue)
    /\ UNCHANGED <<parallel, permitted, reads, batch, used, retries, remembered, late, steer>>

(* After a call: the loop ends when the run was steered away, and its
   results are dropped with it. *)
GoOn ==
    /\ at' = IF steer THEN "steered" ELSE "loop"
    /\ current' = NoToolCall /\ span' = FALSE

(* The tool returns. A call that keeps bringing the same ends the run. *)
ToolReturns ==
    /\ at = "running"
    /\ \E o \in Outcomes :
         /\ gate' = Recorded(gate, current, o)
         /\ LET stuck == NoProgress(gate', current)
               good == Append(answers, <<current, "ok">>)
            IN /\ answers' = IF stuck THEN Append(good, Rejects(current)) ELSE good
               /\ IF stuck THEN Finish("results") ELSE GoOn
    /\ used' = used + 1 /\ remembered' = Append(remembered, current)
    /\ UNCHANGED <<parallel, permitted, queue, reads, batch, invoked, retries, late, steer>>

(* The tool fails; a 404 of the web tool is retried once with another
   source when two calls still fit the budget. *)
ToolFails ==
    /\ at = "running"
    /\ used' = used + 1 /\ answers' = Append(answers, <<current, "error">>) /\ GoOn
    /\ UNCHANGED <<parallel, permitted, queue, reads, batch, invoked, retries, remembered, gate, late, steer>>

MayRetry == used + 1 < CallCap

RetrySource ==
    /\ at = "running" /\ current.tool = WebName /\ MayRetry
    /\ at' = "retrying" /\ retries' = retries + 1 /\ invoked' = Append(invoked, current)
    /\ UNCHANGED <<parallel, permitted, queue, reads, batch, current, used, answers, remembered, gate,
                   late, steer, span>>

(* The second source answers, and the gate's verdict on it is not looked at;
   or it fails as well. *)
RetryReturns ==
    /\ at = "retrying" /\ used' = used + 2
    /\ \/ \E o \in Outcomes :
            /\ gate' = Recorded(gate, current, o)
            /\ answers' = Append(answers, <<current, "ok">>)
            /\ remembered' = Append(remembered, current)
            /\ at' = "loop" /\ current' = NoToolCall /\ span' = FALSE
       \/ /\ answers' = Append(answers, <<current, "error">>) /\ GoOn
          /\ UNCHANGED <<gate, remembered>>
    /\ UNCHANGED <<parallel, permitted, queue, reads, batch, invoked, retries, late, steer>>

(* The list is worked off. *)
LoopDone ==
    /\ at = "loop" /\ queue = <<>> /\ Finish("results")
    /\ UNCHANGED <<parallel, permitted, queue, reads, batch, used, invoked, retries, answers, remembered,
                   gate, late, steer>>

(* The run is cancelled, or something else than a tool error comes up. *)
Abandon ==
    /\ at \in {"gating", "gather", "loop", "running", "retrying"} /\ Finish("raised")
    /\ UNCHANGED <<parallel, permitted, queue, reads, batch, used, invoked, retries, answers, remembered,
                   gate, late, steer>>

(* Time passes, and the user sends another message. *)
Surroundings ==
    /\ at \in {"splitting", "gating", "gather", "loop", "running", "retrying"}
    /\ \/ ~late /\ late' = TRUE /\ UNCHANGED steer
       \/ ~steer /\ steer' = TRUE /\ UNCHANGED late
    /\ UNCHANGED <<at, parallel, permitted, queue, loopState>>

ToolStep ==
    SkipSelection \/ CallFunctions \/ AskForText \/ Vet \/ Split \/ GateRead \/ StartReads
    \/ ReadReturns \/ Gather \/ Consider \/ ToolReturns \/ ToolFails \/ RetrySource \/ RetryReturns \/ LoopDone
ToolNext == ToolStep \/ Abandon \/ Surroundings
ToolSpec == ToolInit /\ [][ToolNext]_toolVars

-----------------------------------------------------------------------------
ToolEnds == {"empty", "results", "steered", "raised"}
ToolQuiet == at \in ToolEnds

ToolTypeOK ==
    /\ at \in ToolEnds \union {"selecting", "asking", "repairing", "selected", "splitting",
                               "gating", "gather", "loop", "running", "retrying"}
    /\ permitted \subseteq AllowedNames \union Grantable
    /\ Len(gate.history) <= 12 /\ used <= CallCap
    /\ {late, steer, span, parallel} \subseteq BOOLEAN

(* The budget counts every call handed to a tool, the retries of a failed
   source and the calls that ran at once included, and is never overdrawn. *)
BudgetKept ==
    /\ Len(invoked) <= CallCap
    /\ at = "results" => used = Len(invoked)

(* Only calls of tools the policy or the user allows reach a tool. *)
OnlyPermitted == \A i \in DOMAIN invoked : invoked[i].tool \in permitted \cap KnownNames

(* No call is made CriticalAt times with the same arguments, however the
   model mixes it with others; the retries of a source come on top. *)
RepeatsBounded == \A i \in DOMAIN invoked : Count(invoked, invoked[i]) - retries < CriticalAt

(* The results of calls that ran, and the good ones among them. *)
RanAt(seq) == {i \in DOMAIN seq : seq[i][2] # "rejected"}
OkAt(seq) == {i \in DOMAIN seq : seq[i][2] = "ok"}
InOrder(seq, calls) ==
    \A i \in RanAt(seq) : seq[i][1] = calls[Cardinality({j \in RanAt(seq) : j <= i})]

(* Every call has one result, in the order of the calls although calls that
   run at once return in any order; every good result was remembered. *)
AnswersInOrder ==
    /\ at \in {"loop", "results"} /\ retries = 0 =>
         Cardinality(RanAt(answers)) = Len(invoked) /\ InOrder(answers, invoked)
    /\ at \in {"loop", "results"} => Len(remembered) = Cardinality(OkAt(answers))

(* A telemetry span is open exactly while a call runs. *)
SpansClosed == span <=> at \in {"running", "retrying"}

(* The tool loop keeps its budget, runs only what is permitted, cuts calls
   that repeat themselves, and accounts for every call it made. *)
ToolLoopSound ==
    ToolTypeOK /\ BudgetKept /\ OnlyPermitted /\ RepeatsBounded /\ AnswersInOrder /\ SpansClosed
=============================================================================

------------------------------ MODULE Recovery ------------------------------
(***************************************************************************)
(* orchestrator/pipeline_runner.py with recovery_strategy.py and the        *)
(* failure handling of fallback_state_machine.py: a request is routed to a  *)
(* model that fits the inference budget, and when a call fails a recovery   *)
(* strategy is picked from a list that signals, feedback, the metrics of    *)
(* earlier recoveries and a flip put into order.  The breaker in front of   *)
(* the models is the subject of ModelFallback and left out here; so are     *)
(* events, counters for telemetry and the text of a shortened message.      *)
(***************************************************************************)
EXTENDS Integers, FiniteSets, SequencesExt, Lists

CONSTANTS
    Candidates,       \* a route: the primary model and its fallbacks
    Score, CostOf,    \* of each model: the router's score, and cost with latency
    RouteRuntimes,         \* "api", "local"
    Configured,       \* [reason -> the configured order, unchecked]
    Failures,         \* reasons a call may fail for
    Retryable,        \* those a fallback model is tried for anyway
    Signals,          \* what the route's profile says: "weak", "slow", "none"
    Budget,           \* how often each strategy may be applied
    FeedbackOn, MetricsOn, FlipAt, MinSamples, WindowSize,   \* settings
    CallBudget,       \* pipeline_runner_max_attempts
    MessageSize,      \* length of a message; 1 is the shortest target
    MaxRuns, MayDisturb   \* bounds: requests, and whether sends fail or tasks are cancelled

Overflow == {"prompt_compaction", "overflow_fallback_retry"}
Truncation == {"payload_truncation", "truncation_fallback_retry"}
Shortening == {"prompt_compaction", "payload_truncation"}
Strategies == Overflow \union Truncation \union {"compaction_fallback_retry"}
NoStrategy == "none"
Ranked == {"context_overflow", "truncation_required"}   \* reasons with an order of strategies

ASSUME RecoveryAssumption ==
    /\ Candidates \in Seq(ToSet(Candidates)) \ {<<>>} /\ IsInjective(Candidates)
    /\ Score \in [ToSet(Candidates) -> Int] /\ CostOf \in [ToSet(Candidates) -> Nat]
    /\ \A r \in Ranked : Configured[r] \in Seq(ToSet(Configured[r]))
    /\ Budget \in [Strategies -> Nat] /\ CallBudget \in Nat \ {0}
    /\ WindowSize \in Nat \ {0} /\ MinSamples \in Nat \ {0} /\ FlipAt \in Nat \ {0, 1}
    /\ MessageSize \in Nat \ {0} /\ MaxRuns \in Nat
    /\ {FeedbackOn, MetricsOn, MayDisturb} \subseteq BOOLEAN

VARIABLES
    phase,      \* of the request: "idle", "planned", "calling", "handling", "retrying"
    tasks,      \* status of the pipeline's four tasks, which change together; "left": open
                \* although the request has ended
    runtime, signal, lineup,   \* of the request: its route
    tried,      \* _current_model_index, from 1
    calls,      \* attempts
    doubling,   \* _transform_retry_pending
    size,       \* length of current_user_message
    applied,    \* [strategy -> attempts]
    streak,     \* previous_reason and reason_streak
    failed,     \* last_failed_strategy_by_reason
    credit,     \* pending_recovery_outcome
    decision,   \* of the failure being handled: [retry, shortened, order, took, before]
    metrics, saved,   \* _recovery_metrics and its file
    runs        \* requests so far

requestVars == <<runtime, signal, lineup, tried, calls, doubling, size, applied, streak, failed,
                 credit, decision>>
recoveryVars == <<phase, tasks, requestVars, metrics, saved, runs>>

Decision(retry, shortened, order, took, before) ==
    [retry |-> retry, shortened |-> shortened, order |-> order, took |-> took, before |-> before]
NoDecision == Decision(FALSE, FALSE, <<>>, NoStrategy, NoStrategy)
ModelsOf == ToSet(Candidates)

\* The name under which a strategy is remembered: the part after the colon
\* of the resolution's recovery_strategy.
NotedAs(s) == IF s \in Shortening THEN s ELSE "fallback_retry"
Keys == Failures \X ModelsOf \X {NotedAs(s) : s \in Strategies}
Event(outcome, age) == [outcome |-> outcome, age |-> age]
Samples(events, wins, losses) == [events |-> events, wins |-> wins, losses |-> losses]
NoSamples == Samples(<<>>, 0, 0)
Bucket(k) == IF k \in DOMAIN metrics THEN metrics[k] ELSE NoSamples

-----------------------------------------------------------------------------
ToFront(list, x) == <<x>> \o Without(list, x)
ToBack(list, x) == Append(Without(list, x), x)

(* _resolve_adaptive_inference: an affordable model with the best score, or *)
(* the cheapest one, moves to the front.                                    *)

Best(models) == CHOOSE m \in models : \A n \in models : Score[n] <= Score[m]
Cheapest == CHOOSE m \in ModelsOf : \A n \in ModelsOf : CostOf[m] <= CostOf[n]
Adapted(limit) ==
    LET fits == {m \in ModelsOf : CostOf[m] <= limit}
        first == IF Head(Candidates) \in fits THEN Head(Candidates)
                 ELSE IF fits # {} THEN Best(fits) ELSE Cheapest
    IN ToFront(Candidates, first)

(* The order of the strategies for a reason. *)
StepsFor(reason) == IF reason = "context_overflow" THEN Overflow ELSE Truncation
Usual(reason) ==
    LET local == IF reason = "context_overflow"
                 THEN <<"prompt_compaction", "overflow_fallback_retry">>
                 ELSE <<"payload_truncation", "truncation_fallback_retry">>
    IN IF runtime = "api" THEN Reverse(local) ELSE local
Normalized(reason) ==
    LET list == Configured[reason]
        firsts == {i \in DOMAIN list : list[i] \in StepsFor(reason) /\ \A j \in 1..(i - 1) : list[j] # list[i]}
    IN IF firsts = {} THEN Usual(reason) ELSE OnlyAt(list, firsts)

BySignal(steps) ==
    LET wanted == {s \in ToSet(steps) : \/ signal = "weak" /\ s \notin Shortening
                                        \/ signal = "slow" /\ s \in Shortening}
    IN IF Len(steps) < 2 \/ wanted = {} THEN steps ELSE ToFront(steps, CHOOSE s \in wanted : TRUE)

ByFeedback(steps, reason) ==
    IF FeedbackOn /\ Len(steps) > 1 /\ failed[reason] \in ToSet(steps)
    THEN ToBack(steps, failed[reason]) ELSE steps

(* Outcomes age, and count less with age; those past the window are dropped,
   and where none is left the lifetime counts stand in. *)
Weight(age) == IF age = "new" THEN 2 ELSE 1
Weighed(events, outcome) ==
    FoldLeft(LAMBDA n, e : IF e.outcome = outcome THEN n + Weight(e.age) ELSE n, 0, events)
Pruned(events) ==
    Latest(OnlyAt(events, {i \in DOMAIN events : events[i].age # "stale"}), WindowSize)
Stats(b) ==
    LET kept == Pruned(b.events)
    IN IF kept # <<>>
       THEN [w |-> Weighed(kept, "success"), l |-> Weighed(kept, "failure"), n |-> Len(kept)]
       ELSE [w |-> b.wins, l |-> b.losses, n |-> b.wins + b.losses]
Better(a, b) == LET x == a.w * (b.w + b.l)
                    y == b.w * (a.w + a.l)
                IN x > y \/ (x = y /\ a.n > b.n)

(* A metric is read under the name of the step, not the recorded one. *)
Read(reason, model, s) == Stats(Bucket(<<reason, model, s>>))
ByMetrics(steps, reason, model) ==
    LET known == {i \in DOMAIN steps : Read(reason, model, steps[i]).n >= MinSamples}
        Leads(i) == \A j \in known \ {i} :
            LET a == Read(reason, model, steps[i])
                b == Read(reason, model, steps[j])
            IN Better(a, b) \/ (~Better(b, a) /\ i < j)
    IN IF ~MetricsOn \/ Len(steps) < 2 \/ known = {} THEN steps
       ELSE ToFront(steps, steps[CHOOSE i \in known : Leads(i)])

Ordered(reason, model, hits) ==
    LET base == Normalized(reason)
        signalled == BySignal(base)
        fed == ByFeedback(signalled, reason)
        measured == ByMetrics(fed, reason, model)
        moved == signalled # base \/ fed # signalled \/ measured # fed
    IN IF ~moved /\ hits >= FlipAt /\ Len(base) > 1 THEN Append(Tail(base), Head(base)) ELSE measured

UsableOnceMore(s, others) ==
    /\ applied[s] <= Budget[s]
    /\ IF s \in Shortening THEN size > 1 ELSE others

(* The resolver takes the first strategy that is enabled, not used up and,
   for a shortening one, changes the message. *)
Usable(s, others) ==
    /\ applied[s] < Budget[s]
    /\ IF s \in Shortening THEN size > 1 ELSE others

Pick(list, others) ==
    LET open == {i \in DOMAIN list : Usable(list[i], others)}
    IN IF open = {} THEN NoStrategy ELSE list[FirstAt(open)]

-----------------------------------------------------------------------------
RecoveryInit ==
    /\ phase = "idle" /\ tasks = "none" /\ runs = 0
    /\ runtime = "local" /\ signal = "none" /\ lineup = Candidates
    /\ tried = 1 /\ calls = 0 /\ doubling = FALSE /\ size = MessageSize
    /\ applied = [s \in Strategies |-> 0] /\ streak = [reason |-> NoStrategy, hits |-> 0]
    /\ failed = [r \in Failures |-> NoStrategy] /\ credit = <<>> /\ decision = NoDecision
    /\ metrics = <<>> /\ saved = <<>>

(* The request's variables are locals of run(): they start fresh and end
   with it. *)
FreshRequest ==
    /\ tried' = 1 /\ calls' = 0 /\ doubling' = FALSE /\ size' = MessageSize
    /\ applied' = [s \in Strategies |-> 0] /\ streak' = [reason |-> NoStrategy, hits |-> 0]
    /\ failed' = [r \in Failures |-> NoStrategy] /\ credit' = <<>> /\ decision' = NoDecision
Leave ==
    /\ phase' = "idle" /\ FreshRequest
    /\ runtime' = "local" /\ signal' = "none" /\ lineup' = Candidates
\* A status that cannot be written leaves its task open; the failing of
\* the rest is suppressed.
Over(how) == Leave /\ tasks' \in {how} \union (IF MayDisturb THEN {"left"} ELSE {})

(* run(): the tasks are opened, the first is active, and a route is chosen. *)
Plan ==
    /\ phase = "idle" /\ runs < MaxRuns /\ runs' = runs + 1
    /\ phase' = "planned" /\ tasks' = "open" /\ FreshRequest
    /\ \E limit \in {CostOf[m] : m \in ModelsOf} \union {0} : lineup' = Adapted(limit)
    /\ signal' \in Signals /\ runtime' \in RouteRuntimes
    /\ UNCHANGED <<metrics, saved>>

(* The context window guard, or a failing send, ends run() before the try. *)
Refuse ==
    /\ phase = "planned" /\ Leave /\ tasks' = "left"
    /\ UNCHANGED <<metrics, saved, runs>>

(* SELECT_MODEL and EXECUTE_ATTEMPT. *)
Call ==
    /\ phase \in {"planned", "retrying"}
    /\ \/ /\ calls < CallBudget /\ tried <= Len(lineup)
          /\ phase' = "calling" /\ calls' = calls + 1
          /\ UNCHANGED <<tasks, runtime, signal, lineup, tried, doubling, size, applied, streak,
                         failed, credit, decision>>
       \/ ~(calls < CallBudget /\ tried <= Len(lineup)) /\ Over("failed")
    /\ UNCHANGED <<metrics, saved, runs>>

(* _record_recovery_metric for the strategy that was applied before the
   call; the file is written unless that fails. *)
Credited(outcome) ==
    IF credit = <<>> THEN metrics
    ELSE LET b == Bucket(credit)
             One(o) == IF outcome = o THEN 1 ELSE 0
             more == Samples(Pruned(Append(b.events, Event(outcome, "new"))),
                             b.wins + One("success"), b.losses + One("failure"))
         IN [k \in DOMAIN metrics \union {credit} |-> IF k = credit THEN more ELSE metrics[k]]
Persist == saved' \in {metrics'} \union (IF MayDisturb THEN {saved} ELSE {})

(* The call answers; sending the summary may still fail, and so may the send
   after it, when the try of run() that would fail the tasks is over. *)
Answer ==
    /\ phase = "calling"
    /\ metrics' = Credited("success") /\ Persist
    /\ \/ Over("completed")
       \/ MayDisturb /\ Over("failed")
       \/ MayDisturb /\ Leave /\ tasks' = "left"
    /\ UNCHANGED runs

(* The call ends in a violated guardrail, a cancelled approval or a client
   that is gone: no failure is handled, and a strategy that was applied
   before it gets neither credit nor blame. *)
AbortCall ==
    /\ phase = "calling" /\ Over("failed")
    /\ UNCHANGED <<metrics, saved, runs>>

(* HANDLE_FAILURE up to its first await: the strategy is chosen, applied
   and noted as the last failed one of this reason. *)
Fail(reason) ==
    /\ phase = "calling" /\ phase' = "handling"
    /\ metrics' = Credited("failure") /\ Persist
    /\ LET model == lineup[tried]
           hits == IF streak.reason = reason THEN streak.hits + 1 ELSE 1
           order == IF reason \in Ranked THEN Ordered(reason, model, hits) ELSE <<>>
           only == IF reason = "compaction_failure" THEN <<"compaction_fallback_retry">> ELSE order
           took == Pick(only, tried < Len(lineup))
       IN /\ streak' = [reason |-> reason, hits |-> hits]
          /\ applied' = IF took = NoStrategy THEN applied ELSE [applied EXCEPT ![took] = @ + 1]
          /\ size' = IF took \in Shortening THEN size - 1 ELSE size
          /\ failed' = IF took = NoStrategy THEN failed ELSE [failed EXCEPT ![reason] = NotedAs(took)]
          /\ credit' = IF took = NoStrategy THEN <<>> ELSE <<reason, model, NotedAs(took)>>
          /\ decision' = Decision(took # NoStrategy \/ reason \in Retryable, took \in Shortening, order,
                                  took, IF streak.reason = reason THEN decision.took ELSE NoStrategy)
    /\ UNCHANGED <<tasks, runtime, signal, lineup, tried, calls, doubling, runs>>

(* After the events and the backoff: a shortened message is tried once more
   with the same model, anything else moves on to the next. *)
GivesUp == ~decision.retry \/ (tried >= Len(lineup) /\ ~decision.shortened)
Recover ==
    /\ phase = "handling"
    /\ \/ GivesUp /\ Over("failed")
       \/ /\ ~GivesUp /\ phase' = "retrying"
          /\ doubling' = (decision.shortened /\ ~doubling)
          /\ tried' = IF doubling' THEN tried ELSE tried + 1
          /\ UNCHANGED <<tasks, runtime, signal, lineup, calls, size, applied, streak, failed,
                         credit, decision>>
    /\ UNCHANGED <<metrics, saved, runs>>

(* A send fails while the failure is handled; or the task is cancelled, which
   run()'s handler does not see. *)
Disturb ==
    /\ MayDisturb
    /\ \/ phase = "handling" /\ Over("failed")
       \/ phase \in {"calling", "handling"} /\ Leave /\ tasks' = "left"
    /\ UNCHANGED <<metrics, saved, runs>>

(* Time passes for the metrics; or the process restarts between requests. *)
Older(e) == Event(e.outcome, IF e.age = "new" THEN "old" ELSE "stale")
Aged(b) == Samples([i \in DOMAIN b.events |-> Older(b.events[i])], b.wins, b.losses)
Elapse ==
    /\ phase = "idle" /\ runs \in 1..(MaxRuns - 1)
    /\ metrics' = [k \in DOMAIN metrics |-> Aged(metrics[k])]
    /\ UNCHANGED <<phase, tasks, requestVars, saved, runs>>
Reload ==
    /\ phase = "idle" /\ MayDisturb /\ metrics # saved /\ metrics' = saved
    /\ UNCHANGED <<phase, tasks, requestVars, saved, runs>>

RecoveryStep == Call \/ Answer \/ AbortCall \/ (\E r \in Failures : Fail(r)) \/ Recover
RecoveryNext == Plan \/ Refuse \/ RecoveryStep \/ Disturb \/ Elapse \/ Reload
RecoverySpec == RecoveryInit /\ [][RecoveryNext]_recoveryVars

-----------------------------------------------------------------------------
RecoveryQuiet == phase = "idle"

RecoveryTypeOK ==
    /\ phase \in {"idle", "planned", "calling", "handling", "retrying"}
    /\ tasks \in {"none", "open", "completed", "failed", "left"}
    /\ calls \in 0..CallBudget /\ size \in 1..MessageSize
    /\ tried \in 1..(Len(lineup) + 1)
    /\ credit \in Keys \union {<<>>}
    /\ DOMAIN metrics \subseteq Keys
    /\ \A k \in DOMAIN metrics : Len(metrics[k].events) <= WindowSize

(* Whatever signals, feedback, metrics and flips do to the order, no
   strategy is lost from it or tried twice. *)
OrderComplete ==
    decision.order # <<>> => \E r \in Failures \cap Ranked :
        /\ IsInjective(decision.order)
        /\ ToSet(decision.order) = ToSet(Normalized(r))

(* No strategy exceeds its budget, and the message is as much shorter as it
   was shortened: retries with the same model cannot go on for ever. *)
WithinBudget ==
    /\ \A s \in Strategies : applied[s] <= Budget[s]
    /\ MessageSize - size = applied["prompt_compaction"] + applied["payload_truncation"]

(* A strategy gets the credit of the call after it, and of no other: there
   is a credit only while that call is out or its failure is handled. *)
CreditsOnce == credit # <<>> /\ phase # "idle" => decision.took # NoStrategy

(* Every model of the route is in it once, whichever the budget puts first. *)
RouteComplete == IsInjective(lineup) /\ ToSet(lineup) = ModelsOf

(* The tasks are open as long as the request goes on.  Afterwards they are
   completed or failed, unless they were left: by a refusal before the try,
   a cancellation, a send that failed after the answer or a status that
   could not be written (pipeline_runner.py run). *)
TasksFollow == tasks = "open" <=> phase # "idle"

(* Recovery keeps its order complete, its budgets and its books. *)
RecoverySound ==
    RecoveryTypeOK /\ OrderComplete /\ WithinBudget /\ CreditsOnce /\ RouteComplete /\ TasksFollow

(* A strategy that was applied for a reason and followed by a failure for
   the same reason is the last one to be tried again. *)
FailedStrategyDemoted ==
    decision.before \in ToSet(decision.order) => Last(decision.order) = decision.before
=============================================================================

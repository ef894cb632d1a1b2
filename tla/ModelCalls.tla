----------------------------- MODULE ModelCalls -----------------------------
(***************************************************************************)
(* Calls of the language model (llm_client.py): the kinds of request, their *)
(* attempts and the assembly of streamed tool calls; the measured health   *)
(* of models and the choice among them (model_health_tracker.py,           *)
(* model_routing/router.py); the limiter of incoming requests              *)
(* (rate_limiter.py).  Left out: payloads, headers, temperatures; a status *)
(* is the class the client tells apart.                                    *)
(***************************************************************************)
EXTENDS Lists, SequencesExt

CONSTANTS
    MaxTries,       \* MAX_RETRIES
    Indices,        \* of tool calls in a stream
    MaxChunks       \* bound: chunks of a stream

ASSUME ModelCallsAssumption == MaxTries \in Nat \ {0}

(* stream_chat_completion, complete_chat and complete_chat_with_tools, and
   the runner's stream_chat_with_tools, which has no check for a model that
   is out of memory; "native" are the same calls of the Ollama API. *)
Kinds == {"stream", "complete", "select", "runner"}
ChecksMemory(c) == c.kind # "runner"
Streams(c) == c.kind = "stream" \/ (c.kind = "runner" /\ ~c.native)

-----------------------------------------------------------------------------
VARIABLE call   \* [kind, native, at, tries, passed, chunks, outcome]
callVars == <<call>>

NewCall(kind, native) ==
    [kind |-> kind, native |-> native, at |-> "asking", tries |-> 1,
     passed |-> 0,          \* pieces of text passed on
     collected |-> [i \in {} |-> "none"],  \* [index -> [name, pieces]] of tool calls
     arrived |-> <<>>,      \* history: their fragments, in order
     outcome |-> "none",
     exhausted |-> FALSE]   \* history: an attempt said the model has too little memory

(* A native client has no tool calls: selecting tools returns none at once. *)
CallInit ==
    \E kind \in Kinds, native \in BOOLEAN :
      call = IF kind = "select" /\ native THEN [NewCall(kind, native) EXCEPT !.at = "over", !.outcome = "nothing"]
             ELSE NewCall(kind, native)

Over2(outcome) == call' = [call EXCEPT !.at = "over", !.outcome = outcome]

(* A status of 400 and above: a body that speaks of memory ends the call, a
   retryable status waits for the next attempt while there is one. *)
TriesAgainOnceMore(retryable) == retryable /\ call.tries <= MaxTries

TriesAgain(retryable) == retryable /\ call.tries < MaxTries

Refused(retryable, memory) ==
    /\ call.at = "asking"
    /\ LET known == [call EXCEPT !.exhausted = @ \/ memory]
       IN call' = IF memory /\ ChecksMemory(call) THEN [known EXCEPT !.at = "over", !.outcome = "exhausted"]
                  ELSE IF TriesAgain(retryable) THEN [known EXCEPT !.at = "pause"]
                  ELSE [known EXCEPT !.at = "over", !.outcome = "error"]
Resume == call.at = "pause" /\ call' = [call EXCEPT !.at = "asking", !.tries = @ + 1]

(* Timeouts and broken connections end the call, whatever was passed on. *)
Breaks(outcome) == call.at \in {"asking", "streaming"} /\ Over2(outcome)
Abandoned == call.at # "over" /\ Over2("abandoned")

(* A whole answer; an empty one is an error to those who want text. *)
Answered2(empty, tools) ==
    /\ call.at = "asking" /\ ~Streams(call)
    /\ CASE call.kind = "complete" /\ empty -> Over2("error")
         [] call.kind = "select" -> Over2(IF tools THEN "tools" ELSE "nothing")
         [] OTHER -> call' = [call EXCEPT !.at = "over", !.outcome = "text", !.passed = IF call.kind = "runner" /\ ~empty THEN 1 ELSE 0]

StreamOpens == call.at = "asking" /\ Streams(call) /\ call' = [call EXCEPT !.at = "streaming"]
Room == call.passed + Len(call.arrived) < MaxChunks
TextChunk == call.at = "streaming" /\ Room /\ call' = [call EXCEPT !.passed = @ + 1]

(* Fragments of several tool calls come interleaved; the index says whose:
   a name replaces the one before, a piece of the arguments is added. *)
Grown(entry, name, piece) ==
    [name |-> IF name # "none" THEN name ELSE entry.name, pieces |-> Append(entry.pieces, piece)]

ToolChunk(index, name) ==
    /\ call.at = "streaming" /\ call.kind = "runner" /\ Room
    /\ \E old \in {IF index \in DOMAIN call.collected THEN call.collected[index] ELSE [name |-> name, pieces |-> <<>>]} :
         call' = [call EXCEPT !.collected = [i \in DOMAIN @ \union {index} |->
                                  IF i = index THEN Grown(old, name, Len(call.arrived) + 1) ELSE @[i]],
                              !.arrived = Append(@, [index |-> index, name |-> name])]

(* The calls, in the order of their indices, are handed on whatever becomes of
   their arguments; a stream cut for its length says so. *)
StreamEnds(reason) ==
    /\ call.at = "streaming"
    /\ Over2(IF reason = "tool_calls" \/ (call.arrived # <<>> /\ reason # "length") THEN "tools"
             ELSE IF reason = "length" THEN "cut" ELSE "text")

CallNext ==
    \/ \E retryable, memory \in BOOLEAN : Refused(retryable, memory)
    \/ Resume \/ Breaks("timeout") \/ Breaks("error") \/ Abandoned
    \/ \E empty, tools \in BOOLEAN : Answered2(empty, tools)
    \/ StreamOpens \/ TextChunk \/ \E i \in Indices, name \in {"none", "read", "write"} : ToolChunk(i, name)
    \/ \E reason \in {"stop", "length", "tool_calls"} : StreamEnds(reason)
CallSpec == CallInit /\ [][CallNext]_callVars

(* A model that is out of memory is not asked again, except by the runner; a
   request is repeated only while nothing of it was passed on; interleaved
   tool calls come out as each was sent (llm_client.py). *)
Fragments(i) == {n \in DOMAIN call.arrived : call.arrived[n].index = i}
NamedAt(i) == {n \in Fragments(i) : call.arrived[n].name # "none"}
InOrder(pieces) == \A m, n \in DOMAIN pieces : m < n => pieces[m] < pieces[n]
CallSound ==
    /\ call.tries <= MaxTries
    /\ (call.exhausted /\ ChecksMemory(call)) => (call.outcome = "exhausted" /\ call.passed = 0)
    /\ call.at \in {"asking", "pause"} => (call.passed = 0 /\ call.arrived = <<>>)
    /\ DOMAIN call.collected = {f.index : f \in ToSet(call.arrived)}
    /\ \A i \in DOMAIN call.collected :
         /\ ToSet(call.collected[i].pieces) = Fragments(i) /\ InOrder(call.collected[i].pieces)
         /\ NamedAt(i) = {} => call.collected[i].name = "none"
         /\ \A n \in NamedAt(i) : (\A m \in NamedAt(i) : m <= n) => call.collected[i].name = call.arrived[n].name
    /\ call.outcome = "text" => call.arrived = <<>>

-----------------------------------------------------------------------------
(* Health of models and the route.                                         *)

CONSTANTS
    HealthModels,       \* in the order of the candidates without a request
    RingSize, MinSamples,
    StaticScore         \* [model -> score of its static profile, in points]

AllModels == ToSet(HealthModels)
ASSUME HealthAssumption ==
    /\ HealthModels \in Seq(AllModels) /\ IsInjective(HealthModels) /\ "none" \notin AllModels
    /\ RingSize \in Nat /\ MinSamples \in Nat \ {0} /\ StaticScore \in [AllModels -> Int]

VARIABLES
    ring,       \* [model -> outcomes of its last calls]
    aged,       \* models whose last call is too long ago
    savedHealth \* [model -> <<successes, count>>] in the snapshot file
healthVars == <<ring, aged, savedHealth>>

Summary(samples) == <<Cardinality({n \in DOMAIN samples : samples[n]}), Len(samples)>>
Snapshot(m) == Summary(ring[m])
Successes(m) == Snapshot(m)[1]

HealthInit ==
    /\ ring = [m \in AllModels |-> <<>>] /\ aged = {}
    /\ savedHealth = [m \in AllModels |-> <<0, 0>>]
RecordCall(m, ok) ==
    /\ ring' = [ring EXCEPT ![m] = Latest(Append(@, ok), RingSize)] /\ aged' = aged \ {m}
    /\ UNCHANGED savedHealth
GrowStale(m) == ring[m] # <<>> /\ aged' = aged \union {m} /\ UNCHANGED <<ring, savedHealth>>

(* persist_sync at shutdown alone; load_persisted makes samples of the score,
   the successes first, as if they were new. *)
Restored(saved) == [n \in 1 .. Min({saved[2], RingSize}) |-> n <= saved[1]]
Restart2(saved) ==
    /\ savedHealth' = saved /\ aged' = {}
    /\ ring' = [m \in AllModels |-> Restored(saved[m])]
ShutDown == Restart2([m \in AllModels |-> Snapshot(m)])
CrashDown == Restart2(savedHealth)

HealthNext ==
    \/ \E m \in AllModels : GrowStale(m) \/ \E ok \in BOOLEAN : RecordCall(m, ok)
    \/ ShutDown \/ CrashDown
HealthSpec == HealthInit /\ [][HealthNext]_healthVars

(* apply_to_profile: measured values count once there are enough fresh
   samples. *)
Measured(m) == m \notin aged /\ Len(ring[m]) >= MinSamples
Points == 10
Score(m) == IF Measured(m) THEN (Points * Successes(m)) \div Len(ring[m]) ELSE StaticScore[m]

(* route: the candidates without repeats; a requested model comes first, the
   rest by score, equal ones as they were listed. *)
ByScore(s) == SortedBy(s, [i \in DOMAIN s |-> Score(s[i])])
Route(requested) ==
    IF requested = "none" THEN ByScore(HealthModels)
    ELSE <<requested>> \o ByScore(Without(HealthModels, requested))

(* What a restart makes of a snapshot scores as the calls it sums up; a route
   tries every candidate once, the requested model first, and no candidate
   behind a worse one (model_routing/router.py, services/model_health_tracker.py). *)
HealthSound ==
    /\ \A m \in AllModels : Len(ring[m]) <= RingSize /\ Summary(Restored(Snapshot(m))) = Snapshot(m)
    /\ \A r \in AllModels \union {"none"} : \A route \in {Route(r)} :
         /\ ToSet(route) = AllModels /\ IsInjective(route) /\ (r # "none" => route[1] = r)
         /\ \A n \in 1 .. Len(route) - 1 : (n > 1 \/ r = "none") => Score(route[n]) >= Score(route[n + 1])

-----------------------------------------------------------------------------
(* The token bucket.                                                       *)

CONSTANTS
    Clients, Burst, Rate, IdleTime, \* Rate: tokens for each unit of time
    MaxNow              \* bound: of the clock

ASSUME LimiterAssumption ==
    /\ Burst \in Nat \ {0} /\ Rate \in Nat /\ IdleTime \in Nat /\ MaxNow \in Nat
    /\ Rate * IdleTime >= Burst

VARIABLES
    now, lastCleanup,
    bucket,     \* [client -> [tokens, refilled], or NoBucket]
    granted     \* history: [client -> times of the requests let through]
limiterVars == <<now, lastCleanup, bucket, granted>>

NoBucket == [tokens |-> -1, refilled |-> 0]
LimiterInit ==
    /\ now = 0 /\ lastCleanup = 0
    /\ bucket = [c \in Clients |-> NoBucket] /\ granted = [c \in Clients |-> <<>>]
Tick == now < MaxNow /\ now' = now + 1 /\ UNCHANGED <<lastCleanup, bucket, granted>>

Refill(b) == [tokens |-> Min({Burst, b.tokens + Rate * (now - b.refilled)}), refilled |-> now]

(* allow: buckets idle for long are dropped first, now and then; the client's
   own is refilled and, if it has a token, gives it. *)
Cleaned2 == [c \in Clients |-> IF bucket[c] # NoBucket /\ now - bucket[c].refilled > IdleTime THEN NoBucket ELSE bucket[c]]

Allow(c) ==
    \E kept \in {IF now - lastCleanup > IdleTime THEN Cleaned2 ELSE bucket} :
    \E b \in {IF kept[c] = NoBucket THEN [tokens |-> Burst, refilled |-> now] ELSE Refill(kept[c])} :
      /\ lastCleanup' = IF now - lastCleanup > IdleTime THEN now ELSE lastCleanup
      /\ bucket' = [kept EXCEPT ![c] = [b EXCEPT !.tokens = IF @ >= 1 THEN @ - 1 ELSE @]]
      /\ granted' = IF b.tokens >= 1 THEN [granted EXCEPT ![c] = Append(@, now)] ELSE granted
      /\ UNCHANGED now

LimiterNext == Tick \/ \E c \in Clients : Allow(c)
LimiterSpec == LimiterInit /\ [][LimiterNext]_limiterVars

(* In no stretch of time does a client get more than a burst and the tokens
   of that time, cleanups included; and each has a bucket of its own. *)
RateKept ==
    \A c \in Clients : \A m, n \in DOMAIN granted[c] :
        m <= n => n - m + 1 <= Burst + Rate * (granted[c][n] - granted[c][m])

-----------------------------------------------------------------------------
ModelCallsTypeOK ==
    /\ call.tries \in 1 .. MaxTries /\ aged \subseteq AllModels
    /\ \A c \in Clients : bucket[c] = NoBucket \/ bucket[c].tokens \in 0 .. Burst
    /\ lastCleanup <= now

ModelCallsSound == ModelCallsTypeOK /\ CallSound /\ HealthSound /\ RateKept
=============================================================================

----------------------------- MODULE Knowledge -----------------------------
(***************************************************************************)
(* What agents remember across sessions: the store of failures, episodes   *)
(* and facts with its full-text index (long_term_memory.py), the agent's   *)
(* use of it (agent.py), and the reflection verdicts and their records     *)
(* (reflection_service.py, reflection_feedback_store.py).  SQLite is       *)
(* external: INSERT OR REPLACE takes the row number after the largest one  *)
(* before it drops the replaced row, and drops that row without firing     *)
(* the delete triggers, so the index keeps its terms.  An entry has a term *)
(* every search reads and one only the index reads; no term contains       *)
(* another.  Left out: wording, prompts and columns no search reads.       *)
(***************************************************************************)
EXTENDS Lists, SequencesExt

CONSTANTS
    Terms,      \* words of three letters or more
    ShortWords, \* words no search by terms uses
    FactKeys,
    Asks,       \* request ids
    TaskTypes,
    Threshold,  \* [task type -> score in percent, below which an answer is retried]
    Results,    \* pairs of brackets in the tools' results and errors in them
    HardMin,    \* grounding in percent below which it always is
    MaxWrites

ASSUME KnowledgeAssumption ==
    /\ MaxWrites \in Nat /\ HardMin \in 0..100 /\ Terms \cap ShortWords = {}
    /\ Threshold \in [TaskTypes -> Nat]

Tables == {"failures", "episodes", "facts"}

VARIABLES
    tables,     \* [kind -> function from primary keys to entries]
    postings,   \* [kind -> set of <<row, term>>]
    triggers,   \* the database file has the index and its triggers
    store,      \* the agent's store: "none", "like" or "fts"
    wanted,     \* settings: "off", "like" or "fts"
    ask,        \* [request -> "new", "running", "failed", "distilling" or "over"]
    writes,     \* rows written, the clock of the timestamps
    keeper,     \* the runner was built while its agent had a store
    verdicts    \* reflection records, oldest first
knowledgeVars == <<tables, postings, triggers, store, wanted, ask, writes>>
verdictVars == <<keeper, verdicts>>

Remember(term, aside, from, trust) ==
    [row |-> 0, term |-> term, aside |-> aside, from |-> from, trust |-> trust, at |-> writes]
Mentioned(e) == {e.term, e.aside}

KnowledgeInit ==
    /\ tables = [t \in Tables |-> <<>>] /\ postings = [t \in Tables |-> {}] /\ triggers = FALSE
    /\ store = "none" /\ wanted \in {"off", "fts"} /\ writes = 0
    /\ ask = [r \in Asks |-> "new"]

-----------------------------------------------------------------------------
(* The store.                                                              *)

EntriesOf(t) == {tables[t][k] : k \in DOMAIN tables[t]}
NextRow(t, k) == 1 + Max({0} \union {e.row : e \in EntriesOf(t)})

InsertOrReplace(t, k, e) ==
    LET row == NextRow(t, k)
    IN /\ tables' = [tables EXCEPT ![t] =
              [l \in DOMAIN @ \union {k} |-> IF l = k THEN [e EXCEPT !.row = row] ELSE @[l]]]
       /\ postings' = [postings EXCEPT ![t] =
              IF triggers THEN @ \union ({row} \X Mentioned(e)) ELSE @]
       /\ writes' = writes + 1

AddFailure(r, term, aside) == InsertOrReplace("failures", r, Remember(term, aside, r, 100))
AddEpisodic(r, term, aside) == InsertOrReplace("episodes", writes, Remember(term, aside, r, 100))
AddSemantic(k, term, r, trust) == InsertOrReplace("facts", k, Remember(term, term, r, trust))

(* _build_fts_query drops short words; the triggers index every other. *)
QueryTerms(words) == words \ ShortWords
FtsHits(t, words) ==
    {k \in DOMAIN tables[t] : \E w \in QueryTerms(words) : <<tables[t][k].row, w>> \in postings[t]}

Newest(t, keys, n) ==
    {k \in keys : Cardinality({l \in keys : tables[t][l].at > tables[t][k].at}) < n}
LikeHits(t, words) ==
    LET looked == IF QueryTerms(words) = {} THEN words ELSE QueryTerms(words)
    IN {k \in DOMAIN tables[t] : words = {} \/ tables[t][k].term \in looked}
\* By rank: any n of the hits, or all.
BestOf(keys, n) ==
    {S \in SUBSET keys : Cardinality(S) = IF Cardinality(keys) < n THEN Cardinality(keys) ELSE n}

(* A search by index that fails falls back. *)
ByIndex(words, broken) == store = "fts" /\ QueryTerms(words) # {} /\ ~broken
FailuresLike(words, n) == Newest("failures", LikeHits("failures", words), n)
EpisodesLike(words, n) == Newest("episodes", LikeHits("episodes", words), n)
AllSemantic(n) == Newest("facts", DOMAIN tables["facts"], n)
SearchFailures(words, broken, n) ==
    IF ByIndex(words, broken) THEN BestOf(FtsHits("failures", words), n) ELSE {FailuresLike(words, n)}
SearchEpisodic(words, broken, n) ==
    IF ByIndex(words, broken) THEN BestOf(FtsHits("episodes", words), n) ELSE {EpisodesLike(words, n)}
SearchSemantic(words, broken, n) ==
    IF ByIndex(words, broken) THEN BestOf(FtsHits("facts", words), n) ELSE {AllSemantic(n)}

(* Opening the file: the index is made, unless that fails, and rebuilt. *)
Rebuilt(t) == UNION {{e.row} \X Mentioned(e) : e \in EntriesOf(t)}
EnsureSchema(index, works) ==
    IF index /\ works
    THEN /\ triggers' = TRUE /\ store' = "fts"
         /\ postings' = [t \in Tables |-> Rebuilt(t)]
    ELSE store' = "like" /\ UNCHANGED <<triggers, postings>>

-----------------------------------------------------------------------------
(* The agent.                                                              *)

(* _refresh_long_term_memory_store: a store that is open stays as it was
   opened; one that does not open leaves the agent without. *)
Open(opens, works) ==
    IF wanted # "off" /\ opens THEN EnsureSchema(wanted = "fts", works)
    ELSE store' = "none" /\ UNCHANGED <<triggers, postings>>
Refresh(opens, works) ==
    IF wanted # "off" /\ store # "none" THEN UNCHANGED <<store, triggers, postings>>
    ELSE Open(opens, works)

ChangeSettings(v) ==
    /\ wanted # v /\ wanted' = v
    /\ UNCHANGED <<tables, postings, triggers, store, ask, writes>>
Reopened(opens, works) ==
    /\ Open(opens, works)
    /\ ask' = [r \in Asks |-> IF ask[r] = "new" THEN "new" ELSE "over"]
    /\ UNCHANGED <<tables, wanted, writes>>

(* run: the store is looked at anew, then the context is built. *)
StartAsk(r, opens, works) ==
    /\ ask[r] = "new" /\ ask' = [ask EXCEPT ![r] = "running"]
    /\ Refresh(opens, works)
    /\ UNCHANGED <<tables, wanted, writes>>
(* What a run may be told of: a failure or two and some facts. *)
Told(failures, facts) == {tables["failures"][k] : k \in failures} \union {tables["facts"][k] : k \in facts}
LongTermContexts(words, broken) ==
    IF store = "none" THEN {}
    ELSE UNION {{Told(f, s) : s \in SearchSemantic(words, broken, 10)} : f \in SearchFailures(words, broken, 2)}

(* A run that raises is journaled under its request, if there is a store
   that takes it. *)
AskFails(r, term, aside) ==
    /\ ask[r] = "running" /\ ask' = [ask EXCEPT ![r] = "failed"]
    /\ \/ store # "none" /\ writes < MaxWrites /\ AddFailure(r, term, aside)
       \/ UNCHANGED <<tables, postings, writes>>
    /\ UNCHANGED <<triggers, store, wanted>>
(* One that ends well is distilled in a task of its own, unless there is no
   store or hardly an answer. *)
AskEnds(r, telling) ==
    /\ ask[r] = "running"
    /\ ask' = [ask EXCEPT ![r] = IF store # "none" /\ telling THEN "distilling" ELSE "over"]
    /\ UNCHANGED <<tables, postings, triggers, store, wanted, writes>>
(* Half of the model's confidence is given, the rest earned by the share of
   tool results that are no errors. *)
Confidence(marks, errors) == 90 - (40 * errors) \div (IF marks = 0 THEN 1 ELSE marks)
(* The model's answer is written to the store the agent has by then; without
   one, or without JSON in the answer, the task ends. *)
Distilled(r, term) ==
    /\ ask[r] = "distilling" /\ store # "none" /\ writes < MaxWrites
    /\ ask' = [ask EXCEPT ![r] = "facts"]
    /\ AddEpisodic(r, term, term)
    /\ UNCHANGED <<triggers, store, wanted>>
FactDistilled(r, term, k) ==
    /\ ask[r] \in {"distilling", "facts"} /\ store # "none" /\ writes < MaxWrites
    /\ ask' = [ask EXCEPT ![r] = "facts"]
    /\ \E of \in Results : AddSemantic(k, term, r, Confidence(of[1], of[2]))
    /\ UNCHANGED <<triggers, store, wanted>>
DistillOver(r) ==
    /\ ask[r] \in {"distilling", "facts"} /\ ask' = [ask EXCEPT ![r] = "over"]
    /\ UNCHANGED <<tables, postings, triggers, store, wanted, writes>>

-----------------------------------------------------------------------------
(* Reflection.                                                             *)

(* The scores in percent an answer of the model gives, or what it is when
   none can be read: text around an object with an object inside is cut at
   the first closing brace. *)
Readable == {"object", "wrapped"}
Clamp(n) == IF n < 0 THEN 0 ELSE IF n > 100 THEN 100 ELSE n
ParseVerdict(form, aim, whole, ground, task) ==
    IF form \notin Readable
    THEN [score |-> 0, retry |-> TRUE, hard |-> TRUE]
    ELSE LET sum == Clamp(aim) + Clamp(whole) + Clamp(ground)
             hard == Clamp(ground) < HardMin
         IN [score |-> sum \div 3, retry |-> sum < 3 * Threshold[task] \/ hard, hard |-> hard]

(* Stored under the request and the number of its pass; the runner keeps the
   store, or the lack of one, it was built with. *)
VerdictInit == keeper \in BOOLEAN /\ verdicts = <<>>
Reflect(r, task, form, aim, whole, ground) ==
    /\ keeper
    /\ LET v == ParseVerdict(form, aim, whole, ground, task)
           mine == OnlyAt(verdicts, {i \in DOMAIN verdicts : verdicts[i].of = r})
       IN /\ IF mine = <<>> THEN TRUE ELSE Len(mine) < 2 /\ Last(mine).retry
          /\ verdicts' = Append(verdicts, [of |-> r, task |-> task, score |-> v.score, retry |-> v.retry])
    /\ UNCHANGED keeper
VerdictNext ==
    \E r \in Asks, task \in TaskTypes, form \in {"object", "nested"} :
        \E ground \in {20, 90} : Reflect(r, task, form, 60, 60, ground)
VerdictSpec == VerdictInit /\ [][VerdictNext]_verdictVars

Recent(n) == Latest(verdicts, n)
ScoresOf(task, n) ==
    LET own == OnlyAt(Recent(n), {i \in DOMAIN Recent(n) : Recent(n)[i].task = task})
    IN [i \in DOMAIN own |-> own[i].score]
AvgScores(n) ==
    [task \in {x.task : x \in ToSet(Recent(n))} |-> SumOf(ScoresOf(task, n)) \div Len(ScoresOf(task, n))]
WeakTaskTypes(cutoff, n) == {task \in DOMAIN AvgScores(n) : AvgScores(n)[task] < cutoff}

-----------------------------------------------------------------------------
KnowledgeNext ==
    \/ \E v \in {"off", "like", "fts"} : ChangeSettings(v)
    \/ \E opens, works \in BOOLEAN : Reopened(opens, works)
    \/ \E r \in Asks : \E opens, works \in BOOLEAN : StartAsk(r, opens, works)
    \/ \E r \in Asks, term, aside \in Terms : AskFails(r, term, aside)
    \/ \E r \in Asks, telling \in BOOLEAN : AskEnds(r, telling)
    \/ \E r \in Asks, term \in Terms : Distilled(r, term)
    \/ \E r \in Asks, term \in Terms, k \in FactKeys : FactDistilled(r, term, k)
    \/ \E r \in Asks : DistillOver(r)
KnowledgeSpec == KnowledgeInit /\ [][KnowledgeNext]_knowledgeVars

(* The index keeps terms of entries that were replaced; still a search by it
   finds exactly the entries that mention a term now: no row number comes
   back (long_term_memory.py: INSERT OR REPLACE, the triggers, 'rebuild'). *)
FindsLive ==
    store = "fts" => \A t \in Tables, w \in Terms :
        FtsHits(t, {w}) = {k \in DOMAIN tables[t] : w \in Mentioned(tables[t][k])}
(* So what a context quotes is about what was asked. *)
ContextsMatch ==
    store = "fts" => \A words \in SUBSET (Terms \union ShortWords) : \A c \in LongTermContexts(words, FALSE) :
        QueryTerms(words) # {} => \A e \in c : Mentioned(e) \cap QueryTerms(words) # {}
(* A request is remembered as failed or as done, never both, whatever the
   settings do while its distillation waits for the model. *)
JournalApart ==
    LET done == {e.from : e \in EntriesOf("episodes") \union EntriesOf("facts")}
    IN /\ DOMAIN tables["failures"] \cap done = {}
       /\ \A r \in done : ask[r] \in {"facts", "over"}
(* A better score never turns an accepted answer into one to retry. *)
Scores == {0, 30, 60, 100}
RetryMonotone ==
    \A task \in TaskTypes : \A a, w, g, a2, w2, g2 \in Scores :
        /\ a <= a2 /\ w <= w2 /\ g <= g2
        /\ ParseVerdict("object", a2, w2, g2, task).retry
        => ParseVerdict("object", a, w, g, task).retry
(* Task types that count as weak have asked for a retry lately, where the
   threshold for retries is no lower than the one for weakness. *)
WeakWereRetried ==
    \A task \in WeakTaskTypes(65, 3) :
        Threshold[task] >= 65 => \E x \in ToSet(Recent(3)) : x.task = task /\ x.retry

KnowledgeSound == FindsLive /\ ContextsMatch /\ JournalApart /\ RetryMonotone /\ WeakWereRetried
=============================================================================

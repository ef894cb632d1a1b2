---------------------------- MODULE Coordination ----------------------------
(***************************************************************************)
(* multi_agency: the supervisor that hands tasks to agents and judges their *)
(* results (supervisor.py), the blackboard it writes to (blackboard.py),    *)
(* the confidence router that judges a finished subrun from what it says of *)
(* itself and from the agent's record (confidence_router.py, called through *)
(* coordination_bridge.py), and votes on results (consensus.py).            *)
(* Only the router is reached by a running backend; the rest is reached by  *)
(* the package's own tests.  The three groups share no state: each has its  *)
(* own variables and next-state relation.  The bridge's watcher, which the  *)
(* application never installs, is left out.  Confidences are percentages,   *)
(* rounded down where the code divides.                                     *)
(***************************************************************************)
EXTENDS Integers, FiniteSets, SequencesExt, Lists

CONSTANTS
    AgentOrder,       \* the registry: agents in order
    Delegatable, Reviewers,   \* those that take delegated work, and review
    Skill,            \* [agent -> [task -> capability_score, in percent]]
    HighTier, Threshold,   \* agents of high quality; confidence_threshold, the same for all
    Room,             \* [agent -> max_concurrent_tasks]
    Jobs,             \* tasks
    Runners, Panel,   \* agents that run subruns, and that vote
    Marks,            \* confidences a result may have
    MaxRedelegations, BoardHistory, RecordLength,   \* limits
    Answers,          \* results that are voted on
    MaxReports, BallotSize   \* bounds: reports of a task, votes

MinConfidence == 60
RedelegateBelow == 40
AcceptFrom == 70
ReviewFrom == 50
RejectBelow == 30
RecordShare == 30     \* percent of the record in a score

AgentsOf == ToSet(AgentOrder)
NoAgent == "none"

ASSUME CoordinationAssumption ==
    /\ AgentOrder \in Seq(AgentsOf) /\ IsInjective(AgentOrder) /\ NoAgent \notin AgentsOf
    /\ Delegatable \subseteq AgentsOf /\ Reviewers \subseteq AgentsOf
    /\ HighTier \subseteq AgentsOf /\ Threshold \in 0..100
    /\ Runners \subseteq AgentsOf /\ Panel \subseteq AgentsOf
    /\ Skill \in [AgentsOf -> [Jobs -> 0..100]] /\ Room \in [AgentsOf -> Nat]
    /\ Marks \subseteq 0..100 /\ MaxRedelegations \in Nat /\ BoardHistory \in Nat \ {0}
    /\ Jobs # {}
    /\ RecordLength \in Nat \ {0} /\ BallotSize \in Nat /\ MaxReports \in [Jobs -> Nat]

VARIABLES
    job,        \* of each task: [status, agent, tries, mark]
    session,    \* status of the coordination session
    offers,     \* history: agents each task was ever given to
    reports,    \* results written to the board and not yet judged
    board,      \* of each task: history of its "results" key, [author, soon]
    version,    \* and the version of its current entry
    clashes     \* and the conflicts recorded for it
supervisorVars == <<job, session, offers, reports, board, version, clashes>>

VARIABLES
    record,     \* of each agent: the confidences recorded for it
    handover     \* the router's last decision
routerVars == <<record, handover>>

VARIABLE ballot \* votes on a result: [agent, answer, mark]

-----------------------------------------------------------------------------
(* supervisor.py and blackboard.py.                                        *)

Position(a) == CHOOSE i \in DOMAIN AgentOrder : AgentOrder[i] = a
Before(a, b, j) ==
    Skill[a][j] > Skill[b][j] \/ (Skill[a][j] = Skill[b][j] /\ Position(a) < Position(b))
Foremost(agents, j) == CHOOSE a \in agents : \A b \in agents \ {a} : Before(a, b, j)

Skilled(j) == {a \in Delegatable : Skill[a][j] > 0}
Load(a) == Cardinality({j \in Jobs : job[j].agent = a /\ job[j].status = "assigned"})
Free(agents) == {a \in agents : Load(a) < Room[a]}

\* The best agent; when it is busy the next one with room, if there is one.
Chosen(j) ==
    LET best == Foremost(Skilled(j), j)
    IN IF best \in Free({best}) \/ Free(Skilled(j)) = {} THEN best
       ELSE Foremost(Free(Skilled(j)), j)

Task(status, agent, tries, mark) ==
    [status |-> status, agent |-> agent, tries |-> tries, mark |-> mark]
TaskBecomes(j, task) == job' = [job EXCEPT ![j] = task]
IsOffered(j, a) == offers' = [offers EXCEPT ![j] = @ \union {a}]

SupervisorInit ==
    /\ job = [j \in Jobs |-> Task("unknown", NoAgent, 0, 0)]
    /\ session = "active" /\ offers = [j \in Jobs |-> {}] /\ reports = {}
    /\ board = [j \in Jobs |-> <<>>] /\ version = [j \in Jobs |-> 0] /\ clashes = [j \in Jobs |-> 0]

boardVars == <<board, version, clashes>>

(* decompose_and_assign, of one task: dependencies are noted, not awaited. *)
Assign(j) ==
    /\ job[j].status = "unknown"
    /\ IF Skilled(j) = {}
       THEN TaskBecomes(j, Task("failed", NoAgent, 0, 0)) /\ UNCHANGED offers
       ELSE TaskBecomes(j, Task("assigned", Chosen(j), 0, 0)) /\ IsOffered(j, Chosen(j))
    /\ UNCHANGED <<session, reports, boardVars>>

Posting(author, soon) == [author |-> author, soon |-> soon]

(* Blackboard.write: the version counts up, the history is trimmed, and a
   write of another agent within the window is a conflict. *)
Write(j, a, soon) ==
    /\ board' = [board EXCEPT ![j] = Latest(Append(@, Posting(a, soon)), BoardHistory)]
    /\ version' = [version EXCEPT ![j] = @ + 1]
    /\ clashes' = IF soon /\ board[j] # <<>> /\ Last(board[j]).author # a
                  THEN [clashes EXCEPT ![j] = @ + 1] ELSE clashes

(* report_result up to the watchers of the board: an agent reports a task it
   was once given, also one that was taken from it or cancelled. *)
Report(j, a, mark) ==
    /\ a \in offers[j] /\ version[j] < MaxReports[j]
    /\ \E soon \in BOOLEAN : Write(j, a, soon)
    /\ reports' = reports \union {[job |-> j, agent |-> a, mark |-> mark, at |-> version[j] + 1]}
    /\ UNCHANGED <<job, session, offers>>

(* _check_session_completion, after a task was completed. *)
SessionAfter(js) ==
    LET done == {j \in DOMAIN js : js[j].status \in {"completed", "cancelled"}}
        known == {j \in DOMAIN js : js[j].status # "unknown"}
    IN IF done = known THEN "completed"
       ELSE IF /\ \E j \in known : js[j].status = "failed"
               /\ \A j \in known : js[j].status # "assigned"
       THEN "failed" ELSE session

(* _redelegate: the task goes to the best other agent, or has failed. *)
Alternatives(j) == Skilled(j) \ {job[j].agent}
Redelegate(j) ==
    /\ \/ /\ Alternatives(j) = {}
          /\ TaskBecomes(j, Task("failed", job[j].agent, job[j].tries + 1, job[j].mark))
          /\ UNCHANGED offers
       \/ /\ Alternatives(j) # {}
          /\ LET next == Foremost(Alternatives(j), j)
             IN /\ TaskBecomes(j, Task("assigned", next, job[j].tries + 1, job[j].mark))
                /\ IsOffered(j, next)
    /\ UNCHANGED session

(* The quality gate: another agent, a review, or done. *)
GivesOneTryMore(r) == r.mark < RedelegateBelow /\ job[r.job].tries <= MaxRedelegations

GivesAnotherTry(r) == r.mark < RedelegateBelow /\ job[r.job].tries < MaxRedelegations

Judge(r) ==
    /\ r \in reports /\ reports' = reports \ {r}
    /\ LET j == r.job
       IN \/ GivesAnotherTry(r) /\ Redelegate(j)
          \/ /\ ~GivesAnotherTry(r) /\ r.mark < MinConfidence
             /\ TaskBecomes(j, Task("review", job[j].agent, job[j].tries, r.mark))
             /\ UNCHANGED <<session, offers>>
          \/ /\ ~GivesAnotherTry(r) /\ r.mark >= MinConfidence
             /\ TaskBecomes(j, Task("completed", job[j].agent, job[j].tries, r.mark))
             /\ session' = SessionAfter(job') /\ UNCHANGED offers
    /\ UNCHANGED boardVars

CancelJob(j) ==
    /\ job[j].status # "unknown"
    /\ TaskBecomes(j, Task("cancelled", job[j].agent, job[j].tries, job[j].mark))
    /\ UNCHANGED <<session, offers, reports, boardVars>>

SupervisorNext ==
    \/ \E j \in Jobs : Assign(j) \/ CancelJob(j)
    \/ \E j \in Jobs, a \in AgentsOf, m \in Marks : Report(j, a, m)
    \/ \E r \in reports : Judge(r)

-----------------------------------------------------------------------------
(* confidence_router.py.                                                   *)

Handover(action, agent, to, ended) ==
    [action |-> action, agent |-> agent, to |-> to, ended |-> ended]

RouterInit ==
    /\ record = [a \in AgentsOf |-> <<>>]
    /\ handover = Handover("none", NoAgent, NoAgent, "none")

Average(a) == SumOf(record[a]) \div Len(record[a])
Blend(mark, a) ==
    IF record[a] = <<>> THEN mark
    ELSE (mark * (100 - RecordShare) + Average(a) * RecordShare) \div 100

\* A subrun that failed counts a third, one without a valid synthesis half.
Adjusted(mark, a, ended) ==
    IF ended = "failed" THEN (Blend(mark, a) * 3) \div 10
    ELSE IF ended = "unsound" THEN Blend(mark, a) \div 2 ELSE Blend(mark, a)

Action(score) ==
    IF score >= AcceptFrom THEN "accept" ELSE IF score >= ReviewFrom THEN "review"
    ELSE IF score >= RejectBelow THEN "redelegate" ELSE "reject"

First(agents) ==
    IF agents = {} THEN NoAgent ELSE CHOOSE a \in agents : \A b \in agents : Position(a) <= Position(b)
Reviewer(a) == IF Reviewers \ {a} # {} THEN First(Reviewers \ {a}) ELSE First(Delegatable \ {a})
Target(action, a) ==
    IF action = "accept" THEN a
    ELSE IF action = "review" THEN Reviewer(a)
    ELSE IF action = "redelegate" THEN First(Delegatable \ {a}) ELSE NoAgent

(* on_subrun_completed: the handover is judged, and the adjusted score, not
   the one the subrun gave itself, enters the agent's record. *)
SubrunDone(a, mark, ended) ==
    LET score == Adjusted(mark, a, ended)
    IN /\ handover' = Handover(Action(score), a, Target(Action(score), a), ended)
       /\ record' = [record EXCEPT ![a] = Latest(Append(@, score), RecordLength)]

(* route_by_confidence: skill and record together pick an agent; one without
   a record need not reach its threshold. *)
Combined(a, j, wantsHigh) ==
    LET base == IF record[a] = <<>> THEN Skill[a][j]
                ELSE (Skill[a][j] * (100 - RecordShare) + Average(a) * RecordShare) \div 100
    IN IF wantsHigh /\ a \in HighTier THEN (base * 12) \div 10 ELSE base
Eligible(j, wantsHigh) ==
    {a \in Skilled(j) : record[a] = <<>> \/ Combined(a, j, wantsHigh) >= Threshold}
RouteJob(j, wantsHigh) ==
    LET E == Eligible(j, wantsHigh)
        score == [a \in E |-> Combined(a, j, wantsHigh)]
        best == CHOOSE a \in E : \A b \in E \ {a} :
                    score[a] > score[b] \/ (score[a] = score[b] /\ Position(a) < Position(b))
    IN /\ handover' = IF E = {} THEN Handover("reject", NoAgent, NoAgent, "routed")
                      ELSE Handover("accept", NoAgent, best, "routed")
       /\ UNCHANGED record

RouterNext ==
    \/ \E a \in Runners, m \in Marks, e \in {"complete", "unsound", "failed"} : SubrunDone(a, m, e)
    \/ \E j \in Jobs, high \in BOOLEAN : RouteJob(j, high)

-----------------------------------------------------------------------------
(* consensus.py: a vote over the ballot, in the order the votes came in.    *)

BallotInit == ballot = <<>>
CastVote(a, answer, mark) ==
    /\ Len(ballot) < BallotSize
    /\ ballot' = Append(ballot, [agent |-> a, answer |-> answer, mark |-> mark])
BallotNext == \E a \in Panel, x \in Answers, m \in Marks : CastVote(a, x, m)

(* The weight of a vote; by expertise it is the voter's skill for a task. *)
Weight2(v, strategy) ==
    IF strategy = "weighted" THEN v.mark
    ELSE IF strategy = "expertise" THEN Skill[v.agent][CHOOSE j \in Jobs : TRUE] ELSE 1
Backing(b, x, strategy) ==
    SumOf([i \in DOMAIN b |-> IF b[i].answer = x THEN Weight2(b[i], strategy) ELSE 0])
Total(b, strategy) == SumOf([i \in DOMAIN b |-> Weight2(b[i], strategy)])

\* max() takes the first of several equal ones.
Leading(b, strategy) ==
    b[FirstAt({i \in DOMAIN b :
        \A w \in ToSet(b) : Backing(b, w.answer, strategy) <= Backing(b, b[i].answer, strategy)})].answer
SurestFor(b, x) ==
    b[FirstAt({i \in DOMAIN b :
        b[i].answer = x /\ \A w \in ToSet(b) : w.answer = x => w.mark <= b[i].mark})]

(* _best_of_n_vote: the surest vote, always a consensus. *)
BestOfN(b) ==
    b[FirstAt({i \in DOMAIN b : \A w \in ToSet(b) : w.mark <= b[i].mark})]

(* What a vote comes to; unanimous needs a quorum of two. *)
Consensus(reached, answer, agent) == [reached |-> reached, answer |-> answer, agent |-> agent]
NoConsensus == Consensus(FALSE, "none", NoAgent)
Unanimous(b) == Len(b) >= 2 /\ \A v \in ToSet(b) : v.answer = b[1].answer
Outcome(b, strategy) ==
    IF b = <<>> THEN NoConsensus
    ELSE IF strategy = "best" THEN Consensus(TRUE, BestOfN(b).answer, BestOfN(b).agent)
    ELSE IF strategy = "unanimous"
    THEN IF Unanimous(b) THEN Consensus(TRUE, b[1].answer, SurestFor(b, b[1].answer).agent)
         ELSE NoConsensus
    ELSE LET x == Leading(b, strategy)
         IN Consensus(2 * Backing(b, x, strategy) > Total(b, strategy), x, SurestFor(b, x).agent)

-----------------------------------------------------------------------------
SupervisorSpec == SupervisorInit /\ [][SupervisorNext]_supervisorVars
RouterSpec == RouterInit /\ [][RouterNext]_routerVars
BallotSpec == BallotInit /\ [][BallotNext]_ballot

CoordinationTypeOK ==
    /\ \A j \in Jobs : /\ job[j].agent \in AgentsOf \union {NoAgent}
                       /\ Len(board[j]) <= BoardHistory
    /\ session \in {"active", "completed", "failed"}
    /\ \A a \in AgentsOf : Len(record[a]) <= RecordLength /\ ToSet(record[a]) \subseteq 0..100
    /\ handover.action \in {"none", "accept", "review", "redelegate", "reject"}
    /\ Len(ballot) <= BallotSize

(* However late or often results are reported, a task is given to another
   agent at most MaxRedelegations times, and only good work counts as done. *)
GatesHold ==
    \A j \in Jobs :
        /\ job[j].tries <= MaxRedelegations /\ Cardinality(offers[j]) <= 1 + job[j].tries
        /\ job[j].status = "completed" => job[j].mark >= MinConfidence
        /\ job[j].status = "assigned" => job[j].agent \in offers[j] \cap Skilled(j)

(* The blackboard keeps the latest versions of an entry and has a conflict
   for every overwrite of another agent's entry within the window. *)
Overwrites(h) == {i \in 2..Len(h) : h[i].soon /\ h[i].author # h[i - 1].author}
BoardRemembers ==
    \A j \in Jobs :
        /\ Len(board[j]) = IF version[j] < BoardHistory THEN version[j] ELSE BoardHistory
        /\ version[j] <= BoardHistory => clashes[j] = Cardinality(Overwrites(board[j]))
        /\ clashes[j] >= Cardinality(Overwrites(board[j]))

(* The router: a subrun that failed is never accepted or reviewed whatever
   the agent's record and its own confidence; more confidence never leads to
   a worse decision; work is never passed to the agent it came from. *)
Favour(action) ==
    IF action = "accept" THEN 3 ELSE IF action = "review" THEN 2
    ELSE IF action = "redelegate" THEN 1 ELSE 0
RoutingSound ==
    /\ handover.ended = "routed" /\ handover.action = "reject" =>
         \E j \in Jobs : \A a \in Skilled(j) : record[a] # <<>>
    /\ handover.ended = "failed" => handover.action \in {"redelegate", "reject"}
    /\ handover.action \in {"review", "redelegate"} => handover.to # handover.agent
    /\ \A a \in AgentsOf, m, n \in Marks, e \in {"complete", "unsound", "failed"} :
         m <= n => Favour(Action(Adjusted(m, a, e))) <= Favour(Action(Adjusted(n, a, e)))

(* A consensus that is reached does not depend on the order in which the
   votes came in. *)
Reorderings(b) == {[i \in DOMAIN b |-> b[p[i]]] : p \in {q \in [DOMAIN b -> DOMAIN b] : IsInjective(q)}}
ConsensusOrderFree ==
    \A s \in {"majority", "weighted", "expertise", "unanimous"} : Outcome(ballot, s).reached =>
        \A b \in Reorderings(ballot) :
            Outcome(b, s).reached /\ Outcome(b, s).answer = Outcome(ballot, s).answer

(* Tasks, blackboard, routing and votes keep their rules. *)
CoordinationSound == CoordinationTypeOK /\ GatesHold /\ BoardRemembers /\ RoutingSound /\ ConsensusOrderFree
=============================================================================

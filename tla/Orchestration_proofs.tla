------------------------- MODULE Orchestration_proofs -------------------------
(***************************************************************************)
(* Proofs about runs and the work behind them, for every value of the       *)
(* constants.  Runs over REST for any number of requests, keys and events:  *)
(* answers name runs of the same request, a task that ended closed its      *)
(* document, and a closed document is never closed differently.  Executions *)
(* of workflows for any graph, cycles included, and any number of requests: *)
(* what ran is a path of the graph, and neither the file nor a replayed     *)
(* response tells more than happened.  What the parallel executor returns   *)
(* (FanOut), where a message of the bus is (AgentBus), and that tasks, the  *)
(* blackboard, routing and votes keep their rules (Coordination).           *)
(***************************************************************************)
EXTENDS RunControl, Workflow, AgentBus, FanOut, Coordination, Lists_proofs

\* What the registry may hold.
Entries == {Entry(q) : q \in {p \in Requests : KeyOfRequest[p] # NoKey}}

RegistrySound == registry \in Seq(Entries)

\* The document of a run whose task is under way is open, unless the run was
\* hard-failed; a task that may still mark it completed was not, or nothing says so.
Documents ==
    \A q \in Requests :
        /\ reply[q] = NoReply => runPc[q] = "none"
        /\ runPc[q] = "none" => runDoc[q] = "none"
        /\ runPc[q] \in {"start", "agent", "ended", "raised"} =>
              runDoc[q] = "active" \/ (runDoc[q] = "failed" /\ q \in hardFailed \cup unflagged)
        /\ runPc[q] = "ended" => q \notin hardFailed

\* The inductive invariant.
IInv == RunsAccounted /\ RegistrySound /\ Documents

LEMMA InitIInv == RunInit => IInv
BY RunControlAssumption
   DEF RunInit, IInv, RunsAccounted, RunTypeOK, ReplaysMatch, EndedRunsClosed, RegistrySound, Documents

-----------------------------------------------------------------------------
(* The registry *)

LEMMA PrunedSound ==
    ASSUME NEW S, NEW s \in Seq(S), NEW cap \in Nat, NEW t \in Pruned(s, cap)
    PROVE  t \in Seq(S) /\ Len(t) <= cap
<1>1. PICK k \in 1 .. Len(s) + 1 : Len(s) + 1 - k <= cap /\ t = SubSeq(s, k, Len(s))
  BY DEF Pruned
<1>2. Len(s) \in Nat /\ \A i \in k .. Len(s) : i \in 1 .. Len(s)
  OBVIOUS
<1>3. t \in Seq(S) /\ Len(t) = IF k <= Len(s) THEN Len(s) - k + 1 ELSE 0
  BY <1>1, <1>2, SubSeqProperties
<1> QED
  BY <1>1, <1>2, <1>3

LEMMA HitsSound ==
    ASSUME NEW S, NEW s \in Seq(S), NEW key, NEW hit \in Hits(s, key)
    PROVE  hit \in S /\ hit.key = key
BY DEF Hits

\* Registering an entry, whether the registry holds its key or not.
LEMMA RegisteredSound ==
    ASSUME NEW S, NEW s \in Seq(S), NEW e \in S, NEW cap \in Nat, NEW t \in Registered(s, e, cap)
    PROVE  t \in Seq(S) /\ Len(t) <= cap
<1>1. WithoutKey(s, e.key) \in Seq(S)
  <2>1. CASE Hits(s, e.key) = {}
    BY <2>1 DEF WithoutKey
  <2>2. CASE Hits(s, e.key) # {}
    <3> DEFINE at == CHOOSE k \in DOMAIN s : s[k].key = e.key
               w == [k \in 1 .. Len(s) - 1 |-> s[IF k < at THEN k ELSE k + 1]]
    <3>1. WithoutKey(s, e.key) = w
      BY <2>2 DEF WithoutKey
    <3>2. Len(s) \in Nat /\ DOMAIN s = 1 .. Len(s) /\ DOMAIN s # {}
      BY <2>2 DEF Hits
    <3>3. \A k \in 1 .. Len(s) - 1 : s[IF k < at THEN k ELSE k + 1] \in S
      <4> HIDE DEF at
      <4> TAKE k \in 1 .. Len(s) - 1
      <4>1. k \in 1 .. Len(s) /\ k + 1 \in 1 .. Len(s)
        BY <3>2
      <4> QED BY <4>1
    <3>4. w \in [1 .. Len(s) - 1 -> S] /\ Len(s) - 1 \in Nat
      BY <3>2, <3>3
    <3> QED BY <3>1, <3>4
  <2> QED BY <2>1, <2>2
<1>2. Append(WithoutKey(s, e.key), e) \in Seq(S) /\ t \in Pruned(Append(WithoutKey(s, e.key), e), cap)
  BY <1>1 DEF Registered
<1> QED
  BY <1>2, PrunedSound

-----------------------------------------------------------------------------
(* The steps *)

LEMMA StatesKnown == "queued" \in RunStates /\ "failed" \in RunStates
<1>1. 2 \in DOMAIN Order /\ Order[2] = "queued"
  BY DEF Order
<1> QED
  BY <1>1 DEF EndStates, RunStates

LEMMA StartRunSound == ASSUME IInv, NEW q \in Requests, StartRun(q) PROVE IInv'
<1> USE DEF IInv, RunsAccounted, StartRun, OpenRun
<1>1. registry' \in Seq(Entries) /\ Len(registry') <= RegistryCap
  <2>1. CASE KeyOfRequest[q] = NoKey
    BY <2>1 DEF RegistrySound, RunTypeOK
  <2>2. CASE KeyOfRequest[q] # NoKey
    <3>1. PICK kept \in Pruned(registry, RegistryCap) :
             /\ Hits(kept, KeyOfRequest[q]) = {}
             /\ registry' \in Registered(kept, Entry(q), RegistryCap)
      BY <2>2
    <3>2. Entry(q) \in Entries /\ Entry(q).key = KeyOfRequest[q]
      BY <2>2 DEF Entries, Entry
    <3>3. kept \in Seq(Entries)
      BY <3>1, PrunedSound, RunControlAssumption DEF RegistrySound
    <3> QED
      BY <3>1, <3>2, <3>3, RegisteredSound, RunControlAssumption
  <2> QED
    BY <2>1, <2>2
<1>2. RunTypeOK'
  BY <1>1, StatesKnown DEF RunTypeOK
<1>3. ReplaysMatch'
  BY DEF ReplaysMatch, RunTypeOK
<1>4. EndedRunsClosed'
  BY DEF EndedRunsClosed, RunTypeOK
<1>5. Documents'
  <2>1. /\ runDoc' = [runDoc EXCEPT ![q] = "active"] /\ runPc' = [runPc EXCEPT ![q] = "start"]
        /\ reply' = [reply EXCEPT ![q] = q] /\ hardFailed' = hardFailed
    OBVIOUS
  <2>2. q # NoReply
    BY RunControlAssumption
  <2> QED
    BY <2>1, <2>2 DEF Documents, RunTypeOK
<1> QED
  BY <1>1, <1>2, <1>3, <1>4, <1>5 DEF RegistrySound

LEMMA ReplayRunSound == ASSUME IInv, NEW q \in Requests, ReplayRun(q) PROVE IInv'
<1> USE DEF IInv, RunsAccounted, ReplayRun
<1>1. PICK kept \in Pruned(registry, RegistryCap) :
         /\ \E hit \in Hits(kept, KeyOfRequest[q]) :
              reply' = [reply EXCEPT ![q] = IF hit.print = PrintOf[q] THEN hit.run ELSE Conflict]
         /\ registry' = kept
  OBVIOUS
<1>2. PICK hit \in Hits(kept, KeyOfRequest[q]) :
         reply' = [reply EXCEPT ![q] = IF hit.print = PrintOf[q] THEN hit.run ELSE Conflict]
  BY <1>1
<1>3. kept \in Seq(Entries) /\ Len(kept) <= RegistryCap
  BY PrunedSound, RunControlAssumption DEF RegistrySound
<1>4. PICK p \in Requests : hit = Entry(p) /\ KeyOfRequest[p] = KeyOfRequest[q]
  BY <1>2, <1>3, HitsSound DEF Entries, Entry
<1>5. /\ reply' = [reply EXCEPT ![q] = IF PrintOf[p] = PrintOf[q] THEN p ELSE Conflict]
      /\ reply[q] = NoReply /\ KeyOfRequest[q] # NoKey
      /\ UNCHANGED <<runDoc, runState, runPc, hardFailed, events, verdict, runRestarts, unsaved, unflagged>>
  BY <1>2, <1>4 DEF Entry
<1>6. RunTypeOK'
  BY <1>1, <1>3, <1>5 DEF RunTypeOK
<1>7. ReplaysMatch'
  BY <1>4, <1>5, RunControlAssumption DEF ReplaysMatch, RunTypeOK
<1>8. EndedRunsClosed'
  BY <1>5 DEF EndedRunsClosed
<1>9. Documents'
  BY <1>4, <1>5, RunControlAssumption DEF Documents, RunTypeOK
<1> QED
  BY <1>1, <1>3, <1>6, <1>7, <1>8, <1>9 DEF RegistrySound

\* A step of the run's task: answers and registry stay, and of the other runs
\* nothing changes.
TaskStep(q) ==
    /\ UNCHANGED <<registry, reply, verdict, runRestarts>>
    /\ runPc' \in [Requests -> {"none", "start", "agent", "ended", "raised", "done"}]
    /\ runDoc' \in [Requests -> {"none", "active", "completed", "failed"}]
    /\ runState' \in [Requests -> RunStates \cup {"none"}]
    /\ events' \in [Requests -> 0 .. EventBound]
    /\ hardFailed' \subseteq Requests /\ unsaved' \subseteq Requests /\ unflagged' \subseteq Requests
    /\ \A p \in Requests \ {q} :
          /\ runPc'[p] = runPc[p] /\ runDoc'[p] = runDoc[p]
          /\ p \in hardFailed' <=> p \in hardFailed
          /\ p \in unsaved' <=> p \in unsaved
          /\ p \in unflagged' <=> p \in unflagged
    /\ runPc[q] # "none" /\ runPc'[q] # "none"
    /\ runPc'[q] = "done" /\ q \notin unsaved' => runDoc'[q] \in {"completed", "failed"}
    /\ runPc'[q] \in {"start", "agent", "ended", "raised"} =>
          runDoc'[q] = "active" \/ (runDoc'[q] = "failed" /\ q \in (hardFailed \cup unflagged)')
    /\ runPc'[q] = "ended" => q \notin hardFailed'
    /\ runDoc[q] \in {"completed", "failed"} =>
          \/ runDoc'[q] = runDoc[q]
          \/ q \in unflagged /\ runPc[q] = "ended" /\ runDoc'[q] = "completed"

LEMMA TaskStepSound == ASSUME IInv, NEW q \in Requests, TaskStep(q) PROVE IInv'
<1> USE DEF IInv, RunsAccounted, TaskStep
<1>1. RunTypeOK'
  BY DEF RunTypeOK
<1>2. ReplaysMatch'
  BY DEF ReplaysMatch
<1>3. EndedRunsClosed'
  BY DEF EndedRunsClosed
<1>4. RegistrySound'
  BY DEF RegistrySound
<1>5. Documents'
  BY DEF Documents
<1> QED
  BY <1>1, <1>2, <1>3, <1>4, <1>5

LEMMA AgentEventStep ==
    ASSUME IInv, NEW q \in Requests, NEW target \in StageStates, AgentEvent(q, target)
    PROVE  TaskStep(q)
<1> USE DEF IInv, RunsAccounted, RunTypeOK, AgentEvent, RunGoes
<1>1. IF q \in hardFailed THEN UNCHANGED <<runState, hardFailed, runDoc, unflagged>> ELSE Derive(q, target)
  OBVIOUS
<1>2. \/ UNCHANGED <<runState, hardFailed, runDoc, unflagged>>
      \/ /\ q \notin hardFailed /\ target \in RunStates
         /\ runState' = [runState EXCEPT ![q] = target] /\ UNCHANGED <<hardFailed, runDoc, unflagged>>
      \/ /\ q \notin hardFailed /\ UNCHANGED <<runState, unflagged>>
         /\ hardFailed' = hardFailed \cup {q} /\ runDoc' = [runDoc EXCEPT ![q] = "failed"]
      \/ /\ q \notin hardFailed /\ UNCHANGED <<runState, hardFailed>>
         /\ unflagged' = unflagged \cup {q} /\ runDoc' = [runDoc EXCEPT ![q] = "failed"]
  BY <1>1, RunControlAssumption DEF Derive, HardFails
<1>3. \/ runPc' = [runPc EXCEPT ![q] = "raised"]
      \/ runPc' = runPc
  OBVIOUS
<1>4. runPc[q] = "agent" /\ events' \in [Requests -> 0 .. EventBound]
  BY RunControlAssumption
<1>5. runDoc[q] = "active" \/ (runDoc[q] = "failed" /\ q \in hardFailed \cup unflagged)
  BY <1>4 DEF Documents
<1>6. UNCHANGED <<registry, reply, verdict, runRestarts, unsaved>>
  OBVIOUS
<1>7. /\ runDoc' \in [Requests -> {"none", "active", "completed", "failed"}]
      /\ runState' \in [Requests -> RunStates \cup {"none"}]
      /\ hardFailed' \subseteq Requests /\ unflagged' \subseteq Requests
      /\ runDoc'[q] = "active" \/ (runDoc'[q] = "failed" /\ q \in (hardFailed \cup unflagged)')
      /\ runDoc[q] \in {"completed", "failed"} => runDoc'[q] = runDoc[q]
      /\ \A p \in Requests \ {q} :
           /\ runDoc'[p] = runDoc[p]
           /\ (p \in hardFailed' <=> p \in hardFailed) /\ (p \in unflagged' <=> p \in unflagged)
  BY <1>2, <1>5
<1>8. /\ runPc' \in [Requests -> {"none", "start", "agent", "ended", "raised", "done"}]
      /\ runPc'[q] \in {"agent", "raised"}
      /\ \A p \in Requests \ {q} : runPc'[p] = runPc[p]
  BY <1>3, <1>4
<1> QED
  BY <1>4, <1>6, <1>7, <1>8 DEF TaskStep

LEMMA RunStepTask == ASSUME IInv, NEW q \in Requests, RunStep(q) PROVE TaskStep(q)
<1> USE DEF IInv, RunsAccounted, RunTypeOK, RunGoes, Documents
<1>1. CASE BeginRun(q)
  BY <1>1 DEF BeginRun, TaskStep
<1>2. CASE AgentReturns(q)
  BY <1>2 DEF AgentReturns, TaskStep
<1>3. CASE AgentRaises(q)
  BY <1>3 DEF AgentRaises, TaskStep
<1>4. CASE CompleteRun(q)
  BY <1>4 DEF CompleteRun, Mark, TaskStep
<1>5. CASE FailRun(q)
  <2>1. /\ runPc[q] = "raised" /\ runPc' = [runPc EXCEPT ![q] = "done"]
        /\ \/ runDoc' = [runDoc EXCEPT ![q] = "failed"] /\ UNCHANGED unsaved
           \/ UNCHANGED runDoc /\ unsaved' = unsaved \cup {q}
        /\ \/ UNCHANGED runState /\ hardFailed' \in {hardFailed, hardFailed \cup {q}}
           \/ runState' = [runState EXCEPT ![q] = "failed"] /\ UNCHANGED hardFailed
        /\ UNCHANGED <<events, registry, reply, verdict, runRestarts, unflagged>>
    BY <1>5 DEF FailRun, Mark
  <2>2. runState' \in [Requests -> RunStates \cup {"none"}]
    BY <2>1, StatesKnown
  <2>3. /\ hardFailed' \subseteq Requests
        /\ \A p \in Requests \ {q} : p \in hardFailed' <=> p \in hardFailed
    BY <2>1
  <2>4. /\ runPc' \in [Requests -> {"none", "start", "agent", "ended", "raised", "done"}]
        /\ runDoc' \in [Requests -> {"none", "active", "completed", "failed"}]
        /\ events' \in [Requests -> 0 .. EventBound] /\ unsaved' \subseteq Requests
    BY <2>1
  <2>5. \A p \in Requests \ {q} :
            /\ runPc'[p] = runPc[p] /\ runDoc'[p] = runDoc[p]
            /\ p \in unsaved' <=> p \in unsaved
    BY <2>1
  <2>6. /\ runPc'[q] = "done" /\ (q \notin unsaved' => runDoc'[q] = "failed")
        /\ runDoc'[q] \in {runDoc[q], "failed"} /\ runDoc[q] # "completed"
    BY <2>1
  <2>7. UNCHANGED <<registry, reply, verdict, runRestarts, unflagged>> /\ runPc[q] = "raised" /\ unflagged \subseteq Requests
    BY <2>1
  <2> QED
    BY <2>2, <2>3, <2>4, <2>5, <2>6, <2>7 DEF TaskStep
<1>6. CASE \E target \in StageStates : AgentEvent(q, target)
  BY <1>6, AgentEventStep
<1> QED
  BY <1>1, <1>2, <1>3, <1>4, <1>5, <1>6 DEF RunStep

LEMMA RestartSound == ASSUME IInv, RestartRuns PROVE IInv'
<1> USE DEF IInv, RunsAccounted, RestartRuns
<1>1. RunTypeOK'
  BY RunControlAssumption DEF RunTypeOK
<1>2. ReplaysMatch'
  BY DEF ReplaysMatch
<1>3. EndedRunsClosed'
  BY DEF EndedRunsClosed, RunTypeOK
<1>4. RegistrySound'
  BY DEF RegistrySound
<1>5. Documents'
  BY DEF Documents, RunTypeOK
<1> QED
  BY <1>1, <1>2, <1>3, <1>4, <1>5

LEMMA NextSound == ASSUME IInv, [RunNext]_runVars PROVE IInv'
<1>1. CASE UNCHANGED runVars
  <2>1. UNCHANGED <<runDoc, runState, hardFailed, runPc, events, registry, reply, verdict, runRestarts, unsaved, unflagged>>
    BY <1>1 DEF runVars
  <2>2. RunTypeOK'
    BY <2>1 DEF IInv, RunsAccounted, RunTypeOK
  <2>3. ReplaysMatch' /\ EndedRunsClosed'
    BY <2>1 DEF IInv, RunsAccounted, ReplaysMatch, EndedRunsClosed
  <2>4. RegistrySound' /\ Documents'
    BY <2>1 DEF IInv, RegistrySound, Documents
  <2> QED
    BY <2>2, <2>3, <2>4 DEF IInv, RunsAccounted
<1>2. CASE \E q \in Requests : Poll(q)
  <2>1. /\ verdict' \in [Requests -> {"none", "ok", "error", "timeout", "not_found"}]
        /\ UNCHANGED <<runDoc, runState, hardFailed, runPc, events, registry, reply, runRestarts, unsaved, unflagged>>
    <3>1. verdict \in [Requests -> {"none", "ok", "error", "timeout", "not_found"}]
      BY DEF IInv, RunsAccounted, RunTypeOK
    <3>2. PICK q \in Requests : Poll(q)
      BY <1>2
    <3> QED BY <3>1, <3>2 DEF Poll
  <2>2. RunTypeOK'
    BY <2>1 DEF IInv, RunsAccounted, RunTypeOK
  <2>3. ReplaysMatch' /\ EndedRunsClosed'
    BY <2>1 DEF IInv, RunsAccounted, ReplaysMatch, EndedRunsClosed
  <2>4. RegistrySound' /\ Documents'
    BY <2>1 DEF IInv, RegistrySound, Documents
  <2> QED
    BY <2>2, <2>3, <2>4 DEF IInv, RunsAccounted
<1>3. CASE RunNext
  BY <1>2, <1>3, StartRunSound, ReplayRunSound, RunStepTask, TaskStepSound, RestartSound DEF RunNext
<1> QED
  BY <1>1, <1>3

-----------------------------------------------------------------------------
(* The theorems *)

LEMMA Invariance == RunSpec => []IInv
<1>1. RunInit => IInv
  BY InitIInv
<1>2. IInv /\ [RunNext]_runVars => IInv'
  BY NextSound
<1> QED
  BY <1>1, <1>2, PTL DEF RunSpec

\* For any number of requests, keys, payloads and events, with a registry of
\* any size: a start request is answered with a run of the same key and
\* payload, and a task that is over has closed its document unless the store
\* failed or the backend stopped.
THEOREM RunsAccountedHolds == RunSpec => []RunsAccounted
<1>1. IInv => RunsAccounted
  BY DEF IInv
<1> QED
  BY <1>1, Invariance, PTL

\* No step gives a closed document another status: a run that was hard-failed
\* while its agent went on is never reported completed, unless the store took
\* the failure and refused the note of it.
THEOREM ClosedDocsStayHolds == RunSpec => ClosedDocsStay
<1> DEFINE Stay == \A q \in Requests : runDoc[q] \in {"completed", "failed"} =>
                     \/ runDoc'[q] = runDoc[q]
                     \/ q \in unflagged /\ runPc[q] = "ended" /\ runDoc'[q] = "completed"
<1>1. ASSUME IInv, RunNext PROVE Stay
  <2>1. ASSUME NEW q \in Requests, StartRun(q) PROVE Stay
    <3>1. runDoc[q] = "none"
      BY <1>1, <2>1 DEF StartRun, IInv, Documents
    <3> QED
      BY <1>1, <2>1, <3>1 DEF StartRun, OpenRun, IInv, RunsAccounted, RunTypeOK
  <2>2. ASSUME NEW q \in Requests, RunStep(q) PROVE Stay
    BY <1>1, <2>2, RunStepTask DEF TaskStep
  <2>3. CASE RestartRuns \/ \E q \in Requests : ReplayRun(q) \/ Poll(q)
    BY <2>3 DEF RestartRuns, ReplayRun, Poll
  <2> QED
    BY <1>1, <2>1, <2>2, <2>3 DEF RunNext
<1>2. IInv /\ [RunNext]_runVars => [Stay]_runVars
  BY <1>1
<1> QED
  BY <1>2, Invariance, PTL DEF RunSpec, ClosedDocsStay

-----------------------------------------------------------------------------
(* Workflows: paths of a graph *)

LEMMA ReachesSelf == ASSUME NEW s PROVE Reaches(s, s)
BY DEF Reaches

LEMMA ReachesOn ==
    ASSUME NEW s, NEW t, NEW u \in Edges(t), Reaches(s, t)
    PROVE  Reaches(s, u)
BY DEF Reaches

\* Where a step leads is an edge of the graph.
LEMMA SuccessorEdge ==
    ASSUME NEW s \in Steps, NEW b \in {"none", "true", "false"},
           b # "none" => TypeOf[s] = "condition", Successor(s, b) \in Steps
    PROVE  Successor(s, b) \in Edges(s)
BY DEF Successor, Edges

-----------------------------------------------------------------------------
(* Workflows: the invariant, execution by execution *)

PathOf(e) ==
    \A s \in Ran(e) :
        s = EntryStep \/ \E p \in Ran(e) :
            /\ s \in Edges(p)
            /\ (result[e][p] # "error" /\ Successor(p, branch[e][p]) = s) \/ OnCycle(p)
ErrorsOf(e) ==
    /\ wfStatus[e] = "failed" => current[e] \notin Steps \/ result[e][current[e]] = "error"
    /\ \A s \in Ran(e) : result[e][s] = "error" => s = current[e] /\ wfStatus[e] = "failed"
FileOf(e) ==
    /\ file[e].steps \subseteq Ran(e)
    /\ file[e].status \in {"completed", "failed"} => file[e].status = wfStatus[e]
OverlapOf(e) ==
    /\ children[e] \subseteq {current[e]} /\ (children[e] # {} => wfPc[e] = "poll")
    /\ \A s \in late[e] : result[e][s] = "timeout" \/ OnCycle(s)

\* The step an execution is at follows a step that ran, and a path leads to it
\* from every step that ran.
Leads(e, s) == \E t \in Edges(s) : Reaches(t, current[e])
FlowOf(e) ==
    /\ wfPc[e] \in {"new", "spawn"} => Ran(e) = {} /\ late[e] = {}
    /\ wfPc[e] \in {"new", "spawn", "step", "poll", "await", "settled"} => wfStatus[e] = "running"
    /\ wfPc[e] \in {"poll", "await", "settled"} => current[e] \in Steps
    /\ wfPc[e] \in {"step", "poll", "await"} =>
          \/ current[e] = EntryStep
          \/ \E p \in Ran(e) : result[e][p] # "error" /\ Successor(p, branch[e][p]) = current[e]
    /\ wfPc[e] \in {"step", "poll", "await"} /\ current[e] \in Steps => \A s \in Ran(e) : Leads(e, s)
    /\ wfPc[e] = "settled" => current[e] \in Ran(e) /\ \A s \in Ran(e) : s = current[e] \/ Leads(e, s)
    /\ \A s \in Steps : branch[e][s] # "none" => TypeOf[s] = "condition"
    /\ wfPc[e] # "done" => answered[e] = NoAnswer

ExecutionOk(e) == PathOf(e) /\ ErrorsOf(e) /\ FileOf(e) /\ OverlapOf(e) /\ FlowOf(e)

\* The registry holds entries of executions that have responded.
EntryOf(e) == [key |-> WfKeyOf[e], print |-> WfPrintOf[e], run |-> e]
Responded == {e \in Executions : wfPc[e] = "done" /\ answered[e] = e}
RegistryOk == wfRegistry \in Seq({EntryOf(e) : e \in Responded})

WfInv == WfTypeOK /\ (\A e \in Executions : ExecutionOk(e)) /\ ReplayedHasEnded /\ RegistryOk

LEMMA WfInvSound == WfInv => ExecutionSound
BY DEF WfInv, ExecutionOk, PathOf, ErrorsOf, FileOf, OverlapOf, ExecutionSound,
       StepsFormPath, FailedMeansError, FileNotAhead, StepsDoNotOverlap

LEMMA WfInitInv == WfInit => WfInv
<1> SUFFICES ASSUME WfInit PROVE WfInv
  OBVIOUS
<1>1. WfTypeOK
  <2>1. /\ current \in [Executions -> Steps \cup {NoStep, MissingStep}]
        /\ answered \in [Executions -> Executions \cup {NoAnswer, WfConflict}]
        /\ children \in [Executions -> SUBSET Steps] /\ late \in [Executions -> SUBSET Steps]
    BY DEF WfInit
  <2>2. /\ result \in [Executions -> [Steps -> {"none", "success", "error", "timeout"}]]
        /\ branch \in [Executions -> [Steps -> {"none", "true", "false"}]]
    BY DEF WfInit
  <2>3. file \in [Executions -> [status : {"none", "running", "completed", "failed"}, steps : SUBSET Steps]]
    BY DEF WfInit
  <2>4. /\ wfPc \in [Executions -> {"new", "step", "poll", "await", "settled", "finish", "spawn", "done", "lost"}]
        /\ wfStatus \in [Executions -> {"running", "completed", "failed"}] /\ crashed \in BOOLEAN
    BY DEF WfInit
  <2>5. spawnedAt \in [Executions -> 0 .. SpawnCap]
    BY WorkflowAssumption DEF WfInit
  <2> QED BY <2>1, <2>2, <2>3, <2>4, <2>5 DEF WfTypeOK
<1>3. ReplayedHasEnded
  BY WorkflowAssumption DEF WfInit, ReplayedHasEnded
<1>4. RegistryOk
  BY DEF WfInit, RegistryOk
<1>2. ASSUME NEW e \in Executions PROVE ExecutionOk(e)
  <2>1. /\ wfPc[e] = "new" /\ wfStatus[e] = "running" /\ file[e] = [status |-> "none", steps |-> {}]
        /\ children[e] = {} /\ late[e] = {} /\ answered[e] = NoAnswer
        /\ \A s \in Steps : branch[e][s] = "none"
    BY DEF WfInit
  <2>2. Ran(e) = {}
    BY DEF WfInit, Ran
  <2> QED BY <2>1, <2>2 DEF ExecutionOk, PathOf, ErrorsOf, FileOf, OverlapOf, FlowOf
<1> QED
  BY <1>1, <1>2, <1>3, <1>4 DEF WfInv

\* An execution of which nothing changes.
Stays(e) ==
    /\ wfPc'[e] = wfPc[e] /\ current'[e] = current[e] /\ result'[e] = result[e] /\ branch'[e] = branch[e]
    /\ wfStatus'[e] = wfStatus[e] /\ file'[e] = file[e] /\ children'[e] = children[e]
    /\ late'[e] = late[e] /\ answered'[e] = answered[e]

LEMMA StaysOk == ASSUME NEW e, ExecutionOk(e), Stays(e) PROVE ExecutionOk(e)'
<1>1. Ran(e)' = Ran(e)
  BY DEF Stays, Ran
<1>2. PathOf(e)' /\ ErrorsOf(e)' /\ FileOf(e)' /\ OverlapOf(e)'
  BY <1>1 DEF Stays, ExecutionOk, PathOf, ErrorsOf, FileOf, OverlapOf
<1>3. \A s : Leads(e, s)' = Leads(e, s)
  BY DEF Stays, Leads
<1>4. FlowOf(e)'
  BY <1>1, <1>3 DEF Stays, ExecutionOk, FlowOf
<1> QED BY <1>2, <1>4 DEF ExecutionOk

\* The registry may forget entries, and those it keeps stay true.
LEMMA RegistryStays ==
    ASSUME RegistryOk, NEW kept \in Pruned(wfRegistry, WfRegistryCap), Responded \subseteq Responded'
    PROVE  kept \in Seq({EntryOf(e) : e \in Responded'})
<1> DEFINE S == {EntryOf(e) : e \in Responded}
           T == {EntryOf(e) : e \in Responded'}
<1>1. kept \in Seq(S)
  BY PrunedSound, WorkflowAssumption DEF RegistryOk
<1>2. S \subseteq T
  OBVIOUS
<1> HIDE DEF S, T
<1>3. kept \in Seq(T)
  BY <1>1, <1>2
<1> QED BY <1>3 DEF T

\* A step of one execution before it ends.
LEMMA OneStep ==
    ASSUME WfInv, NEW e \in Executions, wfPc[e] # "done",
           WfTypeOK', ExecutionOk(e)', \A x \in Executions \ {e} : Stays(x),
           UNCHANGED <<wfRegistry, answered>>
    PROVE  WfInv'
<1>1. \A x \in Executions : ExecutionOk(x)'
  <2> SUFFICES ASSUME NEW x \in Executions PROVE ExecutionOk(x)'
    OBVIOUS
  <2>1. ExecutionOk(x)
    BY DEF WfInv
  <2> QED BY <2>1, StaysOk
<1>2. \A x \in Executions : wfPc[x] = "done" => wfPc'[x] = "done"
  BY DEF Stays
<1>3. ReplayedHasEnded'
  BY <1>2 DEF WfInv, ReplayedHasEnded
<1>4. RegistryOk'
  <2>1. Responded \subseteq Responded'
    BY <1>2 DEF Responded
  <2> DEFINE S == {EntryOf(x) : x \in Responded}
             T == {EntryOf(x) : x \in Responded'}
  <2>2. S \subseteq T /\ wfRegistry \in Seq(S)
    BY <2>1 DEF WfInv, RegistryOk
  <2>3. wfRegistry' \in Seq(T)
    <3> HIDE DEF S, T
    <3> QED BY <2>2
  <2> QED BY <2>3 DEF RegistryOk
<1> QED BY <1>1, <1>3, <1>4 DEF WfInv

\* The step in which an execution responds.
LEMMA RespondOk ==
    ASSUME WfInv, NEW e \in Executions, wfPc[e] # "done", Respond(e),
           wfPc' = [wfPc EXCEPT ![e] = "done"]
    PROVE  /\ answered' \in [Executions -> Executions \cup {NoAnswer, WfConflict}] /\ answered'[e] = e
           /\ \A x \in Executions \ {e} : answered'[x] = answered[x]
           /\ ReplayedHasEnded' /\ RegistryOk'
<1>1. /\ answered \in [Executions -> Executions \cup {NoAnswer, WfConflict}]
      /\ wfPc \in [Executions -> {"new", "step", "poll", "await", "settled", "finish", "spawn", "done", "lost"}]
  BY DEF WfInv, WfTypeOK
<1>2. answered' = [answered EXCEPT ![e] = e]
  BY DEF Respond
<1>3. /\ \A x \in Executions \ {e} : answered'[x] = answered[x] /\ wfPc'[x] = wfPc[x]
      /\ answered'[e] = e /\ wfPc'[e] = "done"
  BY <1>1, <1>2
<1>4. ReplayedHasEnded'
  BY <1>3 DEF WfInv, ReplayedHasEnded
<1>5. RegistryOk'
  <2>1. Responded \subseteq Responded' /\ e \in Responded'
    BY <1>3 DEF Responded
  <2>2. PICK kept \in Pruned(wfRegistry, WfRegistryCap) : wfRegistry' \in Registered(kept, EntryOf(e), WfRegistryCap)
    BY DEF Respond, EntryOf
  <2>3. kept \in Seq({EntryOf(x) : x \in Responded'})
    BY <2>1, <2>2, RegistryStays DEF WfInv
  <2> DEFINE T == {EntryOf(x) : x \in Responded'}
  <2>4. EntryOf(e) \in T /\ kept \in Seq(T) /\ WfRegistryCap \in Nat
    BY <2>1, <2>3, WorkflowAssumption
  <2>5. wfRegistry' \in Seq(T)
    <3> HIDE DEF T
    <3> QED BY <2>2, <2>4, RegisteredSound
  <2> QED BY <2>5 DEF RegistryOk
<1> QED BY <1>1, <1>2, <1>3, <1>4, <1>5

-----------------------------------------------------------------------------
(* Workflows: the steps *)

\* What a save leaves in the file.
LEMMA SavedOk ==
    ASSUME WfTypeOK, NEW e \in Executions, NEW status \in {"none", "running", "completed", "failed"}, NEW results,
           NEW f, f = Saved(e, status, results)
    PROVE  /\ f \in [Executions -> [status : {"none", "running", "completed", "failed"}, steps : SUBSET Steps]]
           /\ f[e].status = status /\ f[e].steps = {s \in Steps : results[s] # "none"}
           /\ \A x \in Executions \ {e} : f[x] = file[x]
<1> DEFINE kept == [status |-> status, steps |-> {s \in Steps : results[s] # "none"}]
<1>1. kept \in [status : {"none", "running", "completed", "failed"}, steps : SUBSET Steps]
  OBVIOUS
<1>2. f = [file EXCEPT ![e] = kept]
  BY DEF Saved
<1>3. kept.status = status /\ kept.steps = {s \in Steps : results[s] # "none"}
  OBVIOUS
<1> HIDE DEF kept
<1> QED BY <1>1, <1>2, <1>3 DEF WfTypeOK

LEMMA ExecuteOk == ASSUME WfInv, NEW e \in Executions, ExecuteWorkflow(e) PROVE WfInv'
<1>1. PICK kept \in Pruned(wfRegistry, WfRegistryCap) : wfRegistry' = kept
  BY DEF ExecuteWorkflow
<1>2. wfPc[e] = "new"
  BY DEF ExecuteWorkflow
<1>3. ExecutionOk(e) /\ WfTypeOK
  BY DEF WfInv
<1>4. Ran(e) = {} /\ PathOf(e) /\ ErrorsOf(e) /\ FileOf(e) /\ OverlapOf(e)
  BY <1>2, <1>3 DEF ExecutionOk, FlowOf
<1>5. /\ UNCHANGED <<result, branch, wfStatus, children, late, spawnedAt, answered, crashed>>
      /\ \/ /\ wfPc' = [wfPc EXCEPT ![e] = "step"] /\ current' = [current EXCEPT ![e] = EntryStep]
            /\ file' = Saved(e, "running", result[e])
         \/ wfPc' = [wfPc EXCEPT ![e] = "spawn"] /\ current' = current /\ file' = file
  BY DEF ExecuteWorkflow, WfGoes
<1>6. file[e].steps = {} /\ file[e].status \notin {"completed", "failed"}
  BY <1>2, <1>3, <1>4 DEF ExecutionOk, FileOf, FlowOf
<1>7. /\ file' \in [Executions -> [status : {"none", "running", "completed", "failed"}, steps : SUBSET Steps]]
      /\ \A x \in Executions \ {e} : file'[x] = file[x]
      /\ file'[e].steps = {} /\ file'[e].status \notin {"completed", "failed"}
  <2>1. CASE file' = file
    <3>1. file \in [Executions -> [status : {"none", "running", "completed", "failed"}, steps : SUBSET Steps]]
      BY <1>3 DEF WfTypeOK
    <3> QED BY <1>6, <2>1, <3>1
  <2>2. CASE file' = Saved(e, "running", result[e])
    <3>1. /\ file' \in [Executions -> [status : {"none", "running", "completed", "failed"}, steps : SUBSET Steps]]
          /\ file'[e].status = "running" /\ file'[e].steps = {s \in Steps : result[e][s] # "none"}
          /\ \A x \in Executions \ {e} : file'[x] = file[x]
      BY <1>3, <2>2, SavedOk
    <3>2. {s \in Steps : result[e][s] # "none"} = {}
      BY <1>4 DEF Ran
    <3> QED BY <3>1, <3>2
  <2> QED BY <1>5, <2>1, <2>2
<1>8. /\ wfPc' \in [Executions -> {"new", "step", "poll", "await", "settled", "finish", "spawn", "done", "lost"}]
      /\ current' \in [Executions -> Steps \cup {NoStep, MissingStep}]
      /\ \A x \in Executions \ {e} : wfPc'[x] = wfPc[x] /\ current'[x] = current[x]
      /\ wfPc'[e] \in {"step", "spawn"} /\ (wfPc'[e] = "step" => current'[e] = EntryStep)
  <2>1. /\ wfPc \in [Executions -> {"new", "step", "poll", "await", "settled", "finish", "spawn", "done", "lost"}]
        /\ current \in [Executions -> Steps \cup {NoStep, MissingStep}]
        /\ EntryStep \in Steps \cup {NoStep, MissingStep}
    BY <1>3, WorkflowAssumption DEF WfTypeOK
  <2> QED BY <1>5, <2>1
<1>9. WfTypeOK'
  BY <1>3, <1>5, <1>7, <1>8 DEF WfTypeOK
<1>10. \A x \in Executions \ {e} : Stays(x)
  BY <1>5, <1>7, <1>8 DEF Stays
<1>11. Ran(e)' = {}
  BY <1>4, <1>5 DEF Ran
<1>12. ExecutionOk(e)'
  <2>1. PathOf(e)'
    BY <1>11 DEF PathOf
  <2>2. ErrorsOf(e)' /\ FileOf(e)' /\ OverlapOf(e)'
    BY <1>2, <1>3, <1>4, <1>5, <1>7, <1>11 DEF ExecutionOk, FlowOf, ErrorsOf, FileOf, OverlapOf
  <2>3. FlowOf(e)'
    BY <1>2, <1>3, <1>5, <1>8, <1>11 DEF ExecutionOk, FlowOf
  <2> QED BY <2>1, <2>2, <2>3 DEF ExecutionOk
<1>13. \A x \in Executions : ExecutionOk(x)'
  <2> SUFFICES ASSUME NEW x \in Executions PROVE ExecutionOk(x)'
    OBVIOUS
  <2>1. ExecutionOk(x)
    BY DEF WfInv
  <2> QED BY <2>1, <1>10, <1>12, StaysOk
<1>14. \A x \in Executions : wfPc[x] = "done" => wfPc'[x] = "done"
  BY <1>2, <1>10 DEF Stays
<1>15. ReplayedHasEnded'
  BY <1>5, <1>14 DEF WfInv, ReplayedHasEnded
<1>16. RegistryOk'
  <2>1. Responded \subseteq Responded'
    BY <1>5, <1>14 DEF Responded
  <2> QED BY <1>1, <2>1, RegistryStays DEF WfInv, RegistryOk
<1> QED BY <1>9, <1>13, <1>15, <1>16 DEF WfInv

LEMMA ReplayOk == ASSUME WfInv, NEW e \in Executions, ReplayWorkflow(e) PROVE WfInv'
<1>1. PICK kept \in Pruned(wfRegistry, WfRegistryCap) :
         /\ \E hit \in Hits(kept, WfKeyOf[e]) :
               answered' = [answered EXCEPT ![e] = IF hit.print = WfPrintOf[e] THEN hit.run ELSE WfConflict]
         /\ wfRegistry' = kept
  BY DEF ReplayWorkflow
<1>2. PICK hit \in Hits(kept, WfKeyOf[e]) :
         answered' = [answered EXCEPT ![e] = IF hit.print = WfPrintOf[e] THEN hit.run ELSE WfConflict]
  BY <1>1
<1>3. PICK x \in Responded : hit = EntryOf(x) /\ WfKeyOf[x] = WfKeyOf[e]
  <2>1. kept \in Seq({EntryOf(x) : x \in Responded})
    BY PrunedSound, WorkflowAssumption DEF WfInv, RegistryOk
  <2>2. hit \in {EntryOf(x) : x \in Responded} /\ hit.key = WfKeyOf[e]
    BY <1>2, <2>1, HitsSound
  <2> QED BY <2>2 DEF EntryOf
<1>4. /\ wfPc[e] = "new" /\ wfPc' = [wfPc EXCEPT ![e] = "done"]
      /\ answered' = [answered EXCEPT ![e] = IF WfPrintOf[x] = WfPrintOf[e] THEN x ELSE WfConflict]
      /\ UNCHANGED <<current, result, branch, wfStatus, file, children, late, spawnedAt, crashed>>
  BY <1>2, <1>3 DEF ReplayWorkflow, WfGoes, EntryOf
<1>5. ExecutionOk(e) /\ WfTypeOK /\ ReplayedHasEnded
  BY DEF WfInv
<1>6. /\ wfPc \in [Executions -> {"new", "step", "poll", "await", "settled", "finish", "spawn", "done", "lost"}]
      /\ answered \in [Executions -> Executions \cup {NoAnswer, WfConflict}]
      /\ x \in Executions /\ wfPc[x] = "done" /\ answered[x] = x
  BY <1>3, <1>5 DEF WfTypeOK, Responded
<1>7. /\ wfPc' \in [Executions -> {"new", "step", "poll", "await", "settled", "finish", "spawn", "done", "lost"}]
      /\ answered' \in [Executions -> Executions \cup {NoAnswer, WfConflict}]
      /\ wfPc'[e] = "done" /\ answered'[e] \in {x, WfConflict} /\ (answered'[e] = x => WfPrintOf[x] = WfPrintOf[e])
      /\ \A y \in Executions \ {e} : wfPc'[y] = wfPc[y] /\ answered'[y] = answered[y]
  <2>1. x # WfConflict
    BY <1>6, WorkflowAssumption
  <2> QED BY <1>4, <1>6, <2>1
<1>8. WfTypeOK'
  BY <1>4, <1>5, <1>7 DEF WfTypeOK
<1>9. \A y \in Executions \ {e} : Stays(y)
  BY <1>4, <1>7 DEF Stays
<1>10. Ran(e)' = Ran(e)
  BY <1>4 DEF Ran
<1>11. ExecutionOk(e)'
  <2>1. PathOf(e)' /\ ErrorsOf(e)' /\ FileOf(e)' /\ OverlapOf(e)'
    BY <1>4, <1>5, <1>7, <1>10 DEF ExecutionOk, PathOf, ErrorsOf, FileOf, OverlapOf
  <2>2. FlowOf(e)'
    BY <1>4, <1>5, <1>7 DEF ExecutionOk, FlowOf
  <2> QED BY <2>1, <2>2 DEF ExecutionOk
<1>12. \A y \in Executions : ExecutionOk(y)'
  <2> SUFFICES ASSUME NEW y \in Executions PROVE ExecutionOk(y)'
    OBVIOUS
  <2>1. ExecutionOk(y)
    BY DEF WfInv
  <2> QED BY <2>1, <1>9, <1>11, StaysOk
<1>13. ReplayedHasEnded'
  <2>1. x # e
    BY <1>4, <1>6
  <2>2. WfConflict \notin Executions
    BY WorkflowAssumption
  <2>3. \A y \in Executions : wfPc[y] = "done" => wfPc'[y] = "done" /\ answered'[y] = answered[y]
    BY <1>4, <1>7
  <2> QED BY <1>3, <1>5, <1>6, <1>7, <2>1, <2>2, <2>3 DEF ReplayedHasEnded
<1>14. RegistryOk'
  <2>1. Responded \subseteq Responded'
    BY <1>4, <1>7 DEF Responded
  <2> QED BY <1>1, <2>1, RegistryStays DEF WfInv, RegistryOk
<1> QED BY <1>8, <1>12, <1>13, <1>14 DEF WfInv

LEMMA SpawnNextOk == ASSUME WfInv, NEW e \in Executions, SpawnNext(e) PROVE WfInv'
<1>1. wfPc[e] = "spawn" /\ ExecutionOk(e) /\ WfTypeOK
  BY DEF WfInv, SpawnNext
<1>2. /\ UNCHANGED <<wfPc, current, result, branch, wfStatus, file, children, late, wfRegistry, answered, crashed>>
      /\ spawnedAt' = [spawnedAt EXCEPT ![e] = @ + 1] /\ spawnedAt[e] < SpawnCap
  BY DEF SpawnNext
<1>3. spawnedAt' \in [Executions -> 0 .. SpawnCap]
  BY <1>1, <1>2, WorkflowAssumption DEF WfTypeOK
<1>4. WfTypeOK'
  BY <1>1, <1>2, <1>3 DEF WfTypeOK
<1>5. \A x \in Executions : Stays(x)
  BY <1>2 DEF Stays
<1>6. ExecutionOk(e)'
  BY <1>1, <1>5, StaysOk
<1> QED BY <1>1, <1>2, <1>4, <1>5, <1>6, OneStep

\* The last step of an execution: it may save and respond.
LEMMA AnswerOk ==
    ASSUME WfInv, NEW e \in Executions, wfPc[e] \in {"spawn", "finish"}, wfPc' = [wfPc EXCEPT ![e] = "done"],
           UNCHANGED <<current, result, branch, wfStatus, children, late, spawnedAt, crashed>>,
           file' = file \/ file' = Saved(e, wfStatus[e], result[e]),
           Respond(e) \/ UNCHANGED <<wfRegistry, answered>>
    PROVE  WfInv'
<1>1. ExecutionOk(e) /\ WfTypeOK
  BY DEF WfInv
<1>2. /\ wfPc' \in [Executions -> {"new", "step", "poll", "await", "settled", "finish", "spawn", "done", "lost"}]
      /\ wfPc'[e] = "done" /\ \A x \in Executions \ {e} : wfPc'[x] = wfPc[x]
  BY <1>1 DEF WfTypeOK
<1>3. /\ file' \in [Executions -> [status : {"none", "running", "completed", "failed"}, steps : SUBSET Steps]]
      /\ \A x \in Executions \ {e} : file'[x] = file[x]
      /\ file'[e].steps \subseteq Ran(e)
      /\ file'[e].status \in {"completed", "failed"} => file'[e].status = wfStatus[e]
  <2>1. CASE file' = file
    BY <1>1, <2>1 DEF WfTypeOK, ExecutionOk, FileOf
  <2>2. CASE file' = Saved(e, wfStatus[e], result[e])
    <3>1. wfStatus[e] \in {"none", "running", "completed", "failed"}
      BY <1>1 DEF WfTypeOK
    <3>2. /\ file' \in [Executions -> [status : {"none", "running", "completed", "failed"}, steps : SUBSET Steps]]
          /\ file'[e].status = wfStatus[e] /\ file'[e].steps = {s \in Steps : result[e][s] # "none"}
          /\ \A x \in Executions \ {e} : file'[x] = file[x]
      BY <1>1, <2>2, <3>1, SavedOk
    <3> QED BY <3>2 DEF Ran
  <2> QED BY <2>1, <2>2
<1>4. /\ answered' \in [Executions -> Executions \cup {NoAnswer, WfConflict}]
      /\ \A x \in Executions \ {e} : answered'[x] = answered[x]
      /\ ReplayedHasEnded' /\ RegistryOk'
  <2>1. CASE Respond(e)
    BY <2>1, RespondOk
  <2>2. CASE UNCHANGED <<wfRegistry, answered>>
    <3>1. ReplayedHasEnded'
      BY <1>2, <2>2 DEF WfInv, ReplayedHasEnded
    <3>2. Responded \subseteq Responded'
      BY <1>2, <2>2 DEF Responded
    <3> DEFINE S == {EntryOf(x) : x \in Responded}
               T == {EntryOf(x) : x \in Responded'}
    <3>3. S \subseteq T /\ wfRegistry \in Seq(S)
      BY <3>2 DEF WfInv, RegistryOk
    <3>4. wfRegistry' \in Seq(T)
      <4> HIDE DEF S, T
      <4> QED BY <2>2, <3>3
    <3>5. RegistryOk'
      BY <3>4 DEF RegistryOk
    <3> QED BY <1>1, <2>2, <3>1, <3>5 DEF WfTypeOK
  <2> QED BY <2>1, <2>2
<1>5. WfTypeOK'
  BY <1>1, <1>2, <1>3, <1>4 DEF WfTypeOK
<1>6. Ran(e)' = Ran(e)
  BY DEF Ran
<1>7. ExecutionOk(e)'
  <2>1. PathOf(e)' /\ ErrorsOf(e)'
    BY <1>1, <1>6 DEF ExecutionOk, PathOf, ErrorsOf
  <2>2. FileOf(e)'
    BY <1>3, <1>6 DEF FileOf
  <2>3. OverlapOf(e)'
    BY <1>1 DEF ExecutionOk, OverlapOf
  <2>4. FlowOf(e)'
    BY <1>1, <1>2 DEF ExecutionOk, FlowOf
  <2> QED BY <2>1, <2>2, <2>3, <2>4 DEF ExecutionOk
<1>8. \A x \in Executions \ {e} : Stays(x)
  BY <1>2, <1>3, <1>4 DEF Stays
<1>9. \A x \in Executions : ExecutionOk(x)'
  <2> SUFFICES ASSUME NEW x \in Executions PROVE ExecutionOk(x)'
    OBVIOUS
  <2>1. ExecutionOk(x)
    BY DEF WfInv
  <2> QED BY <2>1, <1>7, <1>8, StaysOk
<1> QED BY <1>4, <1>5, <1>9 DEF WfInv

LEMMA StartStepOk == ASSUME WfInv, NEW e \in Executions, StartStep(e) PROVE WfInv'
<1>1. wfPc[e] = "step" /\ ExecutionOk(e) /\ WfTypeOK
  BY DEF WfInv, StartStep
<1>2. /\ UNCHANGED <<current, result, branch, file, late, spawnedAt, wfRegistry, answered, crashed>>
      /\ \/ /\ current[e] \notin Steps /\ wfStatus' = [wfStatus EXCEPT ![e] = "failed"]
            /\ wfPc' = [wfPc EXCEPT ![e] = "finish"] /\ children' = children
         \/ /\ current[e] \in Steps /\ wfStatus' = wfStatus
            /\ \/ wfPc' = [wfPc EXCEPT ![e] = "poll"] /\ children' = [children EXCEPT ![e] = @ \cup {current[e]}]
               \/ wfPc' = [wfPc EXCEPT ![e] = "await"] /\ children' = children
  BY DEF StartStep, WfGoes
<1>3. /\ wfPc \in [Executions -> {"new", "step", "poll", "await", "settled", "finish", "spawn", "done", "lost"}]
      /\ wfStatus \in [Executions -> {"running", "completed", "failed"}] /\ children \in [Executions -> SUBSET Steps]
  BY <1>1 DEF WfTypeOK
<1>4. wfStatus[e] = "running" /\ children[e] = {}
  BY <1>1 DEF ExecutionOk, FlowOf, OverlapOf
<1>5. /\ wfPc' \in [Executions -> {"new", "step", "poll", "await", "settled", "finish", "spawn", "done", "lost"}]
      /\ wfStatus' \in [Executions -> {"running", "completed", "failed"}] /\ children' \in [Executions -> SUBSET Steps]
      /\ \A x \in Executions \ {e} : wfPc'[x] = wfPc[x] /\ wfStatus'[x] = wfStatus[x] /\ children'[x] = children[x]
      /\ \/ current[e] \notin Steps /\ wfStatus'[e] = "failed" /\ wfPc'[e] = "finish" /\ children'[e] = {}
         \/ current[e] \in Steps /\ wfStatus'[e] = "running" /\ wfPc'[e] = "poll" /\ children'[e] = {current[e]}
         \/ current[e] \in Steps /\ wfStatus'[e] = "running" /\ wfPc'[e] = "await" /\ children'[e] = {}
  <2>1. CASE current[e] \notin Steps
    BY <1>2, <1>3, <1>4, <2>1
  <2>2. CASE current[e] \in Steps
    BY <1>2, <1>3, <1>4, <2>2
  <2> QED BY <2>1, <2>2
<1>6. WfTypeOK'
  BY <1>1, <1>2, <1>5 DEF WfTypeOK
<1>7. \A x \in Executions \ {e} : Stays(x)
  BY <1>2, <1>5 DEF Stays
<1>8. Ran(e)' = Ran(e) /\ \A s : Leads(e, s)' = Leads(e, s)
  BY <1>2 DEF Ran, Leads
<1>9. ExecutionOk(e)'
  <2>1. PathOf(e)'
    BY <1>1, <1>2, <1>8 DEF ExecutionOk, PathOf
  <2>2. ErrorsOf(e)'
    BY <1>1, <1>2, <1>4, <1>5, <1>8 DEF ExecutionOk, ErrorsOf
  <2>3. FileOf(e)'
    BY <1>1, <1>2, <1>4, <1>8 DEF ExecutionOk, FileOf
  <2>4. OverlapOf(e)'
    BY <1>1, <1>2, <1>5 DEF ExecutionOk, OverlapOf
  <2>5. FlowOf(e)'
    BY <1>1, <1>2, <1>5, <1>8 DEF ExecutionOk, FlowOf
  <2> QED BY <2>1, <2>2, <2>3, <2>4, <2>5 DEF ExecutionOk
<1> QED BY <1>1, <1>2, <1>6, <1>7, <1>9, OneStep

LEMMA NextStepOk == ASSUME WfInv, NEW e \in Executions, NextStep(e) PROVE WfInv'
<1> DEFINE next == Successor(current[e], branch[e][current[e]])
<1>1. wfPc[e] = "settled" /\ ExecutionOk(e) /\ WfTypeOK
  BY DEF WfInv, NextStep
<1>2. /\ UNCHANGED <<result, branch, file, children, late, spawnedAt, wfRegistry, answered, crashed>>
      /\ \/ /\ wfStatus' = [wfStatus EXCEPT ![e] = "completed"] /\ current' = current
            /\ wfPc' = [wfPc EXCEPT ![e] = "finish"]
         \/ /\ current' = [current EXCEPT ![e] = next] /\ wfPc' = [wfPc EXCEPT ![e] = "step"]
            /\ wfStatus' = wfStatus
  BY DEF NextStep, WfGoes
<1>3. /\ wfPc \in [Executions -> {"new", "step", "poll", "await", "settled", "finish", "spawn", "done", "lost"}]
      /\ wfStatus \in [Executions -> {"running", "completed", "failed"}]
      /\ current \in [Executions -> Steps \cup {NoStep, MissingStep}]
      /\ branch \in [Executions -> [Steps -> {"none", "true", "false"}]]
  BY <1>1 DEF WfTypeOK
<1>4. /\ current[e] \in Steps /\ current[e] \in Ran(e) /\ wfStatus[e] = "running" /\ children[e] = {}
      /\ result[e][current[e]] # "error" /\ \A s \in Ran(e) : result[e][s] # "error"
      /\ \A s \in Ran(e) : s = current[e] \/ Leads(e, s)
      /\ branch[e][current[e]] # "none" => TypeOf[current[e]] = "condition"
  BY <1>1 DEF ExecutionOk, FlowOf, OverlapOf, ErrorsOf
<1>5. next \in Steps \cup {NoStep, MissingStep}
  BY <1>3, <1>4, WorkflowAssumption DEF Successor
<1>6. next \in Steps => next \in Edges(current[e])
  BY <1>3, <1>4, SuccessorEdge
<1>7. /\ wfPc' \in [Executions -> {"new", "step", "poll", "await", "settled", "finish", "spawn", "done", "lost"}]
      /\ wfStatus' \in [Executions -> {"running", "completed", "failed"}]
      /\ current' \in [Executions -> Steps \cup {NoStep, MissingStep}]
      /\ \A x \in Executions \ {e} : wfPc'[x] = wfPc[x] /\ wfStatus'[x] = wfStatus[x] /\ current'[x] = current[x]
      /\ \/ wfStatus'[e] = "completed" /\ wfPc'[e] = "finish" /\ current'[e] = current[e]
         \/ wfStatus'[e] = "running" /\ wfPc'[e] = "step" /\ current'[e] = next
  <2> HIDE DEF next
  <2>1. CASE wfStatus' = [wfStatus EXCEPT ![e] = "completed"] /\ current' = current /\ wfPc' = [wfPc EXCEPT ![e] = "finish"]
    BY <1>3, <2>1
  <2>2. CASE current' = [current EXCEPT ![e] = next] /\ wfPc' = [wfPc EXCEPT ![e] = "step"] /\ wfStatus' = wfStatus
    BY <1>3, <1>4, <1>5, <2>2
  <2> QED BY <1>2, <2>1, <2>2
<1>8. WfTypeOK'
  BY <1>1, <1>2, <1>7 DEF WfTypeOK
<1>9. \A x \in Executions \ {e} : Stays(x)
  BY <1>2, <1>7 DEF Stays
<1>10. Ran(e)' = Ran(e)
  BY <1>2 DEF Ran
<1>11. next \in Steps => \A s \in Ran(e) : \E t \in Edges(s) : Reaches(t, next)
  <2> SUFFICES ASSUME next \in Steps, NEW s \in Ran(e) PROVE \E t \in Edges(s) : Reaches(t, next)
    OBVIOUS
  <2> HIDE DEF next
  <2>1. CASE s = current[e]
    BY <1>6, <2>1, ReachesSelf
  <2>2. CASE Leads(e, s)
    <3>1. PICK t \in Edges(s) : Reaches(t, current[e])
      BY <2>2 DEF Leads
    <3>2. Reaches(t, next)
      BY <1>6, <3>1, ReachesOn
    <3> QED BY <3>2
  <2> QED BY <1>4, <2>1, <2>2
<1>12. ExecutionOk(e)'
  <2>1. PathOf(e)'
    BY <1>1, <1>2, <1>10 DEF ExecutionOk, PathOf
  <2>2. ErrorsOf(e)'
    BY <1>2, <1>4, <1>7, <1>10 DEF ErrorsOf
  <2>3. FileOf(e)'
    BY <1>1, <1>2, <1>4, <1>10 DEF ExecutionOk, FileOf
  <2>4. OverlapOf(e)'
    BY <1>1, <1>2, <1>4 DEF ExecutionOk, OverlapOf
  <2>5. FlowOf(e)'
    <3>1. CASE wfStatus'[e] = "completed" /\ wfPc'[e] = "finish"
      BY <1>1, <1>2, <3>1 DEF ExecutionOk, FlowOf
    <3>2. CASE wfStatus'[e] = "running" /\ wfPc'[e] = "step" /\ current'[e] = next
      <4>1. current'[e] \in Steps => \A s \in Ran(e) : Leads(e, s)'
        BY <1>11, <3>2 DEF Leads
      <4>2. \E p \in Ran(e) : result[e][p] # "error" /\ Successor(p, branch[e][p]) = current'[e]
        BY <1>4, <3>2
      <4>3. /\ \A s \in Steps : branch[e][s] # "none" => TypeOf[s] = "condition"
            /\ answered[e] = NoAnswer
        BY <1>1 DEF ExecutionOk, FlowOf
      <4> HIDE DEF next
      <4> QED BY <1>2, <1>10, <3>2, <4>1, <4>2, <4>3 DEF FlowOf
    <3> QED BY <1>7, <3>1, <3>2
  <2> QED BY <2>1, <2>2, <2>3, <2>4, <2>5 DEF ExecutionOk
<1> QED BY <1>1, <1>2, <1>8, <1>9, <1>12, OneStep

\* A step ends with a result.
LEMMA EndStepOk ==
    ASSUME WfInv, NEW e \in Executions, NEW r \in {"success", "error", "timeout"}, EndStep(e, r)
    PROVE  WfInv'
<1> DEFINE s == current[e]
<1>1. wfPc[e] \in {"poll", "await"} /\ ExecutionOk(e) /\ WfTypeOK
  BY DEF WfInv, EndStep
<1>2. /\ s \in Steps /\ wfStatus[e] = "running" /\ \A x \in Ran(e) : result[e][x] # "error"
      /\ \A x \in Ran(e) : Leads(e, x)
  BY <1>1 DEF ExecutionOk, FlowOf, ErrorsOf
<1>3. /\ wfPc \in [Executions -> {"new", "step", "poll", "await", "settled", "finish", "spawn", "done", "lost"}]
      /\ result \in [Executions -> [Steps -> {"none", "success", "error", "timeout"}]]
      /\ branch \in [Executions -> [Steps -> {"none", "true", "false"}]]
      /\ wfStatus \in [Executions -> {"running", "completed", "failed"}]
      /\ children \in [Executions -> SUBSET Steps] /\ late \in [Executions -> SUBSET Steps]
  BY <1>1 DEF WfTypeOK
<1> DEFINE results == [result[e] EXCEPT ![s] = r]
<1>4. /\ result' = [result EXCEPT ![e] = results]
      /\ branch' = branch \/ (TypeOf[s] = "condition" /\ \E b \in {"true", "false"} : branch' = [branch EXCEPT ![e][s] = b])
      /\ file' = Saved(e, "running", results) \/ file' = file
      /\ wfStatus' = [wfStatus EXCEPT ![e] = IF r = "error" THEN "failed" ELSE @]
      /\ wfPc' = [wfPc EXCEPT ![e] = IF r = "error" THEN "finish" ELSE "settled"]
      /\ children' = [children EXCEPT ![e] = {}]
      /\ late' = [late EXCEPT ![e] = @ \cup children[e]]
      /\ UNCHANGED <<current, spawnedAt, wfRegistry, answered, crashed>>
  BY DEF EndStep, WfGoes, SaveQuietly
<1>5. s \in children[e] /\ wfPc[e] = "poll" => r = "timeout"
  BY DEF EndStep, ResultsOf
<1>6. /\ results \in [Steps -> {"none", "success", "error", "timeout"}] /\ results[s] = r /\ \A x \in Steps \ {s} : results[x] = result[e][x]
  BY <1>2, <1>3
<1>7. /\ result' \in [Executions -> [Steps -> {"none", "success", "error", "timeout"}]]
      /\ result'[e] = results /\ \A x \in Executions \ {e} : result'[x] = result[x]
  <2> HIDE DEF results
  <2> QED BY <1>3, <1>4, <1>6
<1>8. /\ branch' \in [Executions -> [Steps -> {"none", "true", "false"}]]
      /\ \A x \in Executions \ {e} : branch'[x] = branch[x]
      /\ \A x \in Steps \ {s} : branch'[e][x] = branch[e][x]
      /\ branch'[e][s] = branch[e][s] \/ TypeOf[s] = "condition"
  <2>1. CASE branch' = branch
    BY <1>3, <2>1
  <2>2. CASE TypeOf[s] = "condition" /\ \E b \in {"true", "false"} : branch' = [branch EXCEPT ![e][s] = b]
    <3>1. PICK b \in {"true", "false"} : branch' = [branch EXCEPT ![e][s] = b]
      BY <2>2
    <3> HIDE DEF s
    <3> QED BY <1>2, <1>3, <2>2, <3>1
  <2> QED BY <1>4, <2>1, <2>2
<1>9. /\ wfPc' \in [Executions -> {"new", "step", "poll", "await", "settled", "finish", "spawn", "done", "lost"}]
      /\ wfStatus' \in [Executions -> {"running", "completed", "failed"}]
      /\ \A x \in Executions \ {e} : wfPc'[x] = wfPc[x] /\ wfStatus'[x] = wfStatus[x]
      /\ r = "error" => wfPc'[e] = "finish" /\ wfStatus'[e] = "failed"
      /\ r # "error" => wfPc'[e] = "settled" /\ wfStatus'[e] = "running"
  <2>1. CASE r = "error"
    BY <1>2, <1>3, <1>4, <2>1
  <2>2. CASE r # "error"
    BY <1>2, <1>3, <1>4, <2>2
  <2> QED BY <2>1, <2>2
<1>10. /\ children' \in [Executions -> SUBSET Steps] /\ late' \in [Executions -> SUBSET Steps]
       /\ \A x \in Executions \ {e} : children'[x] = children[x] /\ late'[x] = late[x]
       /\ children'[e] = {} /\ late'[e] = late[e] \cup children[e]
  BY <1>3, <1>4
<1>11. Ran(e)' = Ran(e) \cup {s}
  <2> HIDE DEF s, results
  <2> QED BY <1>2, <1>6, <1>7 DEF Ran
<1>12. /\ file' \in [Executions -> [status : {"none", "running", "completed", "failed"}, steps : SUBSET Steps]]
       /\ \A x \in Executions \ {e} : file'[x] = file[x]
       /\ file'[e].steps \subseteq Ran(e) \cup {s} /\ file'[e].status \notin {"completed", "failed"}
  <2>1. CASE file' = file
    BY <1>1, <1>2, <2>1 DEF WfTypeOK, ExecutionOk, FileOf
  <2>2. CASE file' = Saved(e, "running", results)
    <3> HIDE DEF results
    <3>1. /\ file' \in [Executions -> [status : {"none", "running", "completed", "failed"}, steps : SUBSET Steps]]
          /\ file'[e].status = "running" /\ file'[e].steps = {x \in Steps : results[x] # "none"}
          /\ \A x \in Executions \ {e} : file'[x] = file[x]
      BY <1>1, <2>2, SavedOk
    <3>2. {x \in Steps : results[x] # "none"} \subseteq Ran(e) \cup {s}
      <4> HIDE DEF s
      <4> QED BY <1>6 DEF Ran
    <3> QED BY <3>1, <3>2
  <2> QED BY <1>4, <2>1, <2>2
<1>13. WfTypeOK'
  BY <1>1, <1>4, <1>7, <1>8, <1>9, <1>10, <1>12 DEF WfTypeOK
<1>14. \A x \in Executions \ {e} : Stays(x)
  BY <1>4, <1>7, <1>8, <1>9, <1>10, <1>12 DEF Stays
<1>15. /\ \A x \in Steps \ {s} : result'[e][x] = result[e][x] /\ branch'[e][x] = branch[e][x]
       /\ result'[e][s] = r /\ current' = current /\ answered' = answered
  <2> HIDE DEF s, results
  <2> QED BY <1>4, <1>6, <1>7, <1>8
<1>16. s \in Ran(e) => OnCycle(s)
  BY <1>2 DEF Leads, OnCycle
<1>17. ExecutionOk(e)'
  <2>1. PathOf(e)'
    <3> SUFFICES ASSUME NEW x \in Ran(e)'
                 PROVE  x = EntryStep \/ \E p \in Ran(e)' :
                           /\ x \in Edges(p)
                           /\ (result'[e][p] # "error" /\ Successor(p, branch'[e][p]) = x) \/ OnCycle(p)
      BY DEF PathOf
    <3>1. ASSUME NEW p \in Ran(e), x \in Edges(p), (result[e][p] # "error" /\ Successor(p, branch[e][p]) = x) \/ OnCycle(p)
          PROVE  \E q \in Ran(e)' :
                           /\ x \in Edges(q)
                           /\ (result'[e][q] # "error" /\ Successor(q, branch'[e][q]) = x) \/ OnCycle(q)
      <4>1. p \in Ran(e)' /\ p \in Steps
        BY <1>11 DEF Ran
      <4>2. CASE p = s
        BY <1>16, <3>1, <4>1, <4>2
      <4>3. CASE p # s
        BY <1>15, <3>1, <4>1, <4>3
      <4> QED BY <4>2, <4>3
    <3>2. CASE x \in Ran(e)
      BY <1>1, <3>1, <3>2 DEF ExecutionOk, PathOf
    <3>3. CASE x = s
      <4>1. x = EntryStep \/ \E p \in Ran(e) : result[e][p] # "error" /\ Successor(p, branch[e][p]) = x
        BY <1>1, <3>3 DEF ExecutionOk, FlowOf
      <4>2. ASSUME NEW p \in Ran(e), result[e][p] # "error", Successor(p, branch[e][p]) = x PROVE x \in Edges(p)
        <5>1. p \in Steps /\ branch[e][p] \in {"none", "true", "false"} /\ (branch[e][p] # "none" => TypeOf[p] = "condition")
          BY <1>1, <1>3 DEF ExecutionOk, FlowOf, Ran
        <5>2. Successor(p, branch[e][p]) \in Steps
          BY <1>2, <3>3, <4>2
        <5>3. Successor(p, branch[e][p]) \in Edges(p)
          BY <5>1, <5>2, SuccessorEdge
        <5> QED BY <4>2, <5>3
      <4> QED BY <3>1, <4>1, <4>2
    <3> QED BY <1>11, <3>2, <3>3
  <2>2. ErrorsOf(e)'
    <3>1. \A x \in Ran(e) : x \in Steps /\ result[e][x] # "error"
      BY <1>2 DEF Ran
    <3> HIDE DEF s
    <3>2. \A x \in Ran(e)' : result'[e][x] = "error" => x = s /\ r = "error"
      BY <1>11, <1>15, <3>1
    <3> QED BY <1>9, <1>15, <3>2 DEF ErrorsOf, s
  <2>3. FileOf(e)'
    BY <1>11, <1>12 DEF FileOf
  <2>4. OverlapOf(e)'
    <3>1. /\ children[e] \subseteq {s} /\ (children[e] # {} => wfPc[e] = "poll")
          /\ \A x \in late[e] : x \in Steps /\ (result[e][x] = "timeout" \/ OnCycle(x))
      BY <1>1, <1>3 DEF ExecutionOk, OverlapOf
    <3>2. result[e][s] = "timeout" => s \in Ran(e)
      BY <1>2 DEF Ran
    <3>3. \A x \in late'[e] : result'[e][x] = "timeout" \/ OnCycle(x)
      <4> SUFFICES ASSUME NEW x \in late'[e] PROVE result'[e][x] = "timeout" \/ OnCycle(x)
        OBVIOUS
      <4> HIDE DEF s
      <4>1. CASE x \in children[e]
        BY <1>5, <1>15, <3>1, <4>1
      <4>2. CASE x \in late[e] /\ x = s
        BY <1>16, <3>1, <3>2, <4>2
      <4>3. CASE x \in late[e] /\ x # s
        BY <1>15, <3>1, <4>3
      <4> QED BY <1>10, <4>1, <4>2, <4>3
    <3> QED BY <1>10, <3>3 DEF OverlapOf
  <2>5. FlowOf(e)'
    <3>1. \A x : Leads(e, x)' = Leads(e, x)
      BY <1>15 DEF Leads
    <3>2. /\ wfPc'[e] = "finish" \/ (wfPc'[e] = "settled" /\ wfStatus'[e] = "running")
          /\ current'[e] = s /\ s \in Ran(e)' /\ \A x \in Ran(e)' : x = s \/ Leads(e, x)'
      BY <1>2, <1>9, <1>11, <1>15, <3>1
    <3>3. \A x \in Steps : branch'[e][x] # "none" => TypeOf[x] = "condition"
      <4>1. \A x \in Steps : branch[e][x] # "none" => TypeOf[x] = "condition"
        BY <1>1 DEF ExecutionOk, FlowOf
      <4> HIDE DEF s
      <4> QED BY <1>8, <4>1
    <3>4. answered'[e] = NoAnswer
      BY <1>1, <1>15 DEF ExecutionOk, FlowOf
    <3> QED BY <1>2, <3>2, <3>3, <3>4 DEF FlowOf
  <2> QED BY <2>1, <2>2, <2>3, <2>4, <2>5 DEF ExecutionOk
<1> QED BY <1>1, <1>4, <1>13, <1>14, <1>17, OneStep

LEMMA ChildEndsOk == ASSUME WfInv, NEW e \in Executions, NEW t \in Steps, ChildEnds(e, t) PROVE WfInv'
<1>1. /\ UNCHANGED <<wfPc, current, result, branch, wfStatus, file, spawnedAt, wfRegistry, answered, crashed>>
      /\ \/ t \in children[e] /\ children' = [children EXCEPT ![e] = @ \ {t}] /\ late' = late
         \/ t \in late[e] /\ late' = [late EXCEPT ![e] = @ \ {t}] /\ children' = children
  BY DEF ChildEnds
<1>2. ExecutionOk(e) /\ WfTypeOK
  BY DEF WfInv
<1>3. /\ children \in [Executions -> SUBSET Steps] /\ late \in [Executions -> SUBSET Steps]
  BY <1>2 DEF WfTypeOK
<1>4. /\ children' \in [Executions -> SUBSET Steps] /\ late' \in [Executions -> SUBSET Steps]
      /\ \A x \in Executions \ {e} : children'[x] = children[x] /\ late'[x] = late[x]
      /\ children'[e] \subseteq children[e] /\ late'[e] \subseteq late[e]
  BY <1>1, <1>3
<1>5. WfTypeOK'
  BY <1>1, <1>2, <1>4 DEF WfTypeOK
<1>6. Ran(e)' = Ran(e) /\ \A x : Leads(e, x)' = Leads(e, x)
  BY <1>1 DEF Ran, Leads
<1>7. ExecutionOk(e)'
  <2>1. PathOf(e)' /\ ErrorsOf(e)' /\ FileOf(e)'
    BY <1>1, <1>2, <1>6 DEF ExecutionOk, PathOf, ErrorsOf, FileOf
  <2>2. OverlapOf(e)'
    BY <1>1, <1>2, <1>4 DEF ExecutionOk, OverlapOf
  <2>3. FlowOf(e)'
    <3>1. wfPc[e] \in {"new", "spawn"} => late'[e] = {}
      BY <1>2, <1>4 DEF ExecutionOk, FlowOf
    <3> QED BY <1>1, <1>2, <1>6, <3>1 DEF ExecutionOk, FlowOf
  <2> QED BY <2>1, <2>2, <2>3 DEF ExecutionOk
<1>8. \A x \in Executions : ExecutionOk(x)'
  <2> SUFFICES ASSUME NEW x \in Executions PROVE ExecutionOk(x)'
    OBVIOUS
  <2>1. ExecutionOk(x)
    BY DEF WfInv
  <2>2. x # e => Stays(x)
    BY <1>1, <1>4 DEF Stays
  <2> QED BY <2>1, <2>2, <1>7, StaysOk
<1>9. ReplayedHasEnded' /\ RegistryOk'
  <2>1. Responded' = Responded
    BY <1>1 DEF Responded
  <2> QED BY <1>1, <2>1 DEF WfInv, ReplayedHasEnded, RegistryOk
<1> QED BY <1>5, <1>8, <1>9 DEF WfInv

LEMMA CrashOk == ASSUME WfInv, Crash PROVE WfInv'
<1>1. /\ crashed' = TRUE /\ wfRegistry' = <<>>
      /\ wfPc' = [e \in Executions |-> IF wfPc[e] \in {"new", "done"} THEN wfPc[e] ELSE "lost"]
      /\ children' = [e \in Executions |-> {}] /\ late' = [e \in Executions |-> {}]
      /\ UNCHANGED <<current, result, branch, wfStatus, file, spawnedAt, answered>>
  BY DEF Crash
<1>2. WfTypeOK'
  BY <1>1 DEF WfInv, WfTypeOK
<1>3. ASSUME NEW e \in Executions PROVE ExecutionOk(e)'
  <2>1. ExecutionOk(e)
    BY DEF WfInv
  <2>2. /\ wfPc'[e] = "lost" \/ (wfPc'[e] = wfPc[e] /\ wfPc[e] \in {"new", "done"})
        /\ wfPc'[e] # "done" => wfPc[e] # "done"
        /\ children'[e] = {} /\ late'[e] = {}
    BY <1>1
  <2>3. Ran(e)' = Ran(e)
    BY <1>1 DEF Ran
  <2>4. PathOf(e)' /\ ErrorsOf(e)' /\ FileOf(e)'
    BY <1>1, <2>1, <2>3 DEF ExecutionOk, PathOf, ErrorsOf, FileOf
  <2>5. OverlapOf(e)'
    BY <2>2 DEF OverlapOf
  <2>6. FlowOf(e)'
    BY <1>1, <2>1, <2>2, <2>3 DEF ExecutionOk, FlowOf
  <2> QED BY <2>4, <2>5, <2>6 DEF ExecutionOk
<1>4. ReplayedHasEnded'
  BY <1>1 DEF WfInv, ReplayedHasEnded
<1>5. RegistryOk'
  BY <1>1 DEF RegistryOk
<1> QED BY <1>2, <1>3, <1>4, <1>5 DEF WfInv

LEMMA WfNextOk == ASSUME WfInv, [WfNext]_wfVars PROVE WfInv'
<1>1. CASE UNCHANGED wfVars
  <2>1. UNCHANGED <<wfPc, current, result, branch, wfStatus, file, children, late, spawnedAt, wfRegistry, answered, crashed>>
    BY <1>1 DEF wfVars
  <2>2. WfTypeOK' /\ ReplayedHasEnded'
    BY <2>1 DEF WfInv, WfTypeOK, ReplayedHasEnded
  <2>3. \A x \in Executions : ExecutionOk(x)'
    BY <2>1, StaysOk DEF WfInv, Stays
  <2>4. RegistryOk'
    <3>1. Responded' = Responded
      BY <2>1 DEF Responded
    <3> QED BY <2>1, <3>1 DEF WfInv, RegistryOk
  <2> QED BY <2>2, <2>3, <2>4 DEF WfInv
<1>2. ASSUME NEW e \in Executions, AllSpawned(e) PROVE WfInv'
  <2>1. /\ wfPc[e] = "spawn" /\ wfPc' = [wfPc EXCEPT ![e] = "done"] /\ Respond(e)
        /\ UNCHANGED <<current, result, branch, wfStatus, file, children, late, spawnedAt, crashed>>
    BY <1>2 DEF AllSpawned, WfGoes
  <2> QED BY <2>1, AnswerOk
<1>3. ASSUME NEW e \in Executions, FinishWorkflow(e) PROVE WfInv'
  <2>1. /\ wfPc[e] = "finish" /\ wfPc' = [wfPc EXCEPT ![e] = "done"]
        /\ Respond(e) \/ UNCHANGED <<wfRegistry, answered>>
        /\ file' = file \/ file' = Saved(e, wfStatus[e], result[e])
        /\ UNCHANGED <<current, result, branch, wfStatus, children, late, spawnedAt, crashed>>
    BY <1>3 DEF FinishWorkflow, WfGoes, SaveQuietly
  <2> QED BY <2>1, AnswerOk
<1>4. CASE WfNext
  BY <1>2, <1>3, <1>4, ExecuteOk, ReplayOk, SpawnNextOk, StartStepOk, NextStepOk, EndStepOk, ChildEndsOk, CrashOk
     DEF WfNext, WfStep
<1> QED BY <1>1, <1>4

LEMMA WfInvariance == WfSpec => []WfInv
<1>1. WfInit => WfInv
  BY WfInitInv
<1>2. WfInv /\ [WfNext]_wfVars => WfInv'
  BY WfNextOk
<1> QED BY <1>1, <1>2, PTL DEF WfSpec

\* For any graph, cycles included, any number of requests and a registry of
\* any size, whichever saves are lost and wherever the backend dies: the steps
\* that ran form a path, a failure is that of the last step, the file is never
\* ahead of the execution, only subruns whose step timed out are still active
\* beside the current step's, and a replayed response is that of an ended
\* execution of the same key and payload.
THEOREM ExecutionSoundHolds == WfSpec => []ExecutionSound
<1>1. WfInv => ExecutionSound
  BY WfInvSound
<1> QED BY <1>1, WfInvariance, PTL

-----------------------------------------------------------------------------
(* FanOut: the inductive invariant *)

\* A task that runs waits for the semaphore or holds it; between the rounds
\* of a graph, and once the call has returned, none does.
Seated ==
    /\ \A t \in slots : taskStatus[t] = "running"
    /\ \A t \in queued : taskStatus[t] = IF mode = "dag" THEN "running" ELSE "pending"
    /\ \A t \in Tasks : taskStatus[t] = "running" => t \in slots \cup queued
    /\ callerPc \in {"rounds", "done"} => slots = {} /\ queued = {}

\* Only a race cancels, only a graph has rounds.
Stages ==
    /\ callerPc = "rounds" => mode = "dag"
    /\ callerPc = "cancelling" => mode = "race"
    /\ mode = "dag" => \A t \in Tasks : taskStatus[t] # "cancelled"

\* The winner's event was set by the first task to complete.
FirstIsWinner == mode = "race" => winner = IF order = <<>> THEN NoTask ELSE Head(order)

\* completed_ids is what all_results reports: steps that are over, and while
\* the graph is worked on, all that are over between two rounds; a step that
\* was started had its dependencies in it.
Progress ==
    mode = "dag" =>
        /\ reported = satisfied
        /\ \A d \in satisfied : taskStatus[d] \in {"completed", "failed"}
        /\ callerPc = "rounds" => \A t \in Tasks : taskStatus[t] # "pending" => t \in satisfied
        /\ \A t \in Tasks :
             taskStatus[t] \in {"running", "completed"} => DependsOn[t] \subseteq satisfied

FanInv == ResultsSound /\ Seated /\ Stages /\ FirstIsWinner /\ Progress

LEMMA FanInitial == FanInit => FanInv
BY FanAssumption
   DEF FanInit, FanInv, ResultsSound, FanTypeOK, FirstWins, NothingLeftRunning, QuorumHeeded,
       GraphOrder, Seated, Stages, FirstIsWinner, Progress

-----------------------------------------------------------------------------
(* FanOut: every step keeps it *)

\* The result of a quorum is one of those that agree, and whatever is returned
\* is a task, or none where there is nothing to return.
LEMMA ReturnedFits ==
    ASSUME FanInv, NEW c \in Returned, mode # "dag"
    PROVE  /\ c \in Tasks \cup {NoTask}
           /\ mode = "quorum" /\ InQuorum # {} => c \in InQuorum
           /\ mode = "race" => c = winner
<1>1. c \in Tasks \cup {NoTask}
  BY DEF Returned, Surest, Completed, Agreeing, FanInv, ResultsSound, FanTypeOK
<1>2. ASSUME mode = "quorum", InQuorum # {}
      PROVE  c \in InQuorum
  <2>1. PICK t \in InQuorum : c \in Surest(Agreeing(t))
    BY <1>2 DEF Returned, InQuorum
  <2>2. c \in Completed /\ Agreeing(c) = Agreeing(t)
    BY <2>1 DEF Surest, Agreeing
  <2> QED BY <2>1, <2>2 DEF InQuorum
<1> QED BY <1>1, <1>2 DEF Returned

\* A task that completes is the winner of a race if none did before.
LEMMA CompleteKeeps ==
    ASSUME FanInv, NEW t \in Tasks, NEW v \in Values, Complete(t, v)
    PROVE  FanInv'
<1>1. FanTypeOK'
  BY DEF FanInv, ResultsSound, FanTypeOK, Complete, Became
<1>2. FirstWins' /\ FirstIsWinner'
  <2>1. order \in Seq(Tasks) /\ order' = Append(order, t)
    BY DEF FanInv, ResultsSound, FanTypeOK, Complete
  <2>2. order' # <<>> /\ Head(order') = IF order = <<>> THEN t ELSE Head(order)
    BY <2>1
  <2>3. order # <<>> => Head(order) \in Tasks
    BY <2>1
  <2> QED BY <2>2, <2>3, FanAssumption DEF FanInv, FirstIsWinner, FirstWins, Complete
<1>3. NothingLeftRunning' /\ QuorumHeeded' /\ Seated' /\ Stages'
  BY DEF FanInv, ResultsSound, FanTypeOK, Seated, Stages, NothingLeftRunning, QuorumHeeded, Complete, Became
<1>4. GraphOrder' /\ Progress'
  <2>1. mode = "dag" => DependsOn[t] \subseteq satisfied /\ t \notin satisfied
    BY DEF FanInv, ResultsSound, FanTypeOK, GraphOrder, Seated, Progress, Stages, Complete
  <2> QED BY <2>1 DEF FanInv, ResultsSound, FanTypeOK, GraphOrder, Progress, Complete, Became
<1> QED BY <1>1, <1>2, <1>3, <1>4 DEF FanInv, ResultsSound

\* The other steps of the tasks move no result.
LEMMA TasksKeep ==
    ASSUME FanInv, NEW t \in Tasks, Enter(t) \/ FailTask(t) \/ CancelTask(t)
    PROVE  FanInv'
<1>1. CASE Enter(t)
  <2>1. FanTypeOK' /\ Seated'
    BY <1>1 DEF FanInv, ResultsSound, FanTypeOK, Seated, Enter, Became
  <2>3. FirstWins' /\ FirstIsWinner' /\ NothingLeftRunning' /\ QuorumHeeded' /\ Stages'
    BY <1>1 DEF FanInv, ResultsSound, FanTypeOK, FirstWins, FirstIsWinner, Stages, NothingLeftRunning,
                QuorumHeeded, Enter, Became
  <2>2. GraphOrder' /\ Progress'
    BY <1>1 DEF FanInv, ResultsSound, FanTypeOK, GraphOrder, Progress, Seated, Enter, Became
  <2> QED BY <2>1, <2>2, <2>3 DEF FanInv, ResultsSound
<1>2. CASE FailTask(t)
  <2>1. FanTypeOK' /\ Seated'
    BY <1>2 DEF FanInv, ResultsSound, FanTypeOK, Seated, FailTask, Became
  <2>3. FirstWins' /\ FirstIsWinner' /\ NothingLeftRunning' /\ QuorumHeeded' /\ Stages'
    BY <1>2 DEF FanInv, ResultsSound, FanTypeOK, FirstWins, FirstIsWinner, Stages, NothingLeftRunning,
                QuorumHeeded, FailTask, Became
  <2>2. GraphOrder' /\ Progress'
    BY <1>2 DEF FanInv, ResultsSound, FanTypeOK, GraphOrder, Progress, Seated, FailTask, Became
  <2> QED BY <2>1, <2>2, <2>3 DEF FanInv, ResultsSound
<1>3. CASE CancelTask(t)
  <2>1. FanTypeOK' /\ Seated'
    BY <1>3 DEF FanInv, ResultsSound, FanTypeOK, Seated, Stages, CancelTask, Became
  <2>3. FirstWins' /\ FirstIsWinner' /\ NothingLeftRunning' /\ QuorumHeeded' /\ Stages'
    BY <1>3 DEF FanInv, ResultsSound, FanTypeOK, FirstWins, FirstIsWinner, Stages, NothingLeftRunning,
                QuorumHeeded, CancelTask, Became
  <2>2. GraphOrder' /\ Progress'
    BY <1>3 DEF FanInv, ResultsSound, FanTypeOK, GraphOrder, Progress, Stages, CancelTask, Became
  <2> QED BY <2>1, <2>2, <2>3 DEF FanInv, ResultsSound
<1> QED BY <1>1, <1>2, <1>3

\* The caller of a race goes on; of all strategies but a graph, returns.
LEMMA CallerKeeps ==
    ASSUME FanInv, StopRace \/ Return
    PROVE  FanInv'
<1>1. CASE StopRace
  BY <1>1 DEF FanInv, ResultsSound, FanTypeOK, FirstWins, FirstIsWinner, Seated, Stages, NothingLeftRunning,
              QuorumHeeded, GraphOrder, Progress, StopRace
<1>2. CASE Return
  <2>1. /\ chosen' \in Tasks \cup {NoTask}
        /\ mode = "quorum" /\ InQuorum # {} => chosen' \in InQuorum
        /\ mode = "race" => chosen' = winner
    BY <1>2, ReturnedFits DEF Return
  <2>2. FanTypeOK' /\ FirstWins' /\ FirstIsWinner' /\ NothingLeftRunning' /\ Seated' /\ Stages'
    BY <1>2, <2>1 DEF FanInv, ResultsSound, FanTypeOK, FirstWins, FirstIsWinner, Seated, Stages,
                NothingLeftRunning, Return
  <2>3. InQuorum' = InQuorum
    BY <1>2 DEF InQuorum, Agreeing, Completed, Return
  <2>4. QuorumHeeded' /\ GraphOrder' /\ Progress'
    BY <1>2, <2>1, <2>3 DEF QuorumHeeded, GraphOrder, Progress, Return
  <2> QED BY <2>2, <2>4 DEF FanInv, ResultsSound
<1> QED BY <1>1, <1>2

\* A round starts what is ready, ends with all of it over, and the last one
\* leaves only what waits for something that never ran.
LEMMA RoundsKeep ==
    ASSUME FanInv, StartRound \/ EndRound \/ EndDag
    PROVE  FanInv'
<1>1. mode = "dag"
  BY DEF FanInv, Stages, StartRound, EndRound, EndDag
<1>2. CASE StartRound
  <2>1. FanTypeOK' /\ FirstWins' /\ FirstIsWinner' /\ NothingLeftRunning' /\ QuorumHeeded' /\ Seated' /\ Stages'
    BY <1>1, <1>2 DEF FanInv, ResultsSound, FanTypeOK, FirstWins, FirstIsWinner, Seated, Stages,
                NothingLeftRunning, QuorumHeeded, StartRound, Ready
  <2>2. GraphOrder' /\ Progress'
    BY <1>1, <1>2 DEF FanInv, ResultsSound, FanTypeOK, GraphOrder, Progress, StartRound, Ready
  <2> QED BY <2>1, <2>2 DEF FanInv, ResultsSound
<1>3. CASE EndRound
  <2>1. \A t \in Tasks : taskStatus[t] \in {"pending", "completed", "failed"}
    BY <1>1, <1>3 DEF FanInv, ResultsSound, FanTypeOK, Seated, Stages, EndRound
  <2>2. FanTypeOK' /\ FirstWins' /\ FirstIsWinner' /\ NothingLeftRunning' /\ QuorumHeeded' /\ Seated' /\ Stages'
    BY <1>1, <1>3 DEF FanInv, ResultsSound, FanTypeOK, FirstWins, FirstIsWinner, Seated, Stages,
                NothingLeftRunning, QuorumHeeded, EndRound
  <2>3. GraphOrder' /\ Progress'
    BY <1>1, <1>3, <2>1 DEF FanInv, ResultsSound, FanTypeOK, GraphOrder, Progress, EndRound
  <2> QED BY <2>2, <2>3 DEF FanInv, ResultsSound
<1>4. CASE EndDag
  <2>1. FanTypeOK' /\ FirstWins' /\ FirstIsWinner' /\ NothingLeftRunning' /\ QuorumHeeded' /\ Seated' /\ Stages'
    BY <1>1, <1>4 DEF FanInv, ResultsSound, FanTypeOK, FirstWins, FirstIsWinner, Seated, Stages,
                NothingLeftRunning, QuorumHeeded, EndDag
  <2>2. \A t \in Tasks \ reported : DependsOn[t] \ reported # {}
    BY <1>1, <1>4 DEF FanInv, Progress, EndDag, Ready
  <2>3. GraphOrder' /\ Progress'
    BY <1>1, <1>4, <2>2 DEF FanInv, ResultsSound, FanTypeOK, GraphOrder, Progress, EndDag
  <2> QED BY <2>1, <2>3 DEF FanInv, ResultsSound
<1> QED BY <1>2, <1>3, <1>4

LEMMA FanKeeps == FanInv /\ [FanNext]_fanVars => FanInv'
<1> SUFFICES ASSUME FanInv, [FanNext]_fanVars
             PROVE  FanInv'
  OBVIOUS
<1>1. CASE UNCHANGED fanVars
  BY <1>1 DEF fanVars, FanInv, ResultsSound, FanTypeOK, FirstWins, NothingLeftRunning, QuorumHeeded, InQuorum,
              Completed, Agreeing, GraphOrder, Seated, Stages, FirstIsWinner, Progress
<1> QED BY <1>1, CompleteKeeps, TasksKeep, CallerKeeps, RoundsKeep DEF FanNext

\* ParallelExecutor: a race returns the first result, a quorum one of those
\* that agree, a graph runs in its order, and nothing is left running, for
\* any tasks, dependencies, results, degree of concurrency and threshold.
THEOREM ResultsSoundHolds == FanSpec => []ResultsSound
<1>1. FanInv => ResultsSound
  BY DEF FanInv
<1> QED BY <1>1, FanInitial, FanKeeps, PTL DEF FanSpec

-----------------------------------------------------------------------------
(* AgentBus: a mailbox with one more message *)

\* The sequence with m put in at position k.
Inserted(q, k, m) ==
    [i \in 1 .. Len(q) + 1 |-> IF i < k THEN q[i] ELSE IF i = k THEN m ELSE q[i - 1]]

InOrder(q) == \A i, k \in 1 .. Len(q) : i < k => Urgency(q[i]) >= Urgency(q[k])

LEMMA InsertedProperties ==
    ASSUME NEW S, NEW q \in Seq(S), NEW m \in S, NEW k \in 1 .. Len(q) + 1
    PROVE  /\ Inserted(q, k, m) \in Seq(S)
           /\ Len(Inserted(q, k, m)) = Len(q) + 1
           /\ Inserted(q, k, m)[k] = m
           /\ \A i \in 1 .. k - 1 : Inserted(q, k, m)[i] = q[i]
           /\ \A i \in k .. Len(q) : Inserted(q, k, m)[i + 1] = q[i]
<1> DEFINE n == Len(q)
<1>1. n \in Nat /\ n + 1 \in Nat /\ k \in Nat /\ k \in 1 .. n + 1
  OBVIOUS
<1>2. \A i \in 1 .. n : q[i] \in S
  OBVIOUS
<1>3. Inserted(q, k, m) \in [1 .. n + 1 -> S]
  <2> SUFFICES ASSUME NEW i \in 1 .. n + 1
               PROVE  (IF i < k THEN q[i] ELSE IF i = k THEN m ELSE q[i - 1]) \in S
    BY DEF Inserted
  <2>1. CASE i < k
    <3>1. i \in 1 .. n
      BY <1>1, <2>1
    <3> QED BY <1>2, <2>1, <3>1
  <2>2. CASE i > k
    <3>1. i - 1 \in 1 .. n /\ ~(i < k) /\ i # k
      BY <1>1, <2>2
    <3> QED BY <1>2, <3>1
  <2>3. CASE i = k
    BY <1>1, <2>3
  <2> QED BY <1>1, <2>1, <2>2, <2>3
<1>4. Inserted(q, k, m) \in Seq(S) /\ Len(Inserted(q, k, m)) = n + 1
  BY <1>1, <1>3
<1>5. ASSUME NEW i \in k .. n PROVE Inserted(q, k, m)[i + 1] = q[i]
  <2>1. i + 1 \in 1 .. n + 1 /\ ~(i + 1 < k) /\ i + 1 # k /\ (i + 1) - 1 = i
    BY <1>1
  <2> QED BY <2>1 DEF Inserted
<1>6. ASSUME NEW i \in 1 .. k - 1 PROVE Inserted(q, k, m)[i] = q[i]
  <2>1. i \in 1 .. n + 1 /\ i < k
    BY <1>1
  <2> QED BY <2>1 DEF Inserted
<1>7. Inserted(q, k, m)[k] = m
  BY <1>1 DEF Inserted
<1> QED BY <1>4, <1>5, <1>6, <1>7

\* InsertAt of the community modules is that sequence.
LEMMA InsertAtInserts ==
    ASSUME NEW S, NEW q \in Seq(S), NEW m \in S, NEW k \in 1 .. Len(q) + 1
    PROVE  InsertAt(q, k, m) = Inserted(q, k, m)
<1> DEFINE n == Len(q)
           front == SubSeq(q, 1, k - 1)
           rest == SubSeq(q, k, Len(q))
           whole == front \o <<m>> \o rest
<1>1. n \in Nat /\ k \in Nat /\ k \in 1 .. n + 1
  OBVIOUS
<1>2. /\ front \in Seq(S) /\ Len(front) = k - 1
      /\ \A j \in 1 .. k - 1 : front[j] = q[j]
  BY <1>1, SubSeqProperties
<1>3. /\ rest \in Seq(S) /\ Len(rest) = n + 1 - k
      /\ \A j \in 1 .. n + 1 - k : rest[j] = q[k + j - 1]
  BY <1>1, SubSeqProperties
<1> HIDE DEF front, rest
<1>4. /\ front \o <<m>> \in Seq(S) /\ Len(front \o <<m>>) = k
      /\ (front \o <<m>>)[k] = m
      /\ \A j \in 1 .. k - 1 : (front \o <<m>>)[j] = q[j]
  BY <1>1, <1>2
<1>5. /\ whole \in Seq(S) /\ Len(whole) = n + 1
      /\ \A j \in 1 .. n + 1 :
           whole[j] = IF j <= k THEN (front \o <<m>>)[j] ELSE rest[j - k]
  BY <1>1, <1>3, <1>4, ConcatProperties
<1> HIDE DEF whole
<1>6. ASSUME NEW j \in 1 .. n + 1
      PROVE  whole[j] = IF j < k THEN q[j] ELSE IF j = k THEN m ELSE q[j - 1]
  <2>1. CASE j < k
    <3>1. j \in 1 .. k - 1 /\ j <= k
      BY <1>1, <2>1
    <3> QED BY <1>4, <1>5, <2>1, <3>1
  <2>2. CASE j = k
    BY <1>1, <1>4, <1>5, <2>2
  <2>3. CASE j > k
    <3>1. j - k \in 1 .. n + 1 - k /\ ~(j <= k) /\ ~(j < k) /\ j # k /\ k + (j - k) - 1 = j - 1
      BY <1>1, <2>3
    <3> QED BY <1>3, <1>5, <3>1
  <2> QED BY <1>1, <2>1, <2>2, <2>3
<1>7. whole = Inserted(q, k, m)
  BY <1>1, <1>5, <1>6 DEF Inserted
<1> QED BY <1>7 DEF whole, front, rest, InsertAt

\* A set of positions without gaps is an initial segment, as long as it is big.
LEMMA InitialSegment ==
    ASSUME NEW n \in Nat, NEW U \in SUBSET (1 .. n),
           \A i \in U : \A j \in 1 .. n : j < i => j \in U
    PROVE  Cardinality(U) \in 0 .. n /\ U = 1 .. Cardinality(U)
<1> DEFINE T == (1 .. n + 1) \ U
<1>1. T \subseteq Nat /\ n + 1 \in T
  OBVIOUS
<1>2. PICK i \in T : \A j \in T : i <= j
  <2> HIDE DEF T
  <2> QED BY <1>1, LeastNumber
<1>3. i - 1 \in 0 .. n /\ U = 1 .. (i - 1)
  <2>1. i \in 1 .. n + 1 /\ i \notin U
    OBVIOUS
  <2>2. ASSUME NEW j \in 1 .. n, j < i PROVE j \in U
    <3>1. j \notin T
      BY <1>2, <2>1, <2>2
    <3> QED BY <3>1
  <2>3. ASSUME NEW j \in U PROVE j < i
    <3>1. j \in 1 .. n /\ j # i
      BY <2>1
    <3>2. ~(i < j)
      BY <2>1, <3>1
    <3> QED BY <2>1, <3>1, <3>2
  <2>4. U \subseteq 1 .. (i - 1) /\ 1 .. (i - 1) \subseteq U
    BY <2>1, <2>2, <2>3
  <2>5. U = 1 .. (i - 1)
    BY <2>4
  <2>6. i - 1 \in 0 .. n
    BY <2>1
  <2> QED BY <2>5, <2>6
<1>4. Cardinality(1 .. (i - 1)) = i - 1
  <2>1. i - 1 \in Int /\ 1 \in Int /\ i - 1 >= 0
    BY <1>3
  <2>2. Cardinality(1 .. (i - 1)) = IF 1 > i - 1 THEN 0 ELSE (i - 1) - 1 + 1
    BY <2>1, FS_Interval
  <2> QED BY <2>1, <2>2
<1> QED BY <1>3, <1>4

\* Every message goes behind what is at least as urgent and in front of what
\* is at most as urgent: a mailbox in order stays in order.
LEMMA PlacedFits ==
    ASSUME NEW q \in Seq(Mail), NEW m \in Mail, InOrder(q)
    PROVE  \E k \in 1 .. Len(q) + 1 :
              /\ Placed(q, m) = Inserted(q, k, m)
              /\ InOrder(Inserted(q, k, m))
<1> DEFINE n == Len(q)
           U == {i \in DOMAIN q : Urgency(q[i]) = 2}
<1>1. n \in Nat /\ DOMAIN q = 1 .. n /\ \A i \in 1 .. n : q[i] \in Mail
  OBVIOUS
<1>2. \A x \in Mail : Urgency(x) \in {0, 1, 2}
  BY DEF Urgency
<1>3. Cardinality(U) \in 0 .. n /\ U = 1 .. Cardinality(U)
  <2>1. U \in SUBSET (1 .. n)
    BY <1>1
  <2>2. ASSUME NEW i \in U, NEW j \in 1 .. n, j < i PROVE j \in U
    <3>1. i \in 1 .. n /\ Urgency(q[i]) = 2
      BY <1>1
    <3>2. Urgency(q[j]) >= Urgency(q[i])
      BY <1>1, <2>2, <3>1 DEF InOrder
    <3>3. Urgency(q[j]) = 2
      BY <1>1, <1>2, <3>1, <3>2
    <3> QED BY <1>1, <3>3
  <2> HIDE DEF U, n
  <2> QED BY <1>1, <2>1, <2>2, InitialSegment
<1> DEFINE k == CASE Urgency(m) = 2 -> 1
                  [] Urgency(m) = 1 -> Cardinality(U) + 1
                  [] OTHER -> n + 1
<1>4. k \in 1 .. n + 1
  BY <1>1, <1>2, <1>3
<1>5. /\ \A i \in 1 .. n : i < k => Urgency(q[i]) >= Urgency(m)
      /\ \A i \in 1 .. n : i >= k => Urgency(m) >= Urgency(q[i])
  <2>1. CASE Urgency(m) = 2
    <3>1. k = 1
      BY <2>1
    <3> QED BY <1>1, <1>2, <2>1, <3>1
  <2>2. CASE Urgency(m) = 1
    <3>1. k = Cardinality(U) + 1
      BY <2>2
    <3>2. \A i \in 1 .. n : i \in U <=> Urgency(q[i]) = 2
      BY <1>1
    <3> HIDE DEF k, U
    <3>3. \A i \in 1 .. n : i < k <=> Urgency(q[i]) = 2
      BY <1>1, <1>3, <3>1, <3>2
    <3>4. \A i \in 1 .. n : Urgency(q[i]) \in {0, 1, 2}
      BY <1>1, <1>2
    <3>5. k \in Nat
      BY <1>1, <1>4
    <3> QED BY <1>1, <2>2, <3>3, <3>4, <3>5
  <2>3. CASE Urgency(m) = 0
    <3>1. k = n + 1
      BY <2>3
    <3> QED BY <1>1, <1>2, <2>3, <3>1
  <2> QED BY <1>2, <2>1, <2>2, <2>3
<1>6. Placed(q, m) = Inserted(q, k, m)
  <2>1. CASE Urgency(m) = 2
    <3>1. k = 1 /\ Placed(q, m) = <<m>> \o q
      BY <2>1 DEF Placed
    <3>2. /\ <<m>> \o q \in Seq(Mail) /\ Len(<<m>> \o q) = n + 1
          /\ \A i \in 1 .. n + 1 : (<<m>> \o q)[i] = IF i = 1 THEN m ELSE q[i - 1]
      BY <1>1
    <3> HIDE DEF k
    <3>3. <<m>> \o q = [i \in 1 .. n + 1 |-> IF i < 1 THEN q[i] ELSE IF i = 1 THEN m ELSE q[i - 1]]
      BY <1>1, <3>2
    <3> QED BY <3>1, <3>3 DEF Inserted
  <2>2. CASE Urgency(m) = 1
    <3>1. k = Cardinality(U) + 1 /\ Placed(q, m) = InsertAt(q, k, m)
      BY <2>2 DEF Placed
    <3> HIDE DEF k, U
    <3> QED BY <1>4, <3>1, InsertAtInserts
  <2>3. CASE Urgency(m) = 0
    <3>1. k = n + 1 /\ Placed(q, m) = Append(q, m)
      BY <2>3 DEF Placed
    <3>2. /\ Append(q, m) \in Seq(Mail) /\ Len(Append(q, m)) = n + 1
          /\ \A i \in 1 .. n + 1 : Append(q, m)[i] = IF i = n + 1 THEN m ELSE q[i]
      BY <1>1
    <3> HIDE DEF k
    <3>3. Append(q, m) =
            [i \in 1 .. n + 1 |-> IF i < n + 1 THEN q[i] ELSE IF i = n + 1 THEN m ELSE q[i - 1]]
      <4> DEFINE p == Append(q, m)
      <4>0. p \in Seq(Mail) /\ Len(p) = n + 1 /\ \A i \in 1 .. n + 1 : p[i] = IF i = n + 1 THEN m ELSE q[i]
        BY <3>2
      <4> HIDE DEF p, n
      <4>1. p \in [1 .. n + 1 -> Mail] /\ \A i \in 1 .. n + 1 : p[i] = IF i = n + 1 THEN m ELSE q[i]
        BY <4>0
      <4>2. p = [i \in 1 .. n + 1 |-> IF i < n + 1 THEN q[i] ELSE IF i = n + 1 THEN m ELSE q[i - 1]]
        BY <1>1, <4>1
      <4> QED BY <4>2 DEF p
    <3> QED BY <3>1, <3>3 DEF Inserted
  <2> QED BY <1>2, <2>1, <2>2, <2>3
<1> HIDE DEF k, U
<1>7. InOrder(Inserted(q, k, m))
  <2> DEFINE p == Inserted(q, k, m)
  <2>1. /\ Len(p) = n + 1 /\ p[k] = m
        /\ \A i \in 1 .. k - 1 : p[i] = q[i]
        /\ \A i \in k .. n : p[i + 1] = q[i]
    BY <1>4, InsertedProperties
  <2>2. ASSUME NEW i \in 1 .. n + 1, i > k PROVE i - 1 \in k .. n /\ p[i] = q[i - 1]
    <3>1. i - 1 \in k .. n /\ (i - 1) + 1 = i
      BY <1>1, <1>4, <2>2
    <3> QED BY <2>1, <3>1
  <2>3. ASSUME NEW i \in 1 .. n + 1, i < k PROVE i \in 1 .. n /\ p[i] = q[i]
    <3>1. i \in 1 .. k - 1 /\ i \in 1 .. n
      BY <1>1, <1>4, <2>3
    <3> QED BY <2>1, <3>1
  <2> HIDE DEF p
  <2>4. ASSUME NEW i \in 1 .. n + 1, NEW j \in 1 .. n + 1, i < j
        PROVE  Urgency(p[i]) >= Urgency(p[j])
    <3>1. CASE j < k
      <4>1. i \in 1 .. n /\ j \in 1 .. n /\ p[i] = q[i] /\ p[j] = q[j]
        BY <1>1, <1>4, <2>3, <2>4, <3>1
      <4> QED BY <2>4, <4>1 DEF InOrder
    <3>2. CASE j = k
      <4>1. i \in 1 .. n /\ p[i] = q[i] /\ i < k /\ p[j] = m
        BY <1>1, <1>4, <2>1, <2>3, <2>4, <3>2
      <4> QED BY <1>5, <4>1
    <3>3. CASE j > k /\ i < k
      <4>1. /\ i \in 1 .. n /\ p[i] = q[i]
            /\ j - 1 \in 1 .. n /\ p[j] = q[j - 1] /\ i < j - 1
        BY <1>1, <1>4, <2>2, <2>3, <3>3
      <4> QED BY <4>1 DEF InOrder
    <3>4. CASE j > k /\ i = k
      <4>1. j - 1 \in 1 .. n /\ j - 1 >= k /\ p[j] = q[j - 1] /\ p[i] = m
        BY <1>1, <1>4, <2>1, <2>2, <3>4
      <4> QED BY <1>5, <4>1
    <3>5. CASE j > k /\ i > k
      <4>1. /\ i - 1 \in 1 .. n /\ p[i] = q[i - 1]
            /\ j - 1 \in 1 .. n /\ p[j] = q[j - 1] /\ i - 1 < j - 1
        BY <1>1, <1>4, <2>2, <2>4, <3>5
      <4> QED BY <4>1 DEF InOrder
    <3> QED BY <1>4, <3>1, <3>2, <3>3, <3>4, <3>5
  <2> QED BY <2>1, <2>4 DEF InOrder, p
<1> QED BY <1>4, <1>6, <1>7

-----------------------------------------------------------------------------
(* AgentBus: the inductive invariant *)

MailShape ==
    /\ boxes \in [Boxes -> Seq(Mail)]
    /\ \A b \in Boxes : Len(boxes[b]) <= MailboxSize
    /\ bell \subseteq Boxes /\ dead \subseteq Mail /\ taken \subseteq Mail

At(b, i) == boxes[b][i]

\* A message that is no reply is in one place of one mailbox, received, or a
\* dead letter, and only one of these.
OneCopy ==
    /\ \A b, c \in Boxes : \A i \in 1 .. Len(boxes[b]), k \in 1 .. Len(boxes[c]) :
         At(b, i) = At(c, k) /\ At(b, i).reply = 0 => b = c /\ i = k
    /\ \A b \in Boxes : \A i \in 1 .. Len(boxes[b]) :
         At(b, i).reply = 0 => At(b, i) \notin taken \cup dead
    /\ \A m \in taken : m.reply = 0 => m \notin dead

\* The message has been delivered, whatever became of it.
Out(m) == m \in taken \cup dead \/ \E b \in Boxes : \E i \in 1 .. Len(boxes[b]) : At(b, i) = m

\* A send delivers to each target once: no copy is out before, and the one of
\* a direct send or a request is out once its target is gone.
SentOnce ==
    /\ \A s \in Sends : \A a \in Agents : Out(MailOf(s, a)) => sendPc[s] # "new" /\ a \notin targets[s]
    /\ \A s \in Sends :
         Kind[s] \in {"direct", "request"} /\ sendPc[s] # "new" =>
             Recipient[s] \in targets[s] \/ Out(MailOf(s, Recipient[s]))
    /\ \A s \in Sends : sendPc[s] \in {"await", "done"} => targets[s] = {}

\* Only requests wait for replies, and nothing has come back before the send.
Pending ==
    /\ \A s \in pendingReplies : Kind[s] = "request"
    /\ \A s \in Sends : sendPc[s] = "new" => outcome[s] = "none"

Mailboxes == MailShape /\ UrgentFirst /\ BellMatchesInbox /\ OneCopy

BusControl ==
    /\ epoch \in [Agents -> 0 .. Epochs] /\ born \in [Agents -> 0 .. Epochs]
    /\ \A a \in Agents : epoch[a] \in {0, born[a]}
    /\ subscribers \subseteq Agents /\ pendingReplies \subseteq Sends
    /\ sendPc \in [Sends -> {"new", "route", "handle", "echo", "await", "done", "cut"}]
    /\ targets \in [Sends -> SUBSET Agents]
    /\ outcome \in [Sends -> {"none", "reply", "timeout"}]
    /\ waitPc \in [Waits -> {"idle", "asleep", "awake", "done"}] /\ waitBox \in [Waits -> Boxes]
    /\ replies \in [Sends -> 0 .. ReplyBound]

BusInv == BusControl /\ Mailboxes /\ SentOnce /\ Pending /\ NoStalePending

LEMMA OpenBox ==
    ASSUME BusControl, NEW a \in Agents, epoch[a] # 0
    PROVE  <<a, epoch[a]>> \in Boxes
BY BusAssumption DEF BusControl, Boxes

\* A delivery puts one message more somewhere, and moves no other.
LEMMA DeliverKeeps ==
    ASSUME BusControl, Mailboxes, NEW m \in Mail, m.reply = 0 => ~Out(m), Deliver(m), UNCHANGED taken
    PROVE  Mailboxes' /\ \A x \in Mail : Out(x)' <=> Out(x) \/ x = m
<1>1. CASE Accepts(m.to)
  <2>0. PICK box \in Boxes : box = <<m.to, epoch[m.to]>>
    BY <1>1, OpenBox DEF Accepts, Mail
  <2> DEFINE q == boxes[box]
  <2>1. /\ box \in Boxes /\ q \in Seq(Mail) /\ Len(q) < MailboxSize
        /\ boxes' = [boxes EXCEPT ![box] = Placed(q, m)] /\ bell' = bell \cup {box} /\ dead' = dead
    BY <1>1, <2>0 DEF Accepts, Deliver, Mailboxes, MailShape
  <2>2. InOrder(q)
    BY <2>1 DEF Mailboxes, UrgentFirst, InOrder
  <2> HIDE DEF q
  <2>3. PICK k \in 1 .. Len(q) + 1 : Placed(q, m) = Inserted(q, k, m) /\ InOrder(Inserted(q, k, m))
    BY <2>1, <2>2, PlacedFits
  <2> DEFINE p == Inserted(q, k, m)
  <2>4. /\ p \in Seq(Mail) /\ Len(p) = Len(q) + 1 /\ p[k] = m
        /\ \A i \in 1 .. k - 1 : p[i] = q[i]
        /\ \A i \in k .. Len(q) : p[i + 1] = q[i]
    BY <2>1, InsertedProperties
  <2>5. InOrder(p) /\ boxes' = [boxes EXCEPT ![box] = p]
    BY <2>1, <2>3
  <2> HIDE DEF p
  <2>6. boxes'[box] = p /\ \A b \in Boxes : b # box => boxes'[b] = boxes[b]
    BY <2>1, <2>5 DEF Mailboxes, MailShape
  <2> DEFINE old(b, i) == IF b = box /\ i > k THEN i - 1 ELSE i
  <2>7. ASSUME NEW b \in Boxes, NEW i \in 1 .. Len(boxes'[b]), ~(b = box /\ i = k)
        PROVE  old(b, i) \in 1 .. Len(boxes[b]) /\ At(b, i)' = At(b, old(b, i))
    <3>1. CASE b # box
      BY <2>6, <3>1 DEF At
    <3>2. CASE b = box /\ i > k
      <4>1. Len(q) \in Nat /\ k \in Nat /\ i \in Nat /\ i <= Len(q) + 1
        BY <2>1, <2>4, <2>6, <3>2
      <4>2. i - 1 \in k .. Len(q) /\ i - 1 \in 1 .. Len(q) /\ (i - 1) + 1 = i
        BY <3>2, <4>1
      <4>3. p[i] = q[i - 1]
        BY <2>4, <4>2
      <4> QED BY <2>6, <3>2, <4>2, <4>3 DEF At, q
    <3>3. CASE b = box /\ ~(i > k)
      <4>1. Len(q) \in Nat /\ k \in Nat /\ k <= Len(q) + 1 /\ i \in Nat /\ i >= 1 /\ i # k
        BY <2>1, <2>4, <2>6, <2>7, <3>3
      <4>2. i \in 1 .. k - 1 /\ i \in 1 .. Len(q)
        BY <3>3, <4>1
      <4>3. p[i] = q[i]
        BY <2>4, <4>2
      <4> QED BY <2>6, <3>3, <4>2, <4>3 DEF At, q
    <3> QED BY <3>1, <3>2, <3>3
  <2>8. k \in 1 .. Len(boxes'[box]) /\ At(box, k)' = m
    BY <2>4, <2>6 DEF At
  <2>9. ASSUME NEW b \in Boxes, NEW i \in 1 .. Len(boxes[b])
        PROVE  \E j \in 1 .. Len(boxes'[b]) : At(b, j)' = At(b, i)
    <3>1. CASE b # box
      BY <2>6, <3>1 DEF At
    <3>2. CASE b = box /\ i < k
      <4>1. i \in 1 .. k - 1 /\ i \in 1 .. Len(q) + 1
        BY <2>1, <3>2 DEF q
      <4> QED BY <2>4, <2>6, <3>2, <4>1 DEF At, q
    <3>3. CASE b = box /\ ~(i < k)
      <4>1. i \in k .. Len(q) /\ i + 1 \in 1 .. Len(q) + 1
        BY <2>1, <3>3 DEF q
      <4> QED BY <2>4, <2>6, <3>3, <4>1 DEF At, q
    <3> QED BY <3>1, <3>2, <3>3
  <2> HIDE DEF old
  <2>10. MailShape' /\ UrgentFirst' /\ BellMatchesInbox'
    <3>1. MailShape'
      BY <2>1, <2>4, <2>5, <2>6, BusAssumption DEF Mailboxes, MailShape
    <3>2. UrgentFirst'
      <4>1. DOMAIN p = 1 .. Len(p) /\ \A i, j \in DOMAIN p : i < j => Urgency(p[i]) >= Urgency(p[j])
        BY <2>4, <2>5 DEF InOrder
      <4> QED BY <2>6, <4>1 DEF Mailboxes, UrgentFirst
    <3>3. BellMatchesInbox'
      <4>1. p # <<>>
        BY <2>4
      <4> QED BY <2>1, <2>6, <4>1 DEF Mailboxes, BellMatchesInbox
    <3> QED BY <3>1, <3>2, <3>3
  <2>11. OneCopy'
    <3>1. ASSUME NEW b \in Boxes, NEW c \in Boxes, NEW i \in 1 .. Len(boxes'[b]), NEW j \in 1 .. Len(boxes'[c]),
                 At(b, i)' = At(c, j)', At(b, i)'.reply = 0
          PROVE  b = c /\ i = j
      <4>1. CASE (b = box /\ i = k) /\ ~(c = box /\ j = k)
        <5>1. old(c, j) \in 1 .. Len(boxes[c]) /\ At(c, old(c, j)) = m
          BY <2>7, <2>8, <3>1, <4>1
        <5> QED BY <2>8, <3>1, <4>1, <5>1 DEF Out
      <4>2. CASE ~(b = box /\ i = k) /\ (c = box /\ j = k)
        <5>1. old(b, i) \in 1 .. Len(boxes[b]) /\ At(b, old(b, i)) = m
          BY <2>7, <2>8, <3>1, <4>2
        <5> QED BY <2>8, <3>1, <4>2, <5>1 DEF Out
      <4>3. CASE ~(b = box /\ i = k) /\ ~(c = box /\ j = k)
        <5>1. /\ old(b, i) \in 1 .. Len(boxes[b]) /\ At(b, i)' = At(b, old(b, i))
              /\ old(c, j) \in 1 .. Len(boxes[c]) /\ At(c, j)' = At(c, old(c, j))
          BY <2>7, <4>3
        <5>2. b = c /\ old(b, i) = old(c, j)
          BY <3>1, <5>1 DEF Mailboxes, OneCopy
        <5> QED BY <4>3, <5>2 DEF old
      <4> QED BY <4>1, <4>2, <4>3
    <3>2. ASSUME NEW b \in Boxes, NEW i \in 1 .. Len(boxes'[b]), At(b, i)'.reply = 0
          PROVE  At(b, i)' \notin taken' \cup dead'
      <4>1. CASE b = box /\ i = k
        BY <2>1, <2>8, <3>2, <4>1 DEF Out
      <4>2. CASE ~(b = box /\ i = k)
        BY <2>1, <2>7, <3>2, <4>2 DEF Mailboxes, OneCopy
      <4> QED BY <4>1, <4>2
    <3> QED BY <2>1, <3>1, <3>2 DEF Mailboxes, OneCopy
  <2>12. ASSUME NEW x \in Mail PROVE Out(x)' <=> Out(x) \/ x = m
    <3>1. ASSUME Out(x)' PROVE Out(x) \/ x = m
      BY <2>1, <2>7, <2>8, <3>1 DEF Out
    <3>2. ASSUME Out(x) PROVE Out(x)'
      BY <2>1, <2>9, <3>2 DEF Out
    <3> QED BY <2>1, <2>8, <3>1, <3>2 DEF Out
  <2> QED BY <2>10, <2>11, <2>12 DEF Mailboxes
<1>2. CASE ~Accepts(m.to)
  <2>1. dead' = dead \cup {m} /\ boxes' = boxes /\ bell' = bell /\ taken' = taken
    BY <1>2 DEF Deliver
  <2>2. MailShape' /\ UrgentFirst' /\ BellMatchesInbox'
    BY <2>1 DEF Mailboxes, MailShape, UrgentFirst, BellMatchesInbox
  <2>3. OneCopy'
    BY <2>1 DEF Mailboxes, OneCopy, At, Out
  <2>4. \A x \in Mail : Out(x)' <=> Out(x) \/ x = m
    BY <2>1 DEF Out, At
  <2> QED BY <2>2, <2>3, <2>4 DEF Mailboxes
<1> QED BY <1>1, <1>2

\* Taking the head of a mailbox moves that message to those received.
LEMMA TakeHeadKeeps ==
    ASSUME Mailboxes, NEW box \in Boxes, boxes[box] # <<>>, TakeHead(box), UNCHANGED dead
    PROVE  Mailboxes' /\ \A x \in Mail : Out(x)' <=> Out(x)
<1> DEFINE q == boxes[box]
           p == Tail(q)
<1>1. /\ q \in Seq(Mail) /\ q # <<>> /\ Len(q) \in Nat \ {0}
      /\ boxes' = [boxes EXCEPT ![box] = p] /\ taken' = taken \cup {Head(q)}
      /\ bell' = IF Len(q) = 1 THEN bell \ {box} ELSE bell
  BY DEF TakeHead, Mailboxes, MailShape
<1>2. /\ p \in Seq(Mail) /\ Len(p) = Len(q) - 1
      /\ \A i \in 1 .. Len(q) - 1 : p[i] = q[i + 1]
      /\ Head(q) = q[1] /\ Head(q) \in Mail
  <2> HIDE DEF q
  <2> QED BY <1>1, HeadTailProperties
<1> HIDE DEF p, q
<1>3. boxes'[box] = p /\ \A b \in Boxes : b # box => boxes'[b] = boxes[b]
  BY <1>1 DEF Mailboxes, MailShape
<1> DEFINE old(b, i) == IF b = box THEN i + 1 ELSE i
<1>4. ASSUME NEW b \in Boxes, NEW i \in 1 .. Len(boxes'[b])
      PROVE  /\ old(b, i) \in 1 .. Len(boxes[b]) /\ At(b, i)' = At(b, old(b, i))
             /\ ~(b = box /\ old(b, i) = 1)
  <2>1. CASE b # box
    BY <1>3, <2>1 DEF At
  <2>2. CASE b = box
    <3>1. i \in 1 .. Len(q) - 1 /\ i + 1 \in 1 .. Len(q) /\ i + 1 # 1
      BY <1>1, <1>2, <1>3, <2>2
    <3> QED BY <1>2, <1>3, <2>2, <3>1 DEF At, q
  <2> QED BY <2>1, <2>2
<1>5. ASSUME NEW b \in Boxes, NEW i \in 1 .. Len(boxes[b]), ~(b = box /\ i = 1)
      PROVE  \E j \in 1 .. Len(boxes'[b]) : At(b, j)' = At(b, i)
  <2>1. CASE b # box
    BY <1>3, <2>1 DEF At
  <2>2. CASE b = box
    <3>1. i - 1 \in 1 .. Len(q) - 1 /\ (i - 1) + 1 = i
      BY <1>1, <1>5, <2>2 DEF q
    <3>2. PICK j : j = i - 1 /\ j \in 1 .. Len(q) - 1 /\ j + 1 = i
      BY <3>1
    <3>3. j \in 1 .. Len(boxes'[b]) /\ boxes'[b][j] = q[i] /\ boxes[b][i] = q[i]
      BY <1>2, <1>3, <2>2, <3>2 DEF q
    <3> QED BY <3>3 DEF At
  <2> QED BY <2>1, <2>2
<1>6. 1 \in 1 .. Len(boxes[box]) /\ At(box, 1) = Head(q)
  BY <1>1, <1>2 DEF At, q
<1> HIDE DEF old
<1>7. MailShape' /\ UrgentFirst' /\ BellMatchesInbox'
  <2>1. MailShape'
    <3>1. boxes' \in [Boxes -> Seq(Mail)] /\ taken' \subseteq Mail /\ bell' \subseteq Boxes /\ dead' \subseteq Mail
      BY <1>1, <1>2 DEF Mailboxes, MailShape
    <3>2. Len(boxes[box]) <= MailboxSize /\ Len(p) <= MailboxSize
      BY <1>1, <1>2, BusAssumption DEF Mailboxes, MailShape, q
    <3> QED BY <1>3, <3>1, <3>2 DEF Mailboxes, MailShape
  <2>2. UrgentFirst'
    <3>1. ASSUME NEW i \in 1 .. Len(p), NEW j \in 1 .. Len(p), i < j
          PROVE  Urgency(p[i]) >= Urgency(p[j])
      <4>1. /\ i \in 1 .. Len(q) - 1 /\ j \in 1 .. Len(q) - 1 /\ i + 1 < j + 1
            /\ i + 1 \in DOMAIN q /\ j + 1 \in DOMAIN q
        BY <1>1, <1>2, <3>1
      <4>2. Urgency(q[i + 1]) >= Urgency(q[j + 1])
        BY <4>1 DEF Mailboxes, UrgentFirst, q
      <4> QED BY <1>2, <4>1, <4>2
    <3>2. DOMAIN p = 1 .. Len(p)
      BY <1>2
    <3> QED BY <1>3, <3>1, <3>2 DEF Mailboxes, UrgentFirst
  <2>3. BellMatchesInbox'
    <3>1. p = <<>> <=> Len(q) = 1
      BY <1>1, <1>2
    <3> QED BY <1>1, <1>3, <3>1 DEF Mailboxes, BellMatchesInbox, q
  <2> QED BY <2>1, <2>2, <2>3
<1>8. OneCopy'
  <2>1. ASSUME NEW b \in Boxes, NEW c \in Boxes, NEW i \in 1 .. Len(boxes'[b]), NEW j \in 1 .. Len(boxes'[c]),
               At(b, i)' = At(c, j)', At(b, i)'.reply = 0
        PROVE  b = c /\ i = j
    <3>1. b = c /\ old(b, i) = old(c, j)
      BY <1>4, <2>1 DEF Mailboxes, OneCopy
    <3> QED BY <3>1 DEF old
  <2>2. ASSUME NEW b \in Boxes, NEW i \in 1 .. Len(boxes'[b]), At(b, i)'.reply = 0
        PROVE  At(b, i)' \notin taken' \cup dead'
    <3>1. /\ old(b, i) \in 1 .. Len(boxes[b]) /\ At(b, i)' = At(b, old(b, i))
          /\ ~(b = box /\ old(b, i) = 1)
      BY <1>4
    <3>2. At(b, old(b, i)) # Head(q)
      BY <1>6, <2>2, <3>1 DEF Mailboxes, OneCopy
    <3> QED BY <1>1, <2>2, <3>1, <3>2 DEF Mailboxes, OneCopy
  <2>3. ASSUME NEW m \in taken', m.reply = 0 PROVE m \notin dead'
    BY <1>1, <1>6, <2>3 DEF Mailboxes, OneCopy
  <2> QED BY <2>1, <2>2, <2>3 DEF OneCopy
<1>9. ASSUME NEW x \in Mail PROVE Out(x)' <=> Out(x)
  <2>1. ASSUME Out(x)' PROVE Out(x)
    BY <1>1, <1>4, <1>6, <2>1 DEF Out
  <2>2. ASSUME Out(x) PROVE Out(x)'
    <3>1. CASE x \in taken \cup dead
      BY <1>1, <3>1 DEF Out
    <3>2. ASSUME NEW b \in Boxes, NEW i \in 1 .. Len(boxes[b]), At(b, i) = x
          PROVE  Out(x)'
      BY <1>1, <1>5, <1>6, <3>2 DEF Out
    <3> QED BY <2>2, <3>1, <3>2 DEF Out
  <2> QED BY <2>1, <2>2
<1> QED BY <1>7, <1>8, <1>9 DEF Mailboxes

-----------------------------------------------------------------------------
(* AgentBus: every step keeps it *)

LEMMA MailboxesStay ==
    ASSUME Mailboxes, UNCHANGED mailVars
    PROVE  Mailboxes' /\ \A x \in Mail : Out(x)' <=> Out(x)
BY DEF mailVars, Mailboxes, MailShape, UrgentFirst, BellMatchesInbox, OneCopy, Out, At

LEMMA MailOfType == \A s \in Sends : \A a \in Agents : MailOf(s, a) \in Mail /\ MailOf(s, a).reply = 0
BY BusAssumption DEF MailOf, Mail

\* No step of a mailbox, of a receiver or of the registry takes part in a send.
LEMMA OthersKeep ==
    ASSUME BusInv, UNCHANGED sendVars, BusControl', Mailboxes',
           \A x \in Mail : Out(x)' <=> Out(x)
    PROVE  BusInv'
<1>1. \A s \in Sends : \A a \in Agents : Out(MailOf(s, a))' <=> Out(MailOf(s, a))
  BY MailOfType
<1>2. SentOnce'
  <2> SUFFICES ASSUME NEW s \in Sends
               PROVE  /\ \A a \in Agents : Out(MailOf(s, a))' => sendPc'[s] # "new" /\ a \notin targets'[s]
                      /\ Kind[s] \in {"direct", "request"} /\ sendPc'[s] # "new" =>
                             Recipient[s] \in targets'[s] \/ Out(MailOf(s, Recipient[s]))'
                      /\ sendPc'[s] \in {"await", "done"} => targets'[s] = {}
    BY DEF SentOnce
  <2> QED BY <1>1, BusAssumption DEF BusInv, SentOnce, sendVars
<1>3. Pending' /\ NoStalePending'
  BY DEF BusInv, Pending, NoStalePending, sendVars
<1> QED BY <1>2, <1>3 DEF BusInv

LEMMA RegistryKeeps ==
    ASSUME BusInv, NEW a \in Agents, Register(a) \/ Unregister(a) \/ Subscribe(a) \/ Unsubscribe(a)
    PROVE  BusInv'
<1>1. UNCHANGED sendVars /\ UNCHANGED mailVars /\ UNCHANGED waitVars
  BY DEF Register, Unregister, Subscribe, Unsubscribe
<1>2. BusControl'
  <2>1. CASE Register(a)
    BY <1>1, <2>1, BusAssumption DEF BusInv, BusControl, Register, sendVars, waitVars
  <2>2. CASE Unregister(a)
    BY <1>1, <2>2, BusAssumption DEF BusInv, BusControl, Unregister, sendVars, waitVars
  <2>3. CASE Subscribe(a) \/ Unsubscribe(a)
    BY <1>1, <2>3 DEF BusInv, BusControl, Subscribe, Unsubscribe, sendVars, waitVars
  <2> QED BY <2>1, <2>2, <2>3
<1>3. Mailboxes' /\ \A x \in Mail : Out(x)' <=> Out(x)
  BY <1>1, MailboxesStay DEF BusInv
<1> QED BY <1>1, <1>2, <1>3, OthersKeep

LEMMA ReceiveKeeps ==
    ASSUME BusInv, NEW a \in Agents, ReceiveMail(a)
    PROVE  BusInv'
<1>1. Mailboxes' /\ \A x \in Mail : Out(x)' <=> Out(x)
  BY OpenBox, TakeHeadKeeps DEF BusInv, ReceiveMail
<1>2. BusControl' /\ UNCHANGED sendVars
  BY DEF BusInv, BusControl, ReceiveMail, registerVars, sendVars, waitVars
<1> QED BY <1>1, <1>2, OthersKeep

LEMMA WaitersKeep ==
    ASSUME BusInv, NEW w \in Waits, StartWait(w) \/ WakeUp(w) \/ TakeMail(w)
    PROVE  BusInv'
<1>1. BusControl' /\ UNCHANGED sendVars
  <2>1. CASE StartWait(w)
    <3>1. epoch[WaitFor[w]] # 0 => <<WaitFor[w], epoch[WaitFor[w]]>> \in Boxes
      BY OpenBox, BusAssumption DEF BusInv
    <3> QED BY <2>1, <3>1 DEF BusInv, BusControl, StartWait, registerVars, sendVars
  <2>2. CASE WakeUp(w) \/ TakeMail(w)
    BY <2>2 DEF BusInv, BusControl, WakeUp, TakeMail, registerVars, sendVars
  <2> QED BY <2>1, <2>2
<1>2. Mailboxes' /\ \A x \in Mail : Out(x)' <=> Out(x)
  <2>1. CASE UNCHANGED mailVars
    BY <2>1, MailboxesStay DEF BusInv
  <2>2. CASE TakeMail(w) /\ boxes[waitBox[w]] # <<>>
    BY <2>2, TakeHeadKeeps DEF BusInv, BusControl, TakeMail
  <2> QED BY <2>1, <2>2 DEF StartWait, WakeUp, TakeMail
<1> QED BY <1>1, <1>2, OthersKeep

\* A send starts with nothing delivered.
LEMMA StartSendKeeps ==
    ASSUME BusInv, NEW s \in Sends, StartSend(s)
    PROVE  BusInv'
<1>1. TargetsOf(s) \subseteq Agents
  BY BusAssumption DEF TargetsOf, BusInv, BusControl
<1>2. Kind[s] \in {"direct", "request"} => TargetsOf(s) = {Recipient[s]}
  BY DEF TargetsOf
<1>3. BusControl'
  BY <1>1 DEF BusInv, BusControl, StartSend, SendGoes, registerVars, waitVars
<1>4. Mailboxes' /\ \A x \in Mail : Out(x)' <=> Out(x)
  BY MailboxesStay DEF BusInv, StartSend
<1>5. \A r \in Sends : \A a \in Agents : Out(MailOf(r, a))' <=> Out(MailOf(r, a))
  BY <1>4, MailOfType
<1>6. SentOnce'
  <2> SUFFICES ASSUME NEW r \in Sends
               PROVE  /\ \A a \in Agents : Out(MailOf(r, a))' => sendPc'[r] # "new" /\ a \notin targets'[r]
                      /\ Kind[r] \in {"direct", "request"} /\ sendPc'[r] # "new" =>
                             Recipient[r] \in targets'[r] \/ Out(MailOf(r, Recipient[r]))'
                      /\ sendPc'[r] \in {"await", "done"} => targets'[r] = {}
    BY DEF SentOnce
  <2>1. /\ sendPc[s] = "new" /\ sendPc' = [sendPc EXCEPT ![s] = "route"]
        /\ targets' = [targets EXCEPT ![s] = TargetsOf(s)]
    BY DEF StartSend, SendGoes
  <2>2. CASE r = s
    BY <1>2, <1>5, <2>1, <2>2 DEF BusInv, BusControl, SentOnce
  <2>3. CASE r # s
    <3>1. sendPc'[r] = sendPc[r] /\ targets'[r] = targets[r] /\ \A a \in Agents : Out(MailOf(r, a))' <=> Out(MailOf(r, a))
      BY <1>5, <2>1, <2>3 DEF BusInv, BusControl
    <3>2. Kind[r] \in {"direct", "request"} => Recipient[r] \in Agents
      BY BusAssumption
    <3> QED
      BY <3>1, <3>2 DEF BusInv, SentOnce
  <2> QED BY <2>2, <2>3
<1>7. Pending' /\ NoStalePending'
  BY DEF BusInv, BusControl, Pending, NoStalePending, StartSend, SendGoes
<1> QED BY <1>3, <1>4, <1>6, <1>7 DEF BusInv

\* One copy goes to one target, which had none.
LEMMA DeliverNextKeeps ==
    ASSUME BusInv, NEW s \in Sends, NEW a \in Agents, DeliverNext(s, a)
    PROVE  BusInv'
<1>1. /\ sendPc[s] = "route" /\ a \in targets[s]
      /\ targets' = [targets EXCEPT ![s] = @ \ {a}]
      /\ sendPc' = sendPc \/ sendPc' = [sendPc EXCEPT ![s] = "handle"]
      /\ UNCHANGED <<taken, pendingReplies, outcome>>
  BY DEF DeliverNext, SendGoes
<1>2. MailOf(s, a) \in Mail /\ ~Out(MailOf(s, a))
  BY <1>1, MailOfType DEF BusInv, SentOnce
<1>3. Mailboxes' /\ \A x \in Mail : Out(x)' <=> Out(x) \/ x = MailOf(s, a)
  BY <1>1, <1>2, DeliverKeeps DEF BusInv, DeliverNext
<1>4. BusControl'
  BY DEF BusInv, BusControl, DeliverNext, SendGoes, registerVars, waitVars
<1>5. \A r \in Sends : \A b \in Agents :
         Out(MailOf(r, b))' <=> Out(MailOf(r, b)) \/ (r = s /\ b = a)
  BY <1>3, MailOfType DEF MailOf
<1>6. SentOnce'
  <2> SUFFICES ASSUME NEW r \in Sends
               PROVE  /\ \A b \in Agents : Out(MailOf(r, b))' => sendPc'[r] # "new" /\ b \notin targets'[r]
                      /\ Kind[r] \in {"direct", "request"} /\ sendPc'[r] # "new" =>
                             Recipient[r] \in targets'[r] \/ Out(MailOf(r, Recipient[r]))'
                      /\ sendPc'[r] \in {"await", "done"} => targets'[r] = {}
    BY DEF SentOnce
  <2>1. CASE r = s
    BY <1>1, <1>5, <2>1, BusAssumption DEF BusInv, BusControl, SentOnce
  <2>2. CASE r # s
    <3>1. sendPc'[r] = sendPc[r] /\ targets'[r] = targets[r] /\ \A b \in Agents : Out(MailOf(r, b))' <=> Out(MailOf(r, b))
      BY <1>1, <1>5, <2>2 DEF BusInv, BusControl
    <3>2. Kind[r] \in {"direct", "request"} => Recipient[r] \in Agents
      BY BusAssumption
    <3> QED
      BY <3>1, <3>2 DEF BusInv, SentOnce
  <2> QED BY <2>1, <2>2
<1>7. Pending' /\ NoStalePending'
  BY <1>1 DEF BusInv, BusControl, Pending, NoStalePending
<1> QED BY <1>3, <1>4, <1>6, <1>7 DEF BusInv

\* A reply is no copy of the request; the first one ends the waiting.
LEMMA ReplyKeeps ==
    ASSUME BusInv, NEW s \in Sends, ReplyTo(s), sendPc[s] # "new",
           UNCHANGED <<registerVars, waitVars, targets, taken>>,
           sendPc' = sendPc \/ \E pc \in {"echo", "route"} :
               sendPc[s] = "handle" /\ sendPc' = [sendPc EXCEPT ![s] = pc]
    PROVE  BusInv'
<1> DEFINE m == [send |-> s, to |-> Sender[s], reply |-> replies[s] + 1]
<1>1. /\ replies[s] \in 0 .. ReplyBound /\ replies[s] < ReplyBound
      /\ replies' = [replies EXCEPT ![s] = replies[s] + 1]
      /\ pendingReplies' = pendingReplies \ {s}
      /\ outcome' = IF s \in pendingReplies THEN [outcome EXCEPT ![s] = "reply"] ELSE outcome
      /\ Deliver(m)
  BY DEF ReplyTo, BusInv, BusControl
<1>2. replies[s] + 1 \in 1 .. ReplyBound /\ Sender[s] \in Agents
  BY <1>1, BusAssumption
<1>3. m \in Mail /\ m.reply # 0
  BY <1>2 DEF Mail
<1> HIDE DEF m
<1>4. Mailboxes' /\ \A x \in Mail : Out(x)' <=> Out(x) \/ x = m
  BY <1>1, <1>3, DeliverKeeps DEF BusInv
<1>5. \A r \in Sends : \A a \in Agents : Out(MailOf(r, a))' <=> Out(MailOf(r, a))
  BY <1>3, <1>4, MailOfType
<1>6. BusControl'
  BY <1>1, <1>2 DEF BusInv, BusControl, registerVars, waitVars
<1>7. SentOnce'
  <2> SUFFICES ASSUME NEW r \in Sends
               PROVE  /\ \A a \in Agents : Out(MailOf(r, a))' => sendPc'[r] # "new" /\ a \notin targets'[r]
                      /\ Kind[r] \in {"direct", "request"} /\ sendPc'[r] # "new" =>
                             Recipient[r] \in targets'[r] \/ Out(MailOf(r, Recipient[r]))'
                      /\ sendPc'[r] \in {"await", "done"} => targets'[r] = {}
    BY DEF SentOnce
  <2> QED BY <1>5, BusAssumption DEF BusInv, BusControl, SentOnce
<1>8. Pending' /\ NoStalePending'
  BY <1>1 DEF BusInv, BusControl, Pending, NoStalePending
<1> QED BY <1>4, <1>6, <1>7, <1>8 DEF BusInv

LEMMA AnswersKeep ==
    ASSUME BusInv, NEW s \in Sends, HandlerReplies(s) \/ Answer(s)
    PROVE  BusInv'
<1>1. CASE HandlerReplies(s)
  BY <1>1, ReplyKeeps DEF HandlerReplies, SendGoes, registerVars, waitVars
<1>2. CASE Answer(s)
  <2>1. Recipient[s] \in Agents /\ Out(MailOf(s, Recipient[s]))
    BY <1>2, BusAssumption DEF Answer, Out
  <2>2. sendPc[s] # "new"
    BY <2>1 DEF BusInv, SentOnce
  <2> QED BY <1>2, <2>2, ReplyKeeps DEF Answer, registerVars, waitVars
<1> QED BY <1>1, <1>2

\* The rest of a send moves no message.
LEMMA SenderKeeps ==
    ASSUME BusInv, NEW s \in Sends, HandlerEnds(s) \/ EndSend(s) \/ CutSend(s) \/ EndRequest(s)
    PROVE  BusInv'
<1>1. Mailboxes' /\ \A x \in Mail : Out(x)' <=> Out(x)
  BY MailboxesStay DEF BusInv, HandlerEnds, EndSend, CutSend, EndRequest
<1>2. \A r \in Sends : \A a \in Agents : Out(MailOf(r, a))' <=> Out(MailOf(r, a))
  BY <1>1, MailOfType
<1>3. /\ UNCHANGED <<registerVars, waitVars, targets, replies>>
      /\ sendPc[s] # "new" /\ \E pc \in {"route", "await", "done", "cut"} :
            /\ sendPc' = [sendPc EXCEPT ![s] = pc]
            /\ pc \in {"await", "done"} => targets[s] = {}
            /\ pc = "await" => Kind[s] = "request"
            /\ pc = "done" => s \notin pendingReplies'
      /\ \/ UNCHANGED <<pendingReplies, outcome>>
         \/ /\ pendingReplies' = pendingReplies \ {s}
            /\ outcome' = outcome \/ outcome' = [outcome EXCEPT ![s] = "timeout"]
  <2>1. CASE HandlerEnds(s)
    BY <2>1 DEF HandlerEnds, SendGoes
  <2>2. CASE EndSend(s)
    BY <2>2 DEF EndSend, SendGoes, BusInv, Pending
  <2>3. CASE CutSend(s)
    BY <2>3 DEF CutSend, SendGoes
  <2>4. CASE EndRequest(s)
    BY <2>4 DEF EndRequest, SendGoes, BusInv, SentOnce
  <2> QED BY <2>1, <2>2, <2>3, <2>4
<1>4. PICK pc \in {"route", "await", "done", "cut"} :
            /\ sendPc' = [sendPc EXCEPT ![s] = pc]
            /\ pc \in {"await", "done"} => targets[s] = {}
            /\ pc = "done" => s \notin pendingReplies'
  BY <1>3
<1>5. BusControl'
  BY <1>3, <1>4 DEF BusInv, BusControl, registerVars, waitVars
<1>6. SentOnce'
  <2> SUFFICES ASSUME NEW r \in Sends
               PROVE  /\ \A a \in Agents : Out(MailOf(r, a))' => sendPc'[r] # "new" /\ a \notin targets'[r]
                      /\ Kind[r] \in {"direct", "request"} /\ sendPc'[r] # "new" =>
                             Recipient[r] \in targets'[r] \/ Out(MailOf(r, Recipient[r]))'
                      /\ sendPc'[r] \in {"await", "done"} => targets'[r] = {}
    BY DEF SentOnce
  <2> QED BY <1>2, <1>3, <1>4, BusAssumption DEF BusInv, BusControl, SentOnce
<1>7. Pending' /\ NoStalePending'
  BY <1>3, <1>4 DEF BusInv, BusControl, Pending, NoStalePending
<1> QED BY <1>1, <1>5, <1>6, <1>7 DEF BusInv

LEMMA BusInitial == BusInit => BusInv
<1> SUFFICES ASSUME BusInit PROVE BusInv
  OBVIOUS
<1>1. BusControl
  BY BusAssumption DEF BusInit, BusControl, Boxes
<1>2. Mailboxes /\ \A s \in Sends : \A a \in Agents : ~Out(MailOf(s, a))
  BY BusAssumption DEF BusInit, Mailboxes, MailShape, UrgentFirst, BellMatchesInbox, OneCopy, Out
<1>3. SentOnce /\ Pending /\ NoStalePending
  BY <1>2 DEF BusInit, SentOnce, Pending, NoStalePending
<1> QED BY <1>1, <1>2, <1>3 DEF BusInv

LEMMA BusKeeps == BusInv /\ [BusNext]_busVars => BusInv'
<1> SUFFICES ASSUME BusInv, [BusNext]_busVars
             PROVE  BusInv'
  OBVIOUS
<1>1. CASE UNCHANGED busVars
  <2>1. UNCHANGED sendVars /\ UNCHANGED mailVars /\ BusControl'
    BY <1>1 DEF busVars, sendVars, mailVars, BusInv, BusControl
  <2> QED BY <2>1, MailboxesStay, OthersKeep DEF BusInv
<1>2. CASE BusNext
  BY <1>2, RegistryKeeps, ReceiveKeeps, WaitersKeep, StartSendKeeps, DeliverNextKeeps, AnswersKeep, SenderKeeps
     DEF BusNext, SendStep
<1> QED BY <1>1, <1>2

\* What is counted of a copy follows from its being in one place.
LEMMA CopiesCounted == BusInv => CopiesAccounted
<1> SUFFICES ASSUME BusInv, NEW s \in Sends, NEW a \in Agents
             PROVE  LET m == MailOf(s, a)
                        places == {b \in Boxes : m \in Range(boxes[b])}
                    IN  /\ Cardinality(places) + (IF m \in taken THEN 1 ELSE 0)
                             + (IF m \in dead THEN 1 ELSE 0) <= 1
                        /\ Kind[s] \in {"direct", "request"} /\ sendPc[s] \in {"await", "done"}
                              /\ a = Recipient[s] => places # {} \/ m \in taken \cup dead
  BY DEF CopiesAccounted
<1> DEFINE m == MailOf(s, a)
           places == {b \in Boxes : m \in Range(boxes[b])}
<1>1. m \in Mail /\ m.reply = 0
  BY MailOfType
<1> HIDE DEF m
<1>2. \A b \in Boxes : m \in Range(boxes[b]) <=> \E i \in 1 .. Len(boxes[b]) : At(b, i) = m
  BY DEF Range, At, BusInv, Mailboxes, MailShape
<1>3. places # {} => m \notin taken \cup dead /\ \E b : places = {b}
  BY <1>1, <1>2 DEF BusInv, Mailboxes, OneCopy
<1>4. ~(m \in taken /\ m \in dead)
  BY <1>1 DEF BusInv, Mailboxes, OneCopy
<1>5. places = {} \/ m \notin taken \cup dead
  BY <1>3
<1>6. Cardinality(places) = IF places = {} THEN 0 ELSE 1
  BY <1>3, FS_EmptySet, FS_Singleton
<1>7. /\ Kind[s] \in {"direct", "request"} /\ sendPc[s] \in {"await", "done"} /\ a = Recipient[s]
           => places # {} \/ m \in taken \cup dead
  <2> SUFFICES ASSUME Kind[s] \in {"direct", "request"}, sendPc[s] \in {"await", "done"}, a = Recipient[s]
               PROVE  places # {} \/ m \in taken \cup dead
    OBVIOUS
  <2>1. Out(m)
    BY DEF BusInv, SentOnce, m
  <2> QED BY <1>2, <2>1 DEF Out
<1> HIDE DEF places
<1>8. Cardinality(places) + (IF m \in taken THEN 1 ELSE 0) + (IF m \in dead THEN 1 ELSE 0) <= 1
  BY <1>4, <1>5, <1>6
<1> QED BY <1>7, <1>8 DEF m, places

\* AgentMessageBus: mailboxes keep the order of urgency and are signalled
\* exactly while they hold something, no copy of a message is lost or doubled,
\* and no request that is over is waited for, for any agents, sends, handlers,
\* receivers and sizes.
THEOREM MailSoundHolds == BusSpec => []MailSound
<1>1. BusInv => MailSound
  <2>1. BusInv => BusTypeOK
    BY DEF BusInv, BusControl, Mailboxes, MailShape, BusTypeOK, Range
  <2> QED BY <2>1, CopiesCounted DEF BusInv, Mailboxes, MailSound
<1> QED BY <1>1, BusInitial, BusKeeps, PTL DEF BusSpec

-----------------------------------------------------------------------------
(* Coordination: who is chosen *)

LEMMA Places ==
    \A a \in AgentsOf : Position(a) \in 1..Len(AgentOrder) /\ AgentOrder[Position(a)] = a
<1>1. ASSUME NEW a \in AgentsOf PROVE \E i \in DOMAIN AgentOrder : AgentOrder[i] = a
  BY DEF AgentsOf, ToSet
<1>2. DOMAIN AgentOrder = 1..Len(AgentOrder)
  BY CoordinationAssumption
<1> QED
  BY <1>1, <1>2 DEF Position

LEMMA ForemostFits ==
    ASSUME NEW A \in SUBSET AgentsOf, A # {}, NEW j \in Jobs
    PROVE  Foremost(A, j) \in A
<1> DEFINE skill(a) == Skill[a][j]
           marks == {skill(a) : a \in A}
<1>1. \A a \in AgentsOf : skill(a) \in 0..100
  BY CoordinationAssumption
<1>2. PICK s \in marks : \A t \in marks : t <= s
  <2>1. marks \subseteq 0..100 /\ marks # {}
    BY <1>1
  <2>2. 100 \in Nat
    OBVIOUS
  <2> HIDE DEF marks
  <2> QED
    BY <2>1, <2>2, LargestNumber
<1> DEFINE best == {a \in A : skill(a) = s}
           places == {Position(a) : a \in best}
<1>3. PICK p \in places : \A q \in places : p <= q
  <2>1. places # {}
    BY <1>2
  <2>2. places \subseteq Nat
    BY Places
  <2> HIDE DEF places
  <2> QED
    BY <2>1, <2>2, LeastNumber
<1>4. PICK a \in best : p = Position(a)
  BY <1>3
<1>5. ASSUME NEW b \in A \ {a} PROVE Before(a, b, j)
  <2>1. skill(a) = s /\ skill(b) <= s /\ skill(b) \in 0..100 /\ s \in 0..100
    BY <1>1, <1>2, <1>4
  <2>2. CASE skill(b) # s
    BY <2>1, <2>2 DEF Before
  <2>3. CASE skill(b) = s
    <3>1. Position(a) <= Position(b)
      BY <1>3, <1>4, <2>3
    <3>2. Position(a) # Position(b) /\ Position(a) \in Nat /\ Position(b) \in Nat
      BY <1>4, <1>5, Places
    <3> QED
      BY <2>1, <2>3, <3>1, <3>2 DEF Before
  <2> QED
    BY <2>2, <2>3
<1>6. a \in A /\ \A b \in A \ {a} : Before(a, b, j)
  BY <1>4, <1>5
<1> HIDE DEF best, places, marks, skill
<1> QED
  BY <1>6 DEF Foremost

LEMMA ChosenFits ==
    ASSUME NEW j \in Jobs, Skilled(j) # {}
    PROVE  Chosen(j) \in Skilled(j)
<1>1. Skilled(j) \in SUBSET AgentsOf /\ Free(Skilled(j)) \subseteq Skilled(j)
  BY CoordinationAssumption DEF Skilled, Free
<1>2. Foremost(Skilled(j), j) \in Skilled(j)
  BY <1>1, ForemostFits
<1>3. Free(Skilled(j)) # {} => Foremost(Free(Skilled(j)), j) \in Skilled(j)
  BY <1>1, ForemostFits
<1> QED
  BY <1>2, <1>3 DEF Chosen

LEMMA FirstFits ==
    ASSUME NEW A \in SUBSET AgentsOf
    PROVE  First(A) \in A \union {NoAgent}
<1>1. CASE A = {}
  BY <1>1 DEF First
<1>2. CASE A # {}
  <2> DEFINE places == {Position(a) : a \in A}
  <2>1. PICK p \in places : \A q \in places : p <= q
    <3>1. places # {} /\ places \subseteq Nat
      BY <1>2, Places
    <3> HIDE DEF places
    <3> QED
      BY <3>1, LeastNumber
  <2>2. PICK a \in A : p = Position(a)
    BY <2>1
  <2>3. \A b \in A : Position(a) <= Position(b)
    BY <2>1, <2>2
  <2> QED
    BY <1>2, <2>3 DEF First
<1> QED
  BY <1>1, <1>2

-----------------------------------------------------------------------------
(* The blackboard *)

Postings == [author : AgentsOf, soon : BOOLEAN]

LEMMA OverwritesFit ==
    ASSUME NEW h \in Seq(Postings)
    PROVE  IsFiniteSet(Overwrites(h)) /\ Cardinality(Overwrites(h)) \in Nat
<1>1. Len(h) \in Nat
  OBVIOUS
<1>2. IsFiniteSet(1..Len(h)) /\ Overwrites(h) \subseteq 1..Len(h)
  BY <1>1, FS_Interval DEF Overwrites
<1>3. IsFiniteSet(Overwrites(h))
  BY <1>2, FS_Subset
<1> QED
  BY <1>3, FS_CardinalityType

\* A posting adds one overwrite at most.
Clash(h, x) == x.soon /\ h # <<>> /\ Last(h).author # x.author

LEMMA OverwritesGrow ==
    ASSUME NEW h \in Seq(Postings), NEW x \in Postings
    PROVE  /\ Append(h, x) \in Seq(Postings)
           /\ Cardinality(Overwrites(Append(h, x))) = Cardinality(Overwrites(h)) + (IF Clash(h, x) THEN 1 ELSE 0)
<1> DEFINE n == Len(h)
           g == Append(h, x)
           more == IF Clash(h, x) THEN {n + 1} ELSE {}
<1>1. n \in Nat /\ g \in Seq(Postings) /\ Len(g) = n + 1 /\ g[n + 1] = x /\ \A i \in 1..n : g[i] = h[i]
  OBVIOUS
<1>2. Overwrites(g) = {i \in 2..Len(g) : g[i].soon /\ g[i].author # g[i - 1].author}
  BY DEF Overwrites
<1>3. Overwrites(h) = {i \in 2..n : h[i].soon /\ h[i].author # h[i - 1].author}
  BY DEF Overwrites
<1>4. Clash(h, x) <=> n >= 1 /\ x.soon /\ x.author # h[n].author
  <2>1. h # <<>> <=> n >= 1
    BY <1>1
  <2> QED
    BY <2>1 DEF Clash, Last
<1> HIDE DEF g
<1>5. \A i \in 2..n : i \in Overwrites(g) <=> i \in Overwrites(h)
  <2> SUFFICES ASSUME NEW i \in 2..n PROVE i \in Overwrites(g) <=> i \in Overwrites(h)
    OBVIOUS
  <2>1. i \in 2..(n + 1) /\ i \in 1..n /\ i - 1 \in 1..n
    BY <1>1
  <2>2. g[i] = h[i] /\ g[i - 1] = h[i - 1]
    BY <1>1, <2>1
  <2> QED
    BY <1>1, <1>2, <1>3, <2>1, <2>2
<1>6. n + 1 \in Overwrites(g) <=> Clash(h, x)
  <2>1. CASE n >= 1
    <3>1. n + 1 \in 2..(n + 1) /\ n \in 1..n /\ (n + 1) - 1 = n
      BY <1>1, <2>1
    <3>2. g[n + 1] = x /\ g[(n + 1) - 1] = h[n]
      BY <1>1, <3>1
    <3> QED
      BY <1>1, <1>2, <1>4, <2>1, <3>1, <3>2
  <2>2. CASE ~(n >= 1)
    BY <1>1, <1>2, <1>4, <2>2
  <2> QED
    BY <2>1, <2>2
<1>7. Overwrites(g) = Overwrites(h) \union more /\ n + 1 \notin Overwrites(h)
  <2>1. \A i : i \in Overwrites(g) => i \in 2..(n + 1)
    BY <1>1, <1>2
  <2>2. \A i : i \in Overwrites(h) => i \in 2..n
    BY <1>3
  <2>3. \A i : i \in 2..(n + 1) <=> i \in 2..n \/ (i = n + 1 /\ n >= 1)
    BY <1>1
  <2>4. n + 1 \notin 2..n
    BY <1>1
  <2>5. \A i : i \in Overwrites(g) <=> i \in Overwrites(h) \/ (i = n + 1 /\ Clash(h, x))
    BY <1>5, <1>6, <2>1, <2>2, <2>3
  <2> QED
    BY <2>2, <2>4, <2>5
<1>8. IsFiniteSet(Overwrites(h)) /\ Cardinality(Overwrites(h)) \in Nat
  BY OverwritesFit
<1>9. CASE Clash(h, x)
  <2>1. Cardinality(Overwrites(h) \union {n + 1}) = Cardinality(Overwrites(h)) + 1
    BY <1>7, <1>8, FS_AddElement
  <2> QED
    BY <1>1, <1>7, <1>9, <2>1 DEF g
<1>10. CASE ~Clash(h, x)
  BY <1>1, <1>7, <1>8, <1>10 DEF g
<1> QED
  BY <1>9, <1>10

\* A slice has no more overwrites than the whole.
LEMMA OverwritesOfSlice ==
    ASSUME NEW g \in Seq(Postings), NEW n \in Nat, Len(g) = n + 1
    PROVE  Cardinality(Overwrites(Latest(g, n))) <= Cardinality(Overwrites(g))
<1> DEFINE s == Latest(g, n)
           next == [i \in Overwrites(s) |-> i + 1]
<1>1. s \in Seq(Postings) /\ Len(s) = n /\ \A i \in 1..n : s[i] = g[i + 1]
  <2>1. Len(g) > n /\ Len(g) - n = 1
    OBVIOUS
  <2>2. s \in Seq(Postings) /\ Len(s) = n /\ \A i \in 1..n : s[i] = g[1 + i]
    BY <2>1, LatestFits
  <2>3. \A i \in 1..n : 1 + i = i + 1
    OBVIOUS
  <2> QED
    BY <2>2, <2>3
<1> HIDE DEF s
<1>2. \A i \in Overwrites(s) : i \in Nat /\ i + 1 \in Overwrites(g)
  <2> SUFFICES ASSUME NEW i \in Overwrites(s) PROVE i \in Nat /\ i + 1 \in Overwrites(g)
    OBVIOUS
  <2>1. i \in 2..n /\ s[i].soon /\ s[i].author # s[i - 1].author
    BY <1>1 DEF Overwrites
  <2>2. i \in 1..n /\ i - 1 \in 1..n /\ (i - 1) + 1 = i /\ (i + 1) - 1 = i /\ i + 1 \in 2..(n + 1)
    BY <2>1
  <2>3. s[i] = g[i + 1] /\ s[i - 1] = g[i]
    BY <1>1, <2>2
  <2> QED
    BY <2>1, <2>2, <2>3 DEF Overwrites
<1>3. next \in Injection(Overwrites(s), Overwrites(g))
  BY <1>2 DEF Injection, IsInjective
<1>4. IsFiniteSet(Overwrites(g))
  BY OverwritesFit
<1>5. Cardinality(Overwrites(s)) <= Cardinality(Overwrites(g))
  BY <1>3, <1>4, FS_Injection
<1> QED
  BY <1>5 DEF s

BoardOk(h, v, c) ==
    /\ Len(h) = IF v < BoardHistory THEN v ELSE BoardHistory
    /\ v <= BoardHistory => c = Cardinality(Overwrites(h))
    /\ c >= Cardinality(Overwrites(h))

LEMMA BoardGrows ==
    ASSUME NEW h \in Seq(Postings), NEW v \in Nat, NEW c \in Nat, BoardOk(h, v, c), NEW x \in Postings,
           NEW d, d = c + (IF Clash(h, x) THEN 1 ELSE 0)
    PROVE  /\ Latest(Append(h, x), BoardHistory) \in Seq(Postings)
           /\ BoardOk(Latest(Append(h, x), BoardHistory), v + 1, d)
<1> DEFINE g == Append(h, x)
           n == BoardHistory
           one == IF Clash(h, x) THEN 1 ELSE 0
<1>1. n \in Nat /\ n >= 1 /\ one \in {0, 1}
  BY CoordinationAssumption
<1>2. /\ g \in Seq(Postings) /\ Len(g) = Len(h) + 1 /\ Len(h) \in Nat
      /\ Cardinality(Overwrites(g)) = Cardinality(Overwrites(h)) + one
      /\ Cardinality(Overwrites(h)) \in Nat
  BY OverwritesGrow, OverwritesFit
<1>3. /\ Latest(g, n) \in Seq(Postings)
      /\ Len(Latest(g, n)) = IF Len(g) > n THEN n ELSE Len(g)
  BY <1>1, <1>2, LatestFits
<1>4. d = c + one
  OBVIOUS
<1> HIDE DEF g, one
<1>5. CASE v < n
  <2>1. Len(h) = v /\ c = Cardinality(Overwrites(h))
    BY <1>1, <1>5 DEF BoardOk
  <2>2. Latest(g, n) = g
    BY <1>1, <1>2, <1>5, <2>1 DEF Latest
  <2>3. Len(g) = IF v + 1 < n THEN v + 1 ELSE n
    BY <1>1, <1>2, <1>5, <2>1
  <2>4. d = Cardinality(Overwrites(g)) /\ d >= Cardinality(Overwrites(g))
    BY <1>1, <1>2, <1>4, <2>1
  <2> QED
    BY <1>2, <2>2, <2>3, <2>4 DEF BoardOk, g
<1>6. CASE ~(v < n)
  <2>1. Len(h) = n /\ c >= Cardinality(Overwrites(h))
    BY <1>1, <1>6 DEF BoardOk
  <2>2. Cardinality(Overwrites(Latest(g, n))) <= Cardinality(Overwrites(g))
    BY <1>1, <1>2, <2>1, OverwritesOfSlice
  <2>3. Cardinality(Overwrites(Latest(g, n))) \in Nat
    BY <1>3, OverwritesFit
  <2>4. d >= Cardinality(Overwrites(Latest(g, n)))
    BY <1>1, <1>2, <1>4, <2>1, <2>2, <2>3
  <2>5. Len(Latest(g, n)) = n /\ ~(v + 1 < n) /\ ~(v + 1 <= n)
    BY <1>1, <1>2, <1>3, <1>6, <2>1
  <2> QED
    BY <1>3, <2>4, <2>5 DEF BoardOk, g
<1> QED
  BY <1>5, <1>6

-----------------------------------------------------------------------------
(* The supervisor: the inductive invariant *)

Statuses == {"unknown", "assigned", "failed", "review", "completed", "cancelled"}
TaskRecords == [status : Statuses, agent : AgentsOf \union {NoAgent}, tries : Nat, mark : 0..100]
ReportRecords == [job : Jobs, agent : AgentsOf, mark : Marks, at : Nat]

\* What is true of a task and of the agents it was given to.
GateOk(j, t, o) ==
    /\ t.tries <= MaxRedelegations /\ Cardinality(o) <= 1 + t.tries
    /\ t.status = "unknown" => o = {} /\ t.tries = 0
    /\ t.status = "completed" => t.mark >= MinConfidence
    /\ t.status = "assigned" => t.agent \in o \cap Skilled(j)
Gates ==
    /\ job \in [Jobs -> TaskRecords] /\ offers \in [Jobs -> SUBSET AgentsOf]
    /\ \A j \in Jobs : GateOk(j, job[j], offers[j])
Boards ==
    /\ board \in [Jobs -> Seq(Postings)] /\ version \in [Jobs -> Nat] /\ clashes \in [Jobs -> Nat]
    /\ \A j \in Jobs : BoardOk(board[j], version[j], clashes[j])
SupervisorInv ==
    /\ Gates /\ Boards
    /\ session \in {"active", "completed", "failed"} /\ reports \subseteq ReportRecords

LEMMA TaskParts ==
    ASSUME NEW s, NEW a, NEW n, NEW m
    PROVE  /\ Task(s, a, n, m).status = s /\ Task(s, a, n, m).agent = a
           /\ Task(s, a, n, m).tries = n /\ Task(s, a, n, m).mark = m
           /\ s \in Statuses /\ a \in AgentsOf \union {NoAgent} /\ n \in Nat /\ m \in 0..100
              => Task(s, a, n, m) \in TaskRecords
BY DEF Task, TaskRecords

LEMMA FiniteOffers == \A o \in SUBSET AgentsOf : IsFiniteSet(o) /\ Cardinality(o) \in Nat
<1>1. IsFiniteSet(AgentsOf)
  <2>1. AgentsOf = {AgentOrder[i] : i \in 1..Len(AgentOrder)} /\ Len(AgentOrder) \in Nat
    <3>1. AgentOrder \in Seq(AgentsOf)
      BY CoordinationAssumption
    <3>2. DOMAIN AgentOrder = 1..Len(AgentOrder) /\ Len(AgentOrder) \in Nat
      BY <3>1, LenProperties
    <3> QED
      BY <3>2 DEF AgentsOf, ToSet
  <2>2. IsFiniteSet(1..Len(AgentOrder))
    BY <2>1, FS_Interval
  <2> DEFINE to == [i \in 1..Len(AgentOrder) |-> AgentOrder[i]]
  <2>3. to \in Surjection(1..Len(AgentOrder), AgentsOf)
    BY <2>1 DEF Surjection
  <2> QED
    BY <2>2, <2>3, FS_Surjection
<1> QED
  BY <1>1, FS_Subset, FS_CardinalityType

\* One more agent counts one more at most.
LEMMA OneMore ==
    ASSUME NEW o \in SUBSET AgentsOf, NEW a \in AgentsOf
    PROVE  /\ o \union {a} \in SUBSET AgentsOf /\ Cardinality(o \union {a}) \in Nat
           /\ Cardinality(o \union {a}) <= Cardinality(o) + 1 /\ Cardinality(o) \in Nat
<1>1. o \union {a} \in SUBSET AgentsOf
  OBVIOUS
<1>2. IsFiniteSet(o) /\ Cardinality(o) \in Nat /\ Cardinality(o \union {a}) \in Nat
  BY <1>1, FiniteOffers
<1>3. Cardinality(o \union {a}) = IF a \in o THEN Cardinality(o) ELSE Cardinality(o) + 1
  BY <1>2, FS_AddElement
<1> QED
  BY <1>1, <1>2, <1>3

LEMMA TaskMoves ==
    ASSUME Gates, NEW j \in Jobs, NEW t \in TaskRecords, NEW o \in SUBSET AgentsOf, GateOk(j, t, o),
           TaskBecomes(j, t), offers' = [offers EXCEPT ![j] = o]
    PROVE  Gates'
<1>1. job \in [Jobs -> TaskRecords] /\ offers \in [Jobs -> SUBSET AgentsOf]
  BY DEF Gates
<1>2. job' = [job EXCEPT ![j] = t]
  BY DEF TaskBecomes
<1>3. job' \in [Jobs -> TaskRecords] /\ offers' \in [Jobs -> SUBSET AgentsOf]
  BY <1>1, <1>2
<1>4. ASSUME NEW k \in Jobs PROVE GateOk(k, job'[k], offers'[k])
  <2>1. CASE k = j
    BY <1>1, <1>2, <2>1
  <2>2. CASE k # j
    <3>1. job'[k] = job[k] /\ offers'[k] = offers[k]
      BY <1>1, <1>2, <2>2
    <3> QED
      BY <3>1 DEF Gates
  <2> QED
    BY <2>1, <2>2
<1>5. \A k \in Jobs : GateOk(k, job[k], offers[k])'
  BY <1>4 DEF GateOk, Skilled
<1> QED
  BY <1>3, <1>5 DEF Gates, AgentsOf, TaskRecords

LEMMA AssignKeeps ==
    ASSUME Gates, NEW j \in Jobs, Assign(j)
    PROVE  Gates'
<1>1. /\ job[j] \in TaskRecords /\ offers[j] \in SUBSET AgentsOf /\ GateOk(j, job[j], offers[j])
      /\ offers \in [Jobs -> SUBSET AgentsOf]
  BY DEF Gates
<1>2. offers[j] = {} /\ Cardinality({}) = 0
  BY <1>1, FS_EmptySet DEF Assign, GateOk
<1>3. MaxRedelegations \in Nat /\ NoAgent \in AgentsOf \union {NoAgent}
  BY CoordinationAssumption
<1>4. CASE Skilled(j) = {}
  <2> DEFINE t == Task("failed", NoAgent, 0, 0)
  <2>1. TaskBecomes(j, t) /\ offers' = [offers EXCEPT ![j] = offers[j]]
    BY <1>1, <1>4 DEF Assign
  <2>2. t \in TaskRecords /\ t.status = "failed" /\ t.tries = 0
    BY <1>3, TaskParts DEF Statuses
  <2> HIDE DEF t
  <2>3. GateOk(j, t, offers[j])
    BY <1>2, <1>3, <2>2 DEF GateOk
  <2> QED
    BY <1>1, <2>1, <2>2, <2>3, TaskMoves
<1>5. CASE Skilled(j) # {}
  <2> DEFINE a == Chosen(j)
             t == Task("assigned", a, 0, 0)
  <2>1. a \in Skilled(j) /\ a \in AgentsOf
    BY <1>5, ChosenFits, CoordinationAssumption DEF Skilled
  <2>2. TaskBecomes(j, t) /\ offers' = [offers EXCEPT ![j] = offers[j] \union {a}]
    BY <1>5 DEF Assign, IsOffered
  <2> HIDE DEF a
  <2>3. t \in TaskRecords /\ t.status = "assigned" /\ t.tries = 0 /\ t.agent = a
    BY <2>1, TaskParts DEF Statuses
  <2>4. /\ offers[j] \union {a} \in SUBSET AgentsOf /\ Cardinality(offers[j] \union {a}) \in Nat
        /\ Cardinality(offers[j] \union {a}) <= 1
    BY <1>1, <1>2, <2>1, OneMore
  <2> HIDE DEF t
  <2>5. GateOk(j, t, offers[j] \union {a})
    BY <1>3, <2>1, <2>3, <2>4 DEF GateOk
  <2> QED
    BY <2>2, <2>3, <2>4, <2>5, TaskMoves
<1> QED
  BY <1>4, <1>5

LEMMA JudgeKeeps ==
    ASSUME Gates, reports \subseteq ReportRecords, NEW r \in reports, Judge(r)
    PROVE  Gates'
<1> DEFINE j == r.job
           old == job[j]
<1>1. j \in Jobs /\ r.mark \in 0..100
  BY CoordinationAssumption DEF ReportRecords
<1>2. /\ old \in TaskRecords /\ offers[j] \in SUBSET AgentsOf /\ GateOk(j, old, offers[j])
      /\ offers = [offers EXCEPT ![j] = offers[j]]
  BY <1>1 DEF Gates
<1>3. /\ old.agent \in AgentsOf \union {NoAgent} /\ old.tries \in Nat /\ old.mark \in 0..100
      /\ Cardinality(offers[j]) \in Nat
  BY <1>2, FiniteOffers DEF TaskRecords
<1>4. MaxRedelegations \in Nat
  BY CoordinationAssumption
<1> HIDE DEF j, old
<1>5. CASE GivesAnotherTry(r) /\ Redelegate(j)
  <2>1. old.tries + 1 \in Nat /\ old.tries + 1 <= MaxRedelegations
    BY <1>3, <1>4, <1>5 DEF GivesAnotherTry, old, j
  <2>2. CASE Alternatives(j) = {}
    <3> DEFINE t == Task("failed", old.agent, old.tries + 1, old.mark)
    <3>1. TaskBecomes(j, t) /\ offers' = [offers EXCEPT ![j] = offers[j]]
      BY <1>2, <1>5, <2>2 DEF Redelegate, old
    <3>2. t \in TaskRecords /\ t.status = "failed" /\ t.tries = old.tries + 1
      BY <1>3, <2>1, TaskParts DEF Statuses
    <3> HIDE DEF t
    <3>3. GateOk(j, t, offers[j])
      BY <1>2, <1>3, <2>1, <3>2 DEF GateOk
    <3> QED
      BY <1>1, <1>2, <3>1, <3>2, <3>3, TaskMoves
  <2>3. CASE Alternatives(j) # {}
    <3> DEFINE a == Foremost(Alternatives(j), j)
               t == Task("assigned", a, old.tries + 1, old.mark)
    <3>1. Alternatives(j) \subseteq Skilled(j) /\ Skilled(j) \subseteq AgentsOf
      BY CoordinationAssumption DEF Alternatives, Skilled
    <3>2. a \in Skilled(j) /\ a \in AgentsOf
      <4>1. Alternatives(j) \in SUBSET AgentsOf
        BY <3>1
      <4>2. a \in Alternatives(j)
        BY <1>1, <2>3, <4>1, ForemostFits
      <4> QED
        BY <3>1, <4>2
    <3>3. TaskBecomes(j, t) /\ offers' = [offers EXCEPT ![j] = offers[j] \union {a}]
      BY <1>5, <2>3 DEF Redelegate, IsOffered, old
    <3> HIDE DEF a
    <3>4. t \in TaskRecords /\ t.status = "assigned" /\ t.tries = old.tries + 1 /\ t.agent = a
      BY <1>3, <2>1, <3>2, TaskParts DEF Statuses
    <3>5. /\ offers[j] \union {a} \in SUBSET AgentsOf /\ Cardinality(offers[j] \union {a}) \in Nat
          /\ Cardinality(offers[j] \union {a}) <= Cardinality(offers[j]) + 1
      BY <1>2, <3>2, OneMore
    <3> HIDE DEF t
    <3>6. Cardinality(offers[j]) <= 1 + old.tries
      BY <1>2 DEF GateOk
    <3>7. Cardinality(offers[j] \union {a}) <= 1 + (old.tries + 1)
      BY <1>3, <3>5, <3>6
    <3>8. GateOk(j, t, offers[j] \union {a})
      BY <2>1, <3>2, <3>4, <3>7 DEF GateOk
    <3> QED
      BY <1>1, <3>3, <3>4, <3>5, <3>8, TaskMoves
  <2> QED
    BY <2>2, <2>3
<1>6. CASE ~GivesAnotherTry(r) /\ r.mark < MinConfidence
  <2> DEFINE t == Task("review", old.agent, old.tries, r.mark)
  <2>1. TaskBecomes(j, t) /\ offers' = [offers EXCEPT ![j] = offers[j]]
    <3>1. r.mark \in 0..100
      BY <1>1
    <3> QED
      BY <1>2, <1>6, <3>1 DEF Judge, old, j, MinConfidence
  <2>2. t \in TaskRecords /\ t.status = "review" /\ t.tries = old.tries
    BY <1>1, <1>3, TaskParts DEF Statuses
  <2> HIDE DEF t
  <2>3. GateOk(j, t, offers[j])
    BY <1>2, <2>2 DEF GateOk
  <2> QED
    BY <1>1, <1>2, <2>1, <2>2, <2>3, TaskMoves
<1>7. CASE ~GivesAnotherTry(r) /\ r.mark >= MinConfidence
  <2> DEFINE t == Task("completed", old.agent, old.tries, r.mark)
  <2>1. TaskBecomes(j, t) /\ offers' = [offers EXCEPT ![j] = offers[j]]
    BY <1>1, <1>2, <1>7 DEF Judge, old, j, MinConfidence
  <2>2. t \in TaskRecords /\ t.status = "completed" /\ t.tries = old.tries /\ t.mark = r.mark
    BY <1>1, <1>3, TaskParts DEF Statuses
  <2> HIDE DEF t
  <2>3. GateOk(j, t, offers[j])
    BY <1>2, <1>7, <2>2 DEF GateOk
  <2> QED
    BY <1>1, <1>2, <2>1, <2>2, <2>3, TaskMoves
<1> QED
  BY <1>5, <1>6, <1>7 DEF Judge, j

LEMMA CancelKeeps ==
    ASSUME Gates, NEW j \in Jobs, CancelJob(j)
    PROVE  Gates'
<1> DEFINE old == job[j]
           t == Task("cancelled", old.agent, old.tries, old.mark)
<1>1. /\ old \in TaskRecords /\ offers[j] \in SUBSET AgentsOf /\ GateOk(j, old, offers[j])
      /\ offers = [offers EXCEPT ![j] = offers[j]]
  BY DEF Gates
<1>2. TaskBecomes(j, t) /\ offers' = [offers EXCEPT ![j] = offers[j]]
  BY <1>1 DEF CancelJob
<1>3. old.agent \in AgentsOf \union {NoAgent} /\ old.tries \in Nat /\ old.mark \in 0..100
  BY <1>1 DEF TaskRecords
<1>4. t \in TaskRecords /\ t.status = "cancelled" /\ t.tries = old.tries
  BY <1>3, TaskParts DEF Statuses
<1> HIDE DEF t
<1>5. GateOk(j, t, offers[j])
  BY <1>1, <1>4 DEF GateOk
<1> QED
  BY <1>1, <1>2, <1>4, <1>5, TaskMoves

LEMMA ReportKeeps ==
    ASSUME SupervisorInv, NEW j \in Jobs, NEW a \in AgentsOf, NEW m \in Marks, Report(j, a, m)
    PROVE  Boards' /\ reports' \subseteq ReportRecords
<1>1. /\ board \in [Jobs -> Seq(Postings)] /\ version \in [Jobs -> Nat] /\ clashes \in [Jobs -> Nat]
      /\ \A k \in Jobs : BoardOk(board[k], version[k], clashes[k])
  BY DEF SupervisorInv, Boards
<1>2. reports' \subseteq ReportRecords
  <2>1. version[j] + 1 \in Nat
    BY <1>1
  <2> QED
    BY <2>1 DEF Report, SupervisorInv, ReportRecords
<1>3. PICK soon \in BOOLEAN : Write(j, a, soon)
  BY DEF Report
<1> DEFINE x == Posting(a, soon)
           h == Latest(Append(board[j], x), BoardHistory)
           d == clashes[j] + (IF Clash(board[j], x) THEN 1 ELSE 0)
<1>4. x \in Postings /\ x.soon = soon /\ x.author = a
  BY DEF Posting, Postings
<1>5. /\ board' = [board EXCEPT ![j] = h] /\ version' = [version EXCEPT ![j] = version[j] + 1]
      /\ clashes' = [clashes EXCEPT ![j] = d]
  <2>1. /\ board' = [board EXCEPT ![j] = h] /\ version' = [version EXCEPT ![j] = version[j] + 1]
        /\ clashes' = IF soon /\ board[j] # <<>> /\ Last(board[j]).author # a
                      THEN [clashes EXCEPT ![j] = @ + 1] ELSE clashes
    BY <1>3 DEF Write
  <2>2. Clash(board[j], x) <=> soon /\ board[j] # <<>> /\ Last(board[j]).author # a
    BY <1>4 DEF Clash
  <2>3. clashes' = [clashes EXCEPT ![j] = d]
    <3> HIDE DEF x, h
    <3>1. CASE Clash(board[j], x)
      <4>1. d = clashes[j] + 1
        BY <3>1
      <4>2. clashes' = [clashes EXCEPT ![j] = @ + 1]
        BY <2>1, <2>2, <3>1
      <4>3. clashes' = [clashes EXCEPT ![j] = clashes[j] + 1]
        BY <4>2
      <4> QED
        BY <4>1, <4>3
    <3>2. CASE ~Clash(board[j], x)
      <4>1. d = clashes[j]
        BY <1>1, <3>2
      <4>2. clashes' = clashes
        BY <2>1, <2>2, <3>2
      <4>3. clashes = [clashes EXCEPT ![j] = clashes[j]]
        BY <1>1
      <4> QED
        BY <4>1, <4>2, <4>3
    <3> QED
      BY <3>1, <3>2
  <2> QED
    BY <2>1, <2>3
<1> HIDE DEF x
<1>6. h \in Seq(Postings) /\ BoardOk(h, version[j] + 1, d)
  <2>1. board[j] \in Seq(Postings) /\ version[j] \in Nat /\ clashes[j] \in Nat
    BY <1>1
  <2> HIDE DEF d
  <2>2. d = clashes[j] + (IF Clash(board[j], x) THEN 1 ELSE 0)
    BY DEF d
  <2> QED
    BY <1>1, <1>4, <2>1, <2>2, BoardGrows
<1>7. d \in Nat /\ version[j] + 1 \in Nat
  BY <1>1
<1> HIDE DEF h, d
<1>8. board' \in [Jobs -> Seq(Postings)] /\ version' \in [Jobs -> Nat] /\ clashes' \in [Jobs -> Nat]
  BY <1>1, <1>5, <1>6, <1>7
<1>9. ASSUME NEW k \in Jobs PROVE BoardOk(board'[k], version'[k], clashes'[k])
  <2>1. CASE k = j
    BY <1>1, <1>5, <1>6, <2>1
  <2>2. CASE k # j
    <3>1. board'[k] = board[k] /\ version'[k] = version[k] /\ clashes'[k] = clashes[k]
      BY <1>1, <1>5, <2>2
    <3> QED
      BY <1>1, <3>1
  <2> QED
    BY <2>1, <2>2
<1>10. \A k \in Jobs : BoardOk(board[k], version[k], clashes[k])'
  BY <1>9 DEF BoardOk, Overwrites
<1> QED
  BY <1>2, <1>8, <1>10 DEF Boards, Postings, AgentsOf

LEMMA SupervisorStart == SupervisorInit => SupervisorInv
<1> SUFFICES ASSUME SupervisorInit PROVE SupervisorInv
  OBVIOUS
<1>1. MaxRedelegations \in Nat /\ BoardHistory \in Nat /\ BoardHistory >= 1 /\ Cardinality({}) = 0
  BY CoordinationAssumption, FS_EmptySet
<1>2. Gates
  <2> DEFINE t == Task("unknown", NoAgent, 0, 0)
  <2>1. job = [j \in Jobs |-> t] /\ offers = [j \in Jobs |-> {}]
    BY DEF SupervisorInit
  <2>2. t \in TaskRecords /\ t.status = "unknown" /\ t.tries = 0
    BY TaskParts DEF Statuses
  <2> HIDE DEF t
  <2> QED
    BY <1>1, <2>1, <2>2 DEF Gates, GateOk
<1>3. Boards
  <2>1. board = [j \in Jobs |-> <<>>] /\ version = [j \in Jobs |-> 0] /\ clashes = [j \in Jobs |-> 0]
    BY DEF SupervisorInit
  <2>2. Overwrites(<<>>) = {}
    <3>1. Len(<<>>) = 0 /\ 2..0 = {}
      OBVIOUS
    <3> QED
      BY <3>1 DEF Overwrites
  <2>3. BoardOk(<<>>, 0, 0)
    <3>1. Len(<<>>) = 0
      OBVIOUS
    <3>2. 0 < BoardHistory
      BY <1>1
    <3>3. Cardinality(Overwrites(<<>>)) = 0
      BY <1>1, <2>2
    <3> QED
      BY <3>1, <3>2, <3>3 DEF BoardOk
  <2>4. \A j \in Jobs : BoardOk(board[j], version[j], clashes[j])
    BY <2>1, <2>3
  <2>5. board \in [Jobs -> Seq(Postings)] /\ version \in [Jobs -> Nat] /\ clashes \in [Jobs -> Nat]
    BY <2>1
  <2> QED
    BY <2>4, <2>5 DEF Boards
<1> QED
  BY <1>2, <1>3 DEF SupervisorInit, SupervisorInv

LEMMA SupervisorKept == SupervisorInv /\ [SupervisorNext]_supervisorVars => SupervisorInv'
<1> SUFFICES ASSUME SupervisorInv, [SupervisorNext]_supervisorVars PROVE SupervisorInv'
  OBVIOUS
<1>1. /\ Gates /\ Boards /\ reports \subseteq ReportRecords
      /\ session \in {"active", "completed", "failed"}
  BY DEF SupervisorInv
<1>2. /\ UNCHANGED boardVars => Boards'
      /\ UNCHANGED <<job, offers>> => Gates'
      /\ reports' \subseteq reports => reports' \subseteq ReportRecords'
  <2>1. UNCHANGED boardVars => Boards'
    BY <1>1 DEF boardVars, Boards, BoardOk, Overwrites, Postings, AgentsOf
  <2>2. UNCHANGED <<job, offers>> => Gates'
    BY <1>1 DEF Gates, GateOk, Skilled, TaskRecords, AgentsOf
  <2>3. reports' \subseteq reports => reports' \subseteq ReportRecords'
    BY <1>1 DEF ReportRecords, AgentsOf
  <2> QED
    BY <2>1, <2>2, <2>3
<1>3. CASE \E j \in Jobs : Assign(j) \/ CancelJob(j)
  <2>1. PICK j \in Jobs : Assign(j) \/ CancelJob(j)
    BY <1>3
  <2>2. Gates'
    BY <1>1, <2>1, AssignKeeps, CancelKeeps
  <2>3. UNCHANGED <<session, reports, boardVars>>
    BY <2>1 DEF Assign, CancelJob
  <2> QED
    BY <1>1, <1>2, <2>2, <2>3 DEF SupervisorInv
<1>4. CASE \E j \in Jobs, a \in AgentsOf, m \in Marks : Report(j, a, m)
  <2>1. PICK j \in Jobs, a \in AgentsOf, m \in Marks : Report(j, a, m)
    BY <1>4
  <2>2. Boards' /\ reports' \subseteq ReportRecords
    BY <2>1, ReportKeeps
  <2>3. UNCHANGED <<job, session, offers>>
    BY <2>1 DEF Report
  <2> QED
    BY <1>1, <1>2, <2>2, <2>3 DEF SupervisorInv, ReportRecords, AgentsOf
<1>5. CASE \E r \in reports : Judge(r)
  <2>1. PICK r \in reports : Judge(r)
    BY <1>5
  <2>2. Gates'
    BY <1>1, <2>1, JudgeKeeps
  <2>3. UNCHANGED boardVars /\ reports' \subseteq reports
    BY <2>1 DEF Judge
  <2>4. session' \in {"active", "completed", "failed"}
    BY <1>1, <2>1 DEF Judge, Redelegate, SessionAfter
  <2> QED
    BY <1>2, <2>2, <2>3, <2>4 DEF SupervisorInv
<1>6. CASE UNCHANGED supervisorVars
  <2>1. UNCHANGED boardVars /\ UNCHANGED <<job, offers, session, reports>>
    BY <1>6 DEF supervisorVars, boardVars
  <2> QED
    BY <1>1, <1>2, <2>1 DEF SupervisorInv
<1> QED
  BY <1>3, <1>4, <1>5, <1>6 DEF SupervisorNext

LEMMA SupervisorSound ==
    SupervisorInv =>
        /\ GatesHold /\ BoardRemembers /\ session \in {"active", "completed", "failed"}
        /\ \A j \in Jobs : job[j].agent \in AgentsOf \union {NoAgent} /\ Len(board[j]) <= BoardHistory
<1> SUFFICES ASSUME SupervisorInv
             PROVE  /\ GatesHold /\ BoardRemembers
                    /\ \A j \in Jobs : /\ job[j].agent \in AgentsOf \union {NoAgent}
                                       /\ Len(board[j]) <= BoardHistory
  BY DEF SupervisorInv
<1>1. GatesHold
  BY DEF SupervisorInv, Gates, GateOk, GatesHold
<1>2. BoardRemembers
  BY DEF SupervisorInv, Boards, BoardOk, BoardRemembers
<1>3. ASSUME NEW j \in Jobs PROVE Len(board[j]) <= BoardHistory
  <2>1. BoardHistory \in Nat /\ version[j] \in Nat
    BY CoordinationAssumption DEF SupervisorInv, Boards
  <2>2. Len(board[j]) = IF version[j] < BoardHistory THEN version[j] ELSE BoardHistory
    BY <1>2 DEF BoardRemembers
  <2> QED
    BY <2>1, <2>2
<1>4. ASSUME NEW j \in Jobs PROVE job[j].agent \in AgentsOf \union {NoAgent}
  <2>1. job[j] \in TaskRecords
    BY DEF SupervisorInv, Gates
  <2> QED
    BY <2>1 DEF TaskRecords
<1> QED
  BY <1>1, <1>2, <1>3, <1>4

-----------------------------------------------------------------------------
(* The router *)

\* The average of percentages is one.
LEMMA AverageFits ==
    ASSUME NEW seq \in Seq(0..100), seq # <<>>
    PROVE  SumOf(seq) \div Len(seq) \in 0..100
<1> DEFINE n == Len(seq)
           s == SumOf(seq)
           q == s \div n
<1>1. n \in Nat /\ n >= 1
  OBVIOUS
<1>2. s \in Nat /\ s <= 100 * n
  BY SumOfPercents
<1> HIDE DEF n, s
<1>3. q \in Nat /\ n * q <= s
  BY <1>1, <1>2
<1>4. ASSUME q >= 101 PROVE FALSE
  <2> HIDE DEF q
  <2>1. PICK d \in Nat : q = 101 + d
    <3>1. q - 101 \in Nat /\ q = 101 + (q - 101)
      BY <1>3, <1>4
    <3> QED
      BY <3>1
  <2>2. n * q = 101 * n + n * d /\ n * d >= 0
    BY <1>1, <2>1
  <2> QED
    BY <1>1, <1>2, <1>3, <2>2
<1>5. q \in 0..100
  <2> HIDE DEF q
  <2> QED
    BY <1>3, <1>4
<1> QED
  BY <1>5 DEF n, s

Records == record \in [AgentsOf -> Seq(0..100)]

\* A score is a percentage that grows with the mark; a failed subrun scores little.
LEMMA ScoresFit ==
    ASSUME Records, NEW a \in AgentsOf, NEW m \in 0..100, NEW n \in 0..100, m <= n, NEW e
    PROVE  /\ Adjusted(m, a, e) \in 0..100 /\ Adjusted(n, a, e) \in 0..100
           /\ Adjusted(m, a, e) <= Adjusted(n, a, e)
           /\ e = "failed" => Adjusted(m, a, e) <= 30
<1>1. /\ Blend(m, a) \in 0..100 /\ Blend(n, a) \in 0..100 /\ Blend(m, a) <= Blend(n, a)
  <2>1. CASE record[a] = <<>>
    BY <2>1 DEF Blend
  <2>2. CASE record[a] # <<>>
    <3> DEFINE v == Average(a)
    <3>1. v \in 0..100
      <4>1. record[a] \in Seq(0..100)
        BY DEF Records
      <4> QED
        BY <2>2, <4>1, AverageFits DEF Average
    <3>2. /\ Blend(m, a) = (m * 70 + v * 30) \div 100
          /\ Blend(n, a) = (n * 70 + v * 30) \div 100
      <4>1. 100 - RecordShare = 70 /\ RecordShare = 30
        BY DEF RecordShare
      <4> QED
        BY <2>2, <4>1 DEF Blend
    <3> HIDE DEF v
    <3> QED
      BY <3>1, <3>2
  <2> QED
    BY <2>1, <2>2
<1> DEFINE x == Blend(m, a)
           y == Blend(n, a)
<1>2. /\ x \in 0..100 /\ y \in 0..100 /\ x <= y
  BY <1>1
<1>3. /\ Adjusted(m, a, e) = IF e = "failed" THEN (x * 3) \div 10 ELSE IF e = "unsound" THEN x \div 2 ELSE x
      /\ Adjusted(n, a, e) = IF e = "failed" THEN (y * 3) \div 10 ELSE IF e = "unsound" THEN y \div 2 ELSE y
  BY DEF Adjusted
<1> HIDE DEF x, y
<1>4. CASE e = "failed"
  BY <1>2, <1>3, <1>4
<1>5. CASE e = "unsound"
  BY <1>2, <1>3, <1>5
<1>6. CASE e # "failed" /\ e # "unsound"
  BY <1>2, <1>3, <1>6
<1> QED
  BY <1>4, <1>5, <1>6

RouterInv ==
    /\ Records /\ \A a \in AgentsOf : Len(record[a]) <= RecordLength
    /\ handover.action \in {"none", "accept", "review", "redelegate", "reject"}
    /\ handover.ended = "routed" /\ handover.action = "reject" =>
         \E j \in Jobs : \A a \in Skilled(j) : record[a] # <<>>
    /\ handover.ended = "failed" => handover.action \in {"redelegate", "reject"}
    /\ handover.action \in {"review", "redelegate"} => handover.to # handover.agent

LEMMA HandoverParts ==
    ASSUME NEW action, NEW a, NEW to, NEW ended
    PROVE  /\ Handover(action, a, to, ended).action = action /\ Handover(action, a, to, ended).agent = a
           /\ Handover(action, a, to, ended).to = to /\ Handover(action, a, to, ended).ended = ended
BY DEF Handover

LEMMA RouterStart == RouterInit => RouterInv
<1> SUFFICES ASSUME RouterInit PROVE RouterInv
  OBVIOUS
<1>1. RecordLength \in Nat
  BY CoordinationAssumption
<1>2. Records /\ \A a \in AgentsOf : Len(record[a]) <= RecordLength
  BY <1>1 DEF RouterInit, Records
<1>3. handover.action = "none" /\ handover.ended = "none"
  BY HandoverParts DEF RouterInit
<1> QED
  BY <1>2, <1>3 DEF RouterInv

LEMMA SubrunDoneKeeps ==
    ASSUME RouterInv, NEW a \in Runners, NEW m \in Marks, NEW e \in {"complete", "unsound", "failed"},
           SubrunDone(a, m, e)
    PROVE  RouterInv'
<1> DEFINE score == Adjusted(m, a, e)
           act == Action(score)
           to == Target(act, a)
<1>1. a \in AgentsOf /\ m \in 0..100 /\ RecordLength \in Nat /\ RecordLength >= 1
  BY CoordinationAssumption
<1>2. score \in 0..100 /\ (e = "failed" => score <= 30)
  <2>1. Records
    BY DEF RouterInv
  <2>2. m <= m
    BY <1>1
  <2>3. Adjusted(m, a, e) \in 0..100 /\ (e = "failed" => Adjusted(m, a, e) <= 30)
    BY <1>1, <2>1, <2>2, ScoresFit
  <2> QED
    BY <2>3
<1>3. /\ handover' = Handover(act, a, to, e)
      /\ record' = [record EXCEPT ![a] = Latest(Append(record[a], score), RecordLength)]
  BY DEF SubrunDone
<1> HIDE DEF score
<1>4. act \in {"accept", "review", "redelegate", "reject"} /\ (e = "failed" => act \in {"redelegate", "reject"})
  BY <1>2 DEF Action, AcceptFrom, ReviewFrom, RejectBelow
<1> HIDE DEF act
<1>5. act \in {"review", "redelegate"} => to # a
  <2>1. First(Reviewers \ {a}) \in (Reviewers \ {a}) \union {NoAgent}
    BY CoordinationAssumption, FirstFits
  <2>2. First(Delegatable \ {a}) \in (Delegatable \ {a}) \union {NoAgent}
    BY CoordinationAssumption, FirstFits
  <2>3. a # NoAgent
    BY <1>1, CoordinationAssumption
  <2> QED
    BY <2>1, <2>2, <2>3 DEF Target, Reviewer
<1> HIDE DEF to
<1>6. /\ handover'.action = act /\ handover'.agent = a /\ handover'.to = to /\ handover'.ended = e
  BY <1>3, HandoverParts
<1>7. Records' /\ \A b \in AgentsOf : Len(record'[b]) <= RecordLength
  <2> DEFINE log == Latest(Append(record[a], score), RecordLength)
  <2>1. record \in [AgentsOf -> Seq(0..100)] /\ \A b \in AgentsOf : Len(record[b]) <= RecordLength
    BY DEF RouterInv, Records
  <2>2. Append(record[a], score) \in Seq(0..100)
    BY <1>1, <1>2, <2>1
  <2>3. log \in Seq(0..100) /\ Len(log) <= RecordLength
    <3>1. /\ log \in Seq(0..100)
          /\ Len(log) = IF Len(Append(record[a], score)) > RecordLength THEN RecordLength
                         ELSE Len(Append(record[a], score))
      BY <1>1, <2>2, LatestFits
    <3>2. Len(Append(record[a], score)) \in Nat
      BY <2>2
    <3> QED
      BY <1>1, <3>1, <3>2
  <2>4. record' = [record EXCEPT ![a] = log]
    BY <1>3
  <2> HIDE DEF log
  <2>5. record' \in [AgentsOf -> Seq(0..100)] /\ \A b \in AgentsOf : Len(record'[b]) <= RecordLength
    BY <1>1, <2>1, <2>3, <2>4
  <2> QED
    BY <2>5 DEF Records, AgentsOf
<1> QED
  BY <1>4, <1>5, <1>6, <1>7 DEF RouterInv, AgentsOf

LEMMA RouterKept == RouterInv /\ [RouterNext]_routerVars => RouterInv'
<1> SUFFICES ASSUME RouterInv, [RouterNext]_routerVars PROVE RouterInv'
  OBVIOUS
<1>1. CASE \E a \in Runners, m \in Marks, e \in {"complete", "unsound", "failed"} : SubrunDone(a, m, e)
  BY <1>1, SubrunDoneKeeps
<1>2. CASE \E j \in Jobs, high \in BOOLEAN : RouteJob(j, high)
  <2>1. PICK j \in Jobs, high \in BOOLEAN : RouteJob(j, high)
    BY <1>2
  <2>2. UNCHANGED record
    BY <2>1 DEF RouteJob
  <2>3. /\ handover'.ended = "routed" /\ handover'.action \in {"accept", "reject"}
        /\ handover'.action = "reject" => Eligible(j, high) = {}
    <3>1. CASE Eligible(j, high) = {}
      BY <2>1, <3>1, HandoverParts DEF RouteJob
    <3>2. CASE Eligible(j, high) # {}
      <4>1. \E best : handover' = Handover("accept", NoAgent, best, "routed")
        BY <2>1, <3>2 DEF RouteJob
      <4> QED
        BY <4>1, HandoverParts
    <3> QED
      BY <3>1, <3>2
  <2>4. Eligible(j, high) = {} => \A a \in Skilled(j) : record[a] # <<>>
    BY DEF Eligible
  <2>5. handover'.action = "reject" => \E k \in Jobs : \A a \in Skilled(k) : record'[a] # <<>>
    BY <2>2, <2>3, <2>4
  <2> QED
    BY <2>2, <2>3, <2>5 DEF RouterInv, Records, AgentsOf, Skilled
<1>3. CASE UNCHANGED routerVars
  BY <1>3 DEF routerVars, RouterInv, Records, AgentsOf, Skilled
<1> QED
  BY <1>1, <1>2, <1>3 DEF RouterNext

LEMMA RouterSound == RouterInv => RoutingSound
<1> SUFFICES ASSUME RouterInv PROVE RoutingSound
  OBVIOUS
<1>1. ASSUME NEW a \in AgentsOf, NEW m \in Marks, NEW n \in Marks, NEW e \in {"complete", "unsound", "failed"},
             m <= n
      PROVE  Favour(Action(Adjusted(m, a, e))) <= Favour(Action(Adjusted(n, a, e)))
  <2>1. m \in 0..100 /\ n \in 0..100
    BY CoordinationAssumption
  <2> DEFINE x == Adjusted(m, a, e)
             y == Adjusted(n, a, e)
  <2>2. x \in 0..100 /\ y \in 0..100 /\ x <= y
    BY <1>1, <2>1, ScoresFit DEF RouterInv
  <2> HIDE DEF x, y
  <2>3. Favour(Action(x)) <= Favour(Action(y))
    BY <2>2 DEF Favour, Action, AcceptFrom, ReviewFrom, RejectBelow
  <2> QED
    BY <2>3 DEF x, y
<1> QED
  BY <1>1 DEF RouterInv, RoutingSound

-----------------------------------------------------------------------------
(* Votes *)

Votes == [agent : Panel, answer : Answers, mark : Marks]
Majorities == {"majority", "weighted", "expertise"}
BallotInv == ballot \in Seq(Votes) /\ Len(ballot) <= BallotSize

LEMMA BallotKept ==
    (BallotInit => BallotInv) /\ (BallotInv /\ [BallotNext]_ballot => BallotInv')
<1>1. BallotSize \in Nat
  BY CoordinationAssumption
<1>2. BallotInit => BallotInv
  BY <1>1 DEF BallotInit, BallotInv
<1>3. ASSUME BallotInv, [BallotNext]_ballot PROVE BallotInv'
  <2>1. CASE BallotNext
    <3>1. PICK a \in Panel, x \in Answers, m \in Marks : CastVote(a, x, m)
      BY <2>1 DEF BallotNext
    <3> DEFINE v == [agent |-> a, answer |-> x, mark |-> m]
    <3>2. v \in Votes
      BY DEF Votes
    <3>3. ballot' = Append(ballot, v) /\ Len(ballot) < BallotSize
      BY <3>1 DEF CastVote
    <3> HIDE DEF v
    <3>4. ballot' \in Seq(Votes) /\ Len(ballot') <= BallotSize
      BY <1>1, <1>3, <3>2, <3>3 DEF BallotInv
    <3> QED
      BY <3>4 DEF BallotInv, Votes
  <2>2. CASE UNCHANGED ballot
    BY <1>3, <2>2 DEF BallotInv, Votes
  <2> QED
    BY <1>3, <2>1, <2>2
<1> QED
  BY <1>2, <1>3

LEMMA WeightsFit ==
    ASSUME NEW b \in Seq(Votes), NEW s
    PROVE  /\ \A i \in 1..Len(b) : Weight2(b[i], s) \in Nat
           /\ Len(b) \in Nat /\ DOMAIN b = 1..Len(b)
<1>1. \A i \in 1..Len(b) : b[i] \in Votes
  BY ElementOfSeq
<1>2. ASSUME NEW v \in Votes PROVE Weight2(v, s) \in Nat
  <2>1. v.agent \in AgentsOf /\ v.mark \in 0..100
    BY CoordinationAssumption DEF Votes
  <2>2. (CHOOSE j \in Jobs : TRUE) \in Jobs
    BY CoordinationAssumption
  <2>3. Skill[v.agent][CHOOSE j \in Jobs : TRUE] \in 0..100
    BY <2>1, <2>2, CoordinationAssumption
  <2> DEFINE w == Weight2(v, s)
             skill == Skill[v.agent][CHOOSE j \in Jobs : TRUE]
             mark == v.mark
  <2>4. w = mark \/ w = skill \/ w = 1
    BY ZenonT(20) DEF Weight2
  <2>5. skill \in 0..100 /\ mark \in 0..100
    BY <2>1, <2>3
  <2> HIDE DEF skill, mark, w
  <2>6. w \in Nat
    BY <2>4, <2>5
  <2> QED
    BY <2>6 DEF w
<1> QED
  BY <1>1, <1>2, LenProperties

\* What backs an answer, and what backs two of them, is part of the total.
LEMMA BackingsFit ==
    ASSUME NEW b \in Seq(Votes), NEW s, NEW x, NEW y, x # y
    PROVE  /\ Backing(b, x, s) \in Nat /\ Backing(b, y, s) \in Nat /\ Total(b, s) \in Nat
           /\ Backing(b, x, s) + Backing(b, y, s) <= Total(b, s)
<1> DEFINE n == Len(b)
           w(i) == Weight2(b[i], s)
           f == [i \in 1..n |-> IF b[i].answer = x THEN w(i) ELSE 0]
           g == [i \in 1..n |-> IF b[i].answer = y THEN w(i) ELSE 0]
           h == [i \in 1..n |-> w(i)]
<1>1. n \in Nat /\ DOMAIN b = 1..n /\ \A i \in 1..n : w(i) \in Nat
  BY WeightsFit
<1>2. Backing(b, x, s) = SumOf(f) /\ Backing(b, y, s) = SumOf(g) /\ Total(b, s) = SumOf(h)
  BY <1>1 DEF Backing, Total
<1> HIDE DEF n, w
<1>3. f \in [1..n -> Nat] /\ g \in [1..n -> Nat] /\ h \in [1..n -> Nat]
  BY <1>1
<1>4. \A i \in 1..n : f[i] + g[i] <= h[i]
  BY <1>1
<1> HIDE DEF f, g, h
<1>5. /\ f \in Seq(Nat) /\ g \in Seq(Nat) /\ h \in Seq(Nat)
      /\ Len(f) = n /\ Len(g) = n /\ Len(h) = n
  BY <1>1, <1>3, ListOf
<1>6. SumOf(f) + SumOf(g) <= SumOf(h)
  BY <1>4, <1>5, SumOfParts
<1> QED
  BY <1>2, <1>5, <1>6, SumFits

\* Every answer is backed by a number, at most the total.
LEMMA BackingFits ==
    ASSUME NEW b \in Seq(Votes), NEW s, NEW x
    PROVE  Backing(b, x, s) \in Nat /\ Backing(b, x, s) <= Total(b, s) /\ Total(b, s) \in Nat
<1>1. PICK y : x # y
  <2>1. x # 0 \/ x # 1
    OBVIOUS
  <2> QED
    BY <2>1
<1>2. /\ Backing(b, x, s) \in Nat /\ Backing(b, y, s) \in Nat /\ Total(b, s) \in Nat
      /\ Backing(b, x, s) + Backing(b, y, s) <= Total(b, s)
  BY <1>1, BackingsFit
<1> QED
  BY <1>2

\* The leading answer was given and has the largest backing.
LEMMA LeadingLeads ==
    ASSUME NEW b \in Seq(Votes), b # <<>>, NEW s
    PROVE  /\ \A i \in 1..Len(b) : Backing(b, b[i].answer, s) <= Backing(b, Leading(b, s), s)
           /\ \E i \in 1..Len(b) : Leading(b, s) = b[i].answer
<1> DEFINE n == Len(b)
           backing(i) == Backing(b, b[i].answer, s)
           all == {backing(i) : i \in 1..n}
           top == {i \in 1..n : \A k \in 1..n : backing(k) <= backing(i)}
<1>1. n \in Nat /\ n >= 1 /\ DOMAIN b = 1..n
  BY LenProperties
<1>2. top # {} /\ top \subseteq Nat
  <2>1. Total(b, s) \in Nat /\ \A i \in 1..n : backing(i) \in 0..Total(b, s)
    BY BackingFits
  <2>2. all # {} /\ all \subseteq 0..Total(b, s)
    BY <1>1, <2>1
  <2>3. PICK z \in all : \A y \in all : y <= z
    <3> HIDE DEF all
    <3> QED
      BY <2>1, <2>2, LargestNumber
  <2>4. PICK i \in 1..n : z = backing(i)
    BY <2>3
  <2>5. \A k \in 1..n : backing(k) <= backing(i)
    BY <2>3, <2>4
  <2> QED
    BY <2>5
<1>3. Leading(b, s) = b[FirstAt(top)].answer
  <2>1. top = {i \in DOMAIN b : \A w \in ToSet(b) : Backing(b, w.answer, s) <= backing(i)}
    BY <1>1 DEF ToSet
  <2> HIDE DEF top
  <2> QED
    BY <2>1 DEF Leading
<1>4. FirstAt(top) \in top
  <2> HIDE DEF top
  <2> QED
    BY <1>2, FirstAtFits
<1> QED
  BY <1>3, <1>4

\* A reordering has the same votes, and so the same backings and total.
LEMMA ReorderingsFit ==
    ASSUME NEW b \in Seq(Votes), NEW c \in Reorderings(b)
    PROVE  /\ c \in Seq(Votes) /\ Len(c) = Len(b)
           /\ \A i \in 1..Len(b) : \E k \in 1..Len(b) : c[i] = b[k]
           /\ \A k \in 1..Len(b) : \E i \in 1..Len(b) : c[i] = b[k]
           /\ \A s, x : Backing(c, x, s) = Backing(b, x, s) /\ Total(c, s) = Total(b, s)
<1> DEFINE n == Len(b)
<1>1. n \in Nat /\ DOMAIN b = 1..n /\ b \in [1..n -> Votes]
  BY LenProperties
<1>2. PICK p \in [1..n -> 1..n] : IsInjective(p) /\ c = [i \in 1..n |-> b[p[i]]]
  BY <1>1 DEF Reorderings
<1>3. \A i, k \in 1..n : p[i] = p[k] => i = k
  BY <1>2 DEF IsInjective
<1> HIDE DEF n
<1>4. c \in [1..n -> Votes]
  BY <1>1, <1>2
<1>5. c \in Seq(Votes) /\ Len(c) = n /\ DOMAIN c = 1..n
  BY <1>1, <1>4, IsASeq, LenProperties
<1>6. \A i \in 1..n : \E k \in 1..n : c[i] = b[k]
  BY <1>2
<1>7. \A k \in 1..n : \E i \in 1..n : c[i] = b[k]
  <2>1. \A k \in 1..n : \E i \in 1..n : p[i] = k
    BY <1>1, <1>2, <1>3, ReorderingReaches
  <2> QED
    BY <1>2, <2>1
<1>8. ASSUME NEW s, NEW x PROVE Backing(c, x, s) = Backing(b, x, s) /\ Total(c, s) = Total(b, s)
  <2> DEFINE w(v) == Weight2(v, s)
             f == [i \in 1..n |-> IF b[i].answer = x THEN w(b[i]) ELSE 0]
             g == [i \in 1..n |-> IF c[i].answer = x THEN w(c[i]) ELSE 0]
             h == [i \in 1..n |-> w(b[i])]
             k == [i \in 1..n |-> w(c[i])]
  <2>1. /\ \A i \in 1..n : w(b[i]) \in Nat
        /\ \A i \in 1..n : w(c[i]) \in Nat
    BY <1>5, WeightsFit DEF n
  <2>2. /\ Backing(b, x, s) = SumOf(f) /\ Backing(c, x, s) = SumOf(g)
        /\ Total(b, s) = SumOf(h) /\ Total(c, s) = SumOf(k)
    BY <1>1, <1>5 DEF Backing, Total
  <2> HIDE DEF w
  <2>3. /\ \A i \in 1..n : g[i] = f[p[i]]
        /\ \A i \in 1..n : k[i] = h[p[i]]
    BY <1>2
  <2>4. f \in [1..n -> Nat] /\ g \in [1..n -> Nat] /\ h \in [1..n -> Nat] /\ k \in [1..n -> Nat]
    BY <2>1
  <2> HIDE DEF f, g, h, k
  <2>5. /\ f \in Seq(Nat) /\ g \in Seq(Nat) /\ h \in Seq(Nat) /\ k \in Seq(Nat)
        /\ Len(f) = n /\ Len(g) = n /\ Len(h) = n /\ Len(k) = n
    <3> HIDE DEF n
    <3> QED
      BY <1>1, <2>4, ListOf
  <2>6. ASSUME NEW r \in Seq(Nat), NEW t \in Seq(Nat), Len(r) = n, Len(t) = n, \A i \in 1..n : t[i] = r[p[i]]
        PROVE  SumOf(t) = SumOf(r)
    <3>1. /\ Len(t) = Len(r) /\ p \in [1..Len(r) -> 1..Len(r)]
          /\ \A i, e \in 1..Len(r) : p[i] = p[e] => i = e
          /\ \A i \in 1..Len(r) : t[i] = r[p[i]]
      BY <1>2, <1>3, <2>6
    <3> QED
      BY <3>1, SumReordered
  <2>7. SumOf(g) = SumOf(f) /\ SumOf(k) = SumOf(h)
    BY <2>3, <2>5, <2>6
  <2> QED
    BY <2>2, <2>7
<1> QED
  BY <1>5, <1>6, <1>7, <1>8 DEF n

\* An answer with more than half of the total leads every ballot of these votes.
LEMMA MajorityLeads ==
    ASSUME NEW b \in Seq(Votes), b # <<>>, NEW c \in Reorderings(b), NEW s,
           2 * Backing(b, Leading(b, s), s) > Total(b, s)
    PROVE  Leading(c, s) = Leading(b, s)
<1> DEFINE n == Len(b)
           x == Leading(b, s)
           y == Leading(c, s)
<1>1. /\ c \in Seq(Votes) /\ Len(c) = n
      /\ \A k \in 1..n : \E i \in 1..n : c[i] = b[k]
      /\ \A z : Backing(c, z, s) = Backing(b, z, s) /\ Total(c, s) = Total(b, s)
  BY ReorderingsFit
<1>2. PICK k \in 1..n : x = b[k].answer
  BY LeadingLeads
<1>3. PICK i \in 1..n : c[i] = b[k]
  BY <1>1
<1>4. c # <<>>
  BY <1>1
<1>5. Backing(c, x, s) <= Backing(c, y, s)
  <2>1. \A e \in 1..n : Backing(c, c[e].answer, s) <= Backing(c, y, s)
    BY <1>1, <1>4, LeadingLeads
  <2> QED
    BY <1>2, <1>3, <2>1
<1> SUFFICES ASSUME x # y PROVE FALSE
  OBVIOUS
<1>6. /\ Backing(c, x, s) \in Nat /\ Backing(c, y, s) \in Nat /\ Total(c, s) \in Nat
      /\ Backing(c, x, s) + Backing(c, y, s) <= Total(c, s)
  BY <1>1, BackingsFit
<1>7. 2 * Backing(c, x, s) > Total(c, s)
  BY <1>1
<1> HIDE DEF x, y
<1> QED
  BY <1>5, <1>6, <1>7

\* Unanimity does not depend on the order either.
LEMMA UnanimousStays ==
    ASSUME NEW b \in Seq(Votes), NEW c \in Reorderings(b), Unanimous(b)
    PROVE  Unanimous(c) /\ c[1].answer = b[1].answer
<1> DEFINE n == Len(b)
<1>1. /\ c \in Seq(Votes) /\ Len(c) = n /\ n \in Nat /\ n >= 2
      /\ \A i \in 1..n : \E k \in 1..n : c[i] = b[k]
  BY ReorderingsFit, LenProperties DEF Unanimous
<1>2. DOMAIN b = 1..n /\ DOMAIN c = 1..n
  BY <1>1, LenProperties
<1>3. \A k \in 1..n : b[k].answer = b[1].answer
  BY <1>2 DEF Unanimous, ToSet
<1>4. \A i \in 1..n : c[i].answer = b[1].answer
  BY <1>1, <1>3
<1>5. 1 \in 1..n
  BY <1>1
<1>6. c[1].answer = b[1].answer
  BY <1>4, <1>5
<1>7. \A v \in ToSet(c) : v.answer = c[1].answer
  <2>1. ToSet(c) = {c[i] : i \in 1..n}
    BY <1>2 DEF ToSet
  <2> QED
    BY <1>4, <1>6, <2>1
<1>8. Len(c) >= 2
  BY <1>1
<1> QED
  BY <1>6, <1>7, <1>8 DEF Unanimous

LEMMA ConsensusParts ==
    ASSUME NEW r, NEW x, NEW a
    PROVE  Consensus(r, x, a).reached = r /\ Consensus(r, x, a).answer = x
BY DEF Consensus

LEMMA BallotSound == BallotInv => ConsensusOrderFree /\ Len(ballot) <= BallotSize
<1> SUFFICES ASSUME BallotInv,
                    NEW s \in {"majority", "weighted", "expertise", "unanimous"}, Outcome(ballot, s).reached,
                    NEW c \in Reorderings(ballot)
             PROVE  Outcome(c, s).reached /\ Outcome(c, s).answer = Outcome(ballot, s).answer
  BY DEF ConsensusOrderFree, BallotInv
<1> DEFINE b == ballot
<1>1. b \in Seq(Votes)
  BY DEF BallotInv
<1>2. b # <<>>
  <2>1. ~ NoConsensus.reached
    BY ConsensusParts DEF NoConsensus
  <2> QED
    BY <2>1 DEF Outcome
<1> HIDE DEF b
<1>3. c \in Reorderings(b) /\ Outcome(b, s).reached
  BY DEF b
<1>4. c # <<>>
  BY <1>1, <1>2, <1>3, ReorderingsFit
<1>5. CASE s = "unanimous"
  <2>1. ASSUME NEW d, d # <<>>, Unanimous(d)
        PROVE  Outcome(d, s).reached /\ Outcome(d, s).answer = d[1].answer
    <3> DEFINE agent == SurestFor(d, d[1].answer).agent
    <3>1. Outcome(d, s) = Consensus(TRUE, d[1].answer, agent)
      BY <1>5, <2>1 DEF Outcome
    <3> HIDE DEF agent
    <3> QED
      BY <3>1 DEF Consensus
  <2>2. Unanimous(b)
    <3>1. ~ NoConsensus.reached
      BY ConsensusParts DEF NoConsensus
    <3>2. ~Unanimous(b) => Outcome(b, s) = NoConsensus
      BY <1>2, <1>5 DEF Outcome
    <3> QED
      BY <1>3, <3>1, <3>2
  <2>3. Unanimous(c) /\ c[1].answer = b[1].answer
    BY <1>1, <1>3, <2>2, UnanimousStays
  <2>4. Outcome(c, s).reached /\ Outcome(c, s).answer = Outcome(b, s).answer
    BY <1>2, <1>4, <2>1, <2>2, <2>3
  <2> QED
    BY <2>4 DEF b
<1>6. CASE s # "unanimous"
  <2>1. ASSUME NEW d, d # <<>>
        PROVE  /\ Outcome(d, s).reached <=> 2 * Backing(d, Leading(d, s), s) > Total(d, s)
               /\ Outcome(d, s).answer = Leading(d, s)
    <3> DEFINE more == 2 * Backing(d, Leading(d, s), s) > Total(d, s)
               agent == SurestFor(d, Leading(d, s)).agent
    <3>1. s # "best"
      OBVIOUS
    <3>2. Outcome(d, s) = Consensus(more, Leading(d, s), agent)
      BY <1>6, <2>1, <3>1 DEF Outcome
    <3> HIDE DEF more, agent
    <3>3. Outcome(d, s).reached = more /\ Outcome(d, s).answer = Leading(d, s)
      BY <3>2, ConsensusParts
    <3> QED
      BY <3>3 DEF more
  <2>3. 2 * Backing(b, Leading(b, s), s) > Total(b, s)
    BY <1>2, <1>3, <2>1
  <2>4. Leading(c, s) = Leading(b, s)
    BY <1>1, <1>2, <1>3, <2>3, MajorityLeads
  <2>5. /\ Backing(c, Leading(b, s), s) = Backing(b, Leading(b, s), s)
        /\ Total(c, s) = Total(b, s)
    BY <1>1, <1>3, ReorderingsFit
  <2>6. Outcome(c, s).reached /\ Outcome(c, s).answer = Outcome(b, s).answer
    BY <1>2, <1>4, <2>1, <2>3, <2>4, <2>5
  <2> QED
    BY <2>6 DEF b
<1> QED
  BY <1>5, <1>6

-----------------------------------------------------------------------------
(* However late results are reported, a task is handed on a bounded number   *)
(* of times and only good work is done; the board keeps the latest entries   *)
(* and their conflicts; the router accepts no failed subrun; and a consensus *)
(* does not depend on the order of the votes.                                *)
THEOREM CoordinationSoundHolds == SupervisorSpec /\ RouterSpec /\ BallotSpec => []CoordinationSound
<1>1. SupervisorSpec => []SupervisorInv
  BY SupervisorStart, SupervisorKept, PTL DEF SupervisorSpec
<1>2. RouterSpec => []RouterInv
  BY RouterStart, RouterKept, PTL DEF RouterSpec
<1>3. BallotSpec => []BallotInv
  BY BallotKept, PTL DEF BallotSpec
<1>4. SupervisorInv /\ RouterInv /\ BallotInv => CoordinationSound
  <2> SUFFICES ASSUME SupervisorInv, RouterInv, BallotInv PROVE CoordinationSound
    OBVIOUS
  <2>1. GatesHold /\ BoardRemembers /\ RoutingSound /\ ConsensusOrderFree /\ Len(ballot) <= BallotSize
    BY SupervisorSound, RouterSound, BallotSound
  <2>2. /\ session \in {"active", "completed", "failed"}
        /\ \A j \in Jobs : job[j].agent \in AgentsOf \union {NoAgent} /\ Len(board[j]) <= BoardHistory
    BY SupervisorSound
  <2>3. \A a \in AgentsOf : Len(record[a]) <= RecordLength /\ ToSet(record[a]) \subseteq 0..100
    <3> SUFFICES ASSUME NEW a \in AgentsOf
                 PROVE  Len(record[a]) <= RecordLength /\ ToSet(record[a]) \subseteq 0..100
      OBVIOUS
    <3>1. record[a] \in Seq(0..100) /\ Len(record[a]) <= RecordLength
      BY DEF RouterInv, Records
    <3>2. DOMAIN record[a] = 1..Len(record[a]) /\ \A i \in 1..Len(record[a]) : record[a][i] \in 0..100
      BY <3>1, LenProperties, ElementOfSeq
    <3> QED
      BY <3>1, <3>2 DEF ToSet
  <2>4. handover.action \in {"none", "accept", "review", "redelegate", "reject"}
    BY DEF RouterInv
  <2> QED
    BY <2>1, <2>2, <2>3, <2>4 DEF CoordinationSound, CoordinationTypeOK
<1> QED
  BY <1>1, <1>2, <1>3, <1>4, PTL
=============================================================================

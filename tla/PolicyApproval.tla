---------------------------- MODULE PolicyApproval ----------------------------
(***************************************************************************)
(* Asking the user for a tool that policy blocks                           *)
(* (services/policy_approval_service.py), the agent-side handler that      *)
(* waits for the answer (main.py), and the policy hold that makes a parent *)
(* wait while its child waits for the user (orchestrator/subrun_lane.py).  *)
(*                                                                         *)
(* The service's methods are critical sections of one asyncio lock, so     *)
(* each section is one action.  A call is one use of the handler: it looks *)
(* for a standing permission, creates (or joins) a record, prompts, waits  *)
(* for the record's event or for the timeout, and reads the decision.      *)
(* Names are prefixed so that the module can be checked next to others.    *)
(***************************************************************************)
EXTENDS Naturals, FiniteSets

CONSTANTS
    Calls,         \* uses of the handler
    KeyOf,         \* what each call asks for: [run, session, tool, resource]
    Ids,           \* approval ids; their number bounds the records
    Subruns,       \* the runs that are subruns, whose parent may wait on a hold
    UserDecisions, \* the decisions a user sends
    RuleScopes,    \* the scopes of an "always" rule a user sends
    PersistFails,  \* may saving the rules fail?
    MaxRestarts,   \* bound on restarts of the backend
    NoId

Sessions == {KeyOf[c].session : c \in Calls}
Tools == {KeyOf[c].tool : c \in Calls}
Keys == {KeyOf[c] : c \in Calls}
Allowing == {"allow_once", "allow_always", "allow_session"}
Scopes == {"tool_resource", "tool", "session_tool_resource", "session_tool"}

ASSUME ApprovalAssumption ==
    /\ NoId \notin Ids
    /\ UserDecisions \subseteq Allowing \cup {"deny", "cancel"}
    /\ RuleScopes \subseteq Scopes
    /\ PersistFails \in BOOLEAN
    /\ MaxRestarts \in Nat

VARIABLES
    status,       \* _records[id]["status"]; "free" before create, "gone" after eviction
    decision,     \* _records[id]["decision"]
    about,        \* the key the record was created for
    signalled,    \* the ids whose asyncio.Event is set
    sessionAllow, \* _session_allow_all: pairs <<session, tool>>
    rules,        \* _allow_always_rules
    savedRules,   \* the rules in policy_allow_always_rules.json
    callPc,       \* where each call of the handler is
    ticket,       \* the approval id each call waits for
    answer,       \* what the handler returned, or why it did not
    holds,        \* _policy_holds: the subruns with an open hold
    parentPc,     \* the parent in wait_for_policy_hold_clear_or_complete
    restarts,     \* restarts so far
    said          \* ghost: every permission the user ever gave

recordVars == <<status, decision, about, signalled>>
grantVars == <<sessionAllow, rules, savedRules>>
holdVars == <<holds, parentPc>>
approvalVars == <<recordVars, grantVars, callPc, ticket, answer, holdVars, restarts, said>>

ApprovalTypeOK ==
    /\ status \in [Ids -> {"free", "pending", "approved", "denied", "cancelled", "expired", "gone"}]
    /\ decision \in [Ids -> Allowing \cup {"deny", "cancel", "timeout", "none"}]
    /\ about \in [Ids -> Keys \cup {NoId}]
    /\ \A i \in Ids : status[i] # "free" => about[i] \in Keys
    /\ signalled \subseteq Ids
    /\ sessionAllow \subseteq Sessions \X Tools
    /\ callPc \in [Calls -> {"idle", "create", "prompt", "wait", "asleep", "late", "woken", "done"}]
    /\ ticket \in [Calls -> Ids \cup {NoId}]
    /\ \A c \in Calls : callPc[c] \in {"prompt", "wait", "asleep", "late", "woken"} =>
           ticket[c] \in Ids
    /\ answer \in [Calls -> {"none", "allowed", "refused", "timeout", "cancelled", "aborted"}]
    /\ holds \subseteq Subruns
    /\ parentPc \in [Subruns -> {"looking", "subscribed", "held", "cleared", "returned"}]
    /\ restarts \in 0 .. MaxRestarts

ApprovalInit ==
    /\ status = [i \in Ids |-> "free"]
    /\ decision = [i \in Ids |-> "none"]
    /\ about = [i \in Ids |-> NoId]
    /\ signalled = {}
    /\ sessionAllow = {}
    /\ rules = {}
    /\ savedRules = {}
    /\ callPc = [c \in Calls |-> "idle"]
    /\ ticket = [c \in Calls |-> NoId]
    /\ answer = [c \in Calls |-> "none"]
    /\ holds = {}
    /\ parentPc = [r \in Subruns |-> "looking"]
    /\ restarts = 0
    /\ said = {}

-----------------------------------------------------------------------------
(* Standing permissions. *)

PairOf(key) == <<key.session, key.tool>>

(* _normalize_rule: a rule keeps the fields its scope names. *)
RuleFor(scope, key) ==
    [scope |-> scope, tool |-> key.tool,
     resource |-> IF scope \in {"tool_resource", "session_tool_resource"} THEN key.resource ELSE "any",
     session |-> IF scope \in {"session_tool", "session_tool_resource"} THEN key.session ELSE "any"]

RuleMatches(rule, key) ==
    /\ rule.tool = key.tool
    /\ rule.scope \in {"tool_resource", "session_tool_resource"} => rule.resource = key.resource
    /\ rule.scope \in {"session_tool", "session_tool_resource"} => rule.session = key.session

Preapproved(key) ==
    \/ PairOf(key) \in sessionAllow
    \/ \E rule \in rules : RuleMatches(rule, key)

(* _persist_allow_always_rules: written to a temporary file and renamed; an
   error is swallowed and leaves the old file. *)
Persist(newRules) ==
    savedRules' \in {newRules} \cup (IF PersistFails THEN {savedRules} ELSE {})

-----------------------------------------------------------------------------
(* The service. *)

Finish(c, result) ==
    /\ callPc' = [callPc EXCEPT ![c] = "done"]
    /\ answer' = [answer EXCEPT ![c] = result]

(* is_preapproved: the lock is released before create takes it again. *)
CheckStanding(c) ==
    /\ callPc[c] = "idle"
    /\ IF Preapproved(KeyOf[c])
         THEN Finish(c, "allowed")
         ELSE callPc' = [callPc EXCEPT ![c] = "create"] /\ UNCHANGED answer
    /\ UNCHANGED <<recordVars, grantVars, ticket, holdVars, restarts, said>>

(* create: join a pending record with the same key ... *)
JoinRecord(c) ==
    /\ callPc[c] = "create"
    /\ \E i \in Ids :
         /\ status[i] = "pending" /\ about[i] = KeyOf[c]
         /\ ticket' = [ticket EXCEPT ![c] = i]
    /\ callPc' = [callPc EXCEPT ![c] = "prompt"]
    /\ UNCHANGED <<recordVars, grantVars, answer, holdVars, restarts, said>>

(* The records the eviction may find too old.  A record is older than its
   TTL (an hour) only when nobody waits for it any more (half a minute). *)
Stale == {i \in Ids : status[i] \notin {"free", "gone"}
                      /\ \A c \in Calls : ticket[c] = i => callPc[c] = "done"}

(* ... or store a new one and evict the stale ones. *)
CreateRecord(c) ==
    /\ callPc[c] = "create"
    /\ ~ \E i \in Ids : status[i] = "pending" /\ about[i] = KeyOf[c]
    /\ \E j \in Ids : status[j] = "free"
    /\ \E stale \in SUBSET Stale : LET i == CHOOSE j \in Ids : status[j] = "free" IN
         /\ status' = [j \in Ids |-> IF j = i THEN "pending"
                                     ELSE IF j \in stale THEN "gone" ELSE status[j]]
         /\ about' = [about EXCEPT ![i] = KeyOf[c]]
         /\ signalled' = signalled \ stale
         /\ ticket' = [ticket EXCEPT ![c] = i]
    /\ callPc' = [callPc EXCEPT ![c] = "prompt"]
    /\ UNCHANGED <<decision, grantVars, answer, holdVars, restarts, said>>

StatusOf(d) == IF d \in Allowing THEN "approved" ELSE IF d = "deny" THEN "denied" ELSE "cancelled"

CascadeOfTool(pair) == {i \in Ids : status[i] = "pending" /\ about[i].tool = pair[2]}

(* _apply_allow_session_locked: every pending record of the pair. *)
Cascade(pair) == {i \in Ids : status[i] = "pending" /\ PairOf(about[i]) = pair}

Decide(i, d, scope) ==
    /\ status[i] = "pending"
    /\ LET key == about[i]
           also == IF d = "allow_session" THEN Cascade(PairOf(key)) \ {i} ELSE {}
           rule == RuleFor(scope, key)
       IN  /\ status' = [j \in Ids |-> IF j = i THEN StatusOf(d)
                                       ELSE IF j \in also THEN "approved" ELSE status[j]]
           /\ decision' = [j \in Ids |-> IF j = i THEN d
                                         ELSE IF j \in also THEN "allow_session" ELSE decision[j]]
           /\ signalled' = signalled \cup {i} \cup also
           /\ sessionAllow' = IF d = "allow_session" THEN sessionAllow \cup {PairOf(key)}
                              ELSE sessionAllow
           /\ IF d = "allow_always" /\ rule \notin rules
                THEN rules' = rules \cup {rule} /\ Persist(rules \cup {rule})
                ELSE UNCHANGED <<rules, savedRules>>
           /\ said' = said \cup (IF d \in Allowing THEN {<<"key", key>>} ELSE {})
                           \cup (IF d = "allow_session" THEN {<<"pair", PairOf(key)>>} ELSE {})
                           \cup (IF d = "allow_always" THEN {<<"rule", rule>>} ELSE {})
    /\ UNCHANGED <<about, callPc, ticket, answer, holdVars, restarts>>

(* A decision on a record that has one changes nothing, except that
   allow_session still opens the pair and answers its pending records. *)
DecideAgain(i, d) ==
    /\ status[i] \notin {"free", "pending", "gone"}
    /\ d = "allow_session"
    /\ LET pair == PairOf(about[i])
       IN  /\ sessionAllow' = sessionAllow \cup {pair}
           /\ status' = [j \in Ids |-> IF j \in Cascade(pair) THEN "approved" ELSE status[j]]
           /\ decision' = [j \in Ids |-> IF j \in Cascade(pair) THEN "allow_session" ELSE decision[j]]
           /\ signalled' = signalled \cup Cascade(pair)
           /\ said' = said \cup {<<"pair", pair>>}
    /\ UNCHANGED <<about, rules, savedRules, callPc, ticket, answer, holdVars, restarts>>

UserDecides ==
    \E i \in Ids, d \in UserDecisions :
        \/ \E scope \in RuleScopes : Decide(i, d, scope)
        \/ DecideAgain(i, d)

(* clear_session_overrides, when the session's socket closes. *)
ClearSession(s) ==
    /\ LET kept == {rule \in rules : rule.session # s}
       IN  /\ sessionAllow' = {pair \in sessionAllow : pair[1] # s}
           /\ rules' = kept
           /\ IF kept # rules THEN Persist(kept) ELSE UNCHANGED savedRules
    /\ <<sessionAllow, rules>>' # <<sessionAllow, rules>>
    /\ UNCHANGED <<recordVars, callPc, ticket, answer, holdVars, restarts, said>>

-----------------------------------------------------------------------------
(* The handler: _request_policy_override_from_agent. *)

RunOf(c) == KeyOf[c].run

(* mark_policy_hold wakes a subscribed parent, so that it looks again. *)
Wake(r) == [parentPc EXCEPT ![r] = IF @ = "subscribed" THEN "looking" ELSE @]

(* Both prompts are sent, then a subrun marks its hold. *)
Prompt(c) ==
    /\ callPc[c] = "prompt"
    /\ callPc' = [callPc EXCEPT ![c] = "wait"]
    /\ IF RunOf(c) \in Subruns
         THEN holds' = holds \cup {RunOf(c)} /\ parentPc' = Wake(RunOf(c))
         ELSE UNCHANGED holdVars
    /\ UNCHANGED <<recordVars, grantVars, ticket, answer, restarts, said>>

(* wait_for_decision, first section: a decision that is there already is
   taken; "expired" is not one of them. *)
BeginWait(c) ==
    /\ callPc[c] = "wait"
    /\ callPc' = [callPc EXCEPT ![c] =
           IF status[ticket[c]] \in {"approved", "denied", "cancelled"} THEN "woken" ELSE "asleep"]
    /\ UNCHANGED <<recordVars, grantVars, ticket, answer, holdVars, restarts, said>>

Awaken(c) ==
    /\ callPc[c] = "asleep"
    /\ ticket[c] \in signalled
    /\ callPc' = [callPc EXCEPT ![c] = "woken"]
    /\ UNCHANGED <<recordVars, grantVars, ticket, answer, holdVars, restarts, said>>

(* The timer of wait_for fires; the lock is taken only afterwards. *)
TimeOut(c) ==
    /\ callPc[c] = "asleep"
    /\ callPc' = [callPc EXCEPT ![c] = "late"]
    /\ UNCHANGED <<recordVars, grantVars, ticket, answer, holdVars, restarts, said>>

(* release_policy_hold, then the handler's result. *)
Release(c) ==
    IF RunOf(c) \in Subruns
      THEN /\ holds' = holds \ {RunOf(c)}
           /\ parentPc' = [parentPc EXCEPT ![RunOf(c)] =
                IF @ = "held" /\ RunOf(c) \in holds THEN "cleared"
                ELSE IF @ = "subscribed" THEN "looking" ELSE @]
      ELSE UNCHANGED holdVars

ResultOf(d) ==
    IF d \in Allowing THEN "allowed" ELSE IF d = "cancel" THEN "cancelled" ELSE "refused"

TakeDecision(c) ==
    /\ callPc[c] = "woken"
    /\ Finish(c, ResultOf(decision[ticket[c]]))
    /\ Release(c)
    /\ UNCHANGED <<recordVars, grantVars, ticket, restarts, said>>

ExpireUnchecked(c) ==
    /\ callPc[c] = "late"
    /\ status' = [status EXCEPT ![ticket[c]] = "expired"]
    /\ decision' = [decision EXCEPT ![ticket[c]] = "timeout"]
    /\ Finish(c, "timeout")
    /\ Release(c)
    /\ UNCHANGED <<about, signalled, grantVars, ticket, restarts, said>>

(* Late: the record expires if it is still pending; "timeout" is returned in
   either case. *)
Expire(c) ==
    /\ callPc[c] = "late"
    /\ LET i == ticket[c]
       IN  IF status[i] = "pending"
             THEN /\ status' = [status EXCEPT ![i] = "expired"]
                  /\ decision' = [decision EXCEPT ![i] = "timeout"]
             ELSE UNCHANGED <<status, decision>>
    /\ Finish(c, "timeout")
    /\ Release(c)
    /\ UNCHANGED <<about, signalled, grantVars, ticket, restarts, said>>

(* A prompt cannot be sent, or the call's task is cancelled: the handler
   ends where it is and a hold it marked stays. *)
Abort(c) ==
    /\ callPc[c] \notin {"idle", "done"}
    /\ Finish(c, "aborted")
    /\ UNCHANGED <<recordVars, grantVars, ticket, holdVars, restarts, said>>

-----------------------------------------------------------------------------
(* The parent of a subrun: wait_for_policy_hold_clear_or_complete. *)

ChildDone(r) == \A c \in Calls : RunOf(c) = r => callPc[c] = "done"

ParentLooks(r) ==
    /\ parentPc[r] = "looking"
    /\ parentPc' = [parentPc EXCEPT ![r] = IF ChildDone(r) THEN "returned"
                                           ELSE IF r \in holds THEN "held" ELSE "subscribed"]
    /\ UNCHANGED <<recordVars, grantVars, callPc, ticket, answer, holds, restarts, said>>

(* The hold was cleared, or the child ended.  The deadline, which is longer
   than the child's own limit, is left out: the parent needs no timer. *)
ParentReturns(r) ==
    /\ \/ parentPc[r] = "cleared"
       \/ parentPc[r] \in {"held", "subscribed"} /\ ChildDone(r)
    /\ parentPc' = [parentPc EXCEPT ![r] = "returned"]
    /\ UNCHANGED <<recordVars, grantVars, callPc, ticket, answer, holds, restarts, said>>

(* The backend restarts: only the file is left. *)
Restart ==
    /\ restarts < MaxRestarts
    /\ restarts' = restarts + 1
    /\ status' = [i \in Ids |-> IF status[i] = "free" THEN "free" ELSE "gone"]
    /\ signalled' = {}
    /\ sessionAllow' = {}
    /\ rules' = savedRules
    /\ callPc' = [c \in Calls |-> IF callPc[c] = "idle" THEN "idle" ELSE "done"]
    /\ answer' = [c \in Calls |-> IF callPc[c] \in {"idle", "done"} THEN answer[c] ELSE "aborted"]
    /\ holds' = {}
    /\ parentPc' = [r \in Subruns |-> "returned"]
    /\ UNCHANGED <<decision, about, savedRules, ticket, said>>

CallStep(c) ==
    \/ CheckStanding(c) \/ JoinRecord(c) \/ CreateRecord(c) \/ Prompt(c)
    \/ BeginWait(c) \/ Awaken(c) \/ TimeOut(c) \/ TakeDecision(c) \/ Expire(c)

ApprovalNext ==
    \/ \E c \in Calls : CallStep(c) \/ Abort(c)
    \/ UserDecides
    \/ \E s \in Sessions : ClearSession(s)
    \/ \E r \in Subruns : ParentLooks(r) \/ ParentReturns(r)
    \/ Restart

ApprovalSpec == ApprovalInit /\ [][ApprovalNext]_approvalVars

(* The event loop runs a ready call, a due timer and a woken parent. *)
ApprovalFairness ==
    /\ \A c \in Calls : WF_approvalVars(CallStep(c))
    /\ \A r \in Subruns : WF_approvalVars(ParentLooks(r) \/ ParentReturns(r))

-----------------------------------------------------------------------------
(* Properties. *)

(* A tool is let through only if the user permitted it: this request, its
   tool for its session, or a rule that covers it.  Joined records, the
   cascade over a session, a second decision, a restart from the rules file
   and a check made long before all have to respect it. *)
AllowNeedsUser ==
    \A c \in Calls : answer[c] = "allowed" =>
        \/ <<"key", KeyOf[c]>> \in said
        \/ <<"pair", PairOf(KeyOf[c])>> \in said
        \/ \E rule \in {grant[2] : grant \in {g \in said : g[1] = "rule"}} : RuleMatches(rule, KeyOf[c])

(* What the user decided about a record is never replaced: not by a second
   decision, a late timeout, or the cascade of another record. *)
DecisionFinal ==
    [][\A i \in Ids : status[i] \in {"approved", "denied", "cancelled"} =>
          \/ status'[i] = "gone"
          \/ status'[i] = status[i] /\ decision'[i] = decision[i]]_approvalVars

(* A standing permission was given by the user, also after a restart: the
   rules file holds no rule the user did not ask for. *)
GrantsWereGiven ==
    /\ \A pair \in sessionAllow : <<"pair", pair>> \in said
    /\ \A rule \in rules \cup savedRules : <<"rule", rule>> \in said

(* An open hold belongs to a call that still waits for the user, or to one
   that was cut short: no parent is held for a request that was decided. *)
HoldMeansWaiting ==
    \A r \in holds : \E c \in Calls :
        /\ RunOf(c) = r
        /\ callPc[c] \in {"wait", "asleep", "late", "woken"} \/ answer[c] = "aborted"

(* A parent asleep on a hold sleeps on the hold that is open (release pops
   the hold and sets its event; the parent looked it up earlier). *)
HeldParentHasHold == \A r \in Subruns : parentPc[r] = "held" => r \in holds

(* Nothing is let through and no permission stands that the user did not
   give, and no parent is held for a request that was decided: the tools let
   through, the standing permissions and the holds together. *)
PermissionsGiven ==
    ApprovalTypeOK /\ AllowNeedsUser /\ GrantsWereGiven /\ HoldMeansWaiting /\ HeldParentHasHold

(* At rest: every request for permission that was begun has ended, and so
   has the wait of every parent whose child's requests are over. *)
ApprovalQuiet ==
    /\ \A c \in Calls : callPc[c] \in {"idle", "done"}
    /\ \A r \in Subruns : ChildDone(r) => parentPc[r] = "returned"
=============================================================================

--------------------------- MODULE Serving_proofs ---------------------------
(***************************************************************************)
(* What agents may do and what serves them, for any number of calls,       *)
(* records, agents, settings, models, clients, commands, requests and      *)
(* tools.  Permissions: what is let through and what stands was given by   *)
(* the user, and what the user decided is never replaced.  The agents: the *)
(* builtins keep their floors, the registry follows the records, and a     *)
(* message goes to an agent that is there.  Then settings, the hosts of    *)
(* tools, the calls of models, and what is remembered of runs and tools.   *)
(***************************************************************************)
EXTENDS PolicyApproval, AgentCatalog, Serving, Lists_proofs

Attached == {"prompt", "wait", "asleep", "late", "woken"}

\* A call waits on a record made for its own key, and it has no answer yet.
Joined ==
    \A c \in Calls :
        /\ callPc[c] \in Attached =>
              status[ticket[c]] # "free" /\ about[ticket[c]] = KeyOf[c]
        /\ callPc[c] # "done" => answer[c] = "none"

\* An allowing decision was spoken about the record's key or its pair, and a
\* record that is not in use has none.
Decided ==
    \A i \in Ids :
        /\ decision[i] \in Allowing =>
              <<"key", about[i]>> \in said \/ <<"pair", PairOf(about[i])>> \in said
        /\ status[i] = "free" => decision[i] = "none"

\* The inductive invariant.
IInv == PermissionsGiven /\ Joined /\ Decided

LEMMA InitIInv == ApprovalInit => IInv
BY ApprovalAssumption
   DEF ApprovalInit, IInv, PermissionsGiven, ApprovalTypeOK, AllowNeedsUser, GrantsWereGiven,
       HoldMeansWaiting, HeldParentHasHold, Joined, Decided, Attached, Allowing

-----------------------------------------------------------------------------
(* What a call was permitted stays permitted while more is said. *)

Permitted(c, words) ==
    \/ <<"key", KeyOf[c]>> \in words
    \/ <<"pair", PairOf(KeyOf[c])>> \in words
    \/ \E rule \in {grant[2] : grant \in {g \in words : g[1] = "rule"}} : RuleMatches(rule, KeyOf[c])

LEMMA PermittedGrows ==
    ASSUME NEW c, NEW more, said \subseteq more, Permitted(c, said)
    PROVE  Permitted(c, more)
BY DEF Permitted

\* A step that answers nobody "allowed" and takes back no word.
LEMMA NobodyAllowed ==
    ASSUME AllowNeedsUser, said \subseteq said',
           \A c \in Calls : answer'[c] = "allowed" => answer[c] = "allowed"
    PROVE  AllowNeedsUser'
<1> SUFFICES ASSUME NEW c \in Calls, answer'[c] = "allowed"
             PROVE  Permitted(c, said')
  BY DEF AllowNeedsUser, Permitted, PairOf, RuleMatches
<1>1. Permitted(c, said)
  BY DEF AllowNeedsUser, Permitted
<1> QED
  BY <1>1, PermittedGrows

\* A step that answers only call c, with something it was permitted.
LEMMA OneAllowed ==
    ASSUME AllowNeedsUser, said' = said, NEW c \in Calls, Permitted(c, said),
           \A d \in Calls \ {c} : answer'[d] = answer[d]
    PROVE  AllowNeedsUser'
BY DEF AllowNeedsUser, Permitted, PairOf, RuleMatches

LEMMA StandingPermits ==
    ASSUME GrantsWereGiven, NEW c \in Calls, Preapproved(KeyOf[c])
    PROVE  Permitted(c, said)
<1>1. CASE PairOf(KeyOf[c]) \in sessionAllow
  BY <1>1 DEF GrantsWereGiven, Permitted
<1>2. CASE \E rule \in rules : RuleMatches(rule, KeyOf[c])
  <2>1. PICK rule \in rules : RuleMatches(rule, KeyOf[c])
    BY <1>2
  <2>2. <<"rule", rule>> \in said
    BY DEF GrantsWereGiven
  <2>3. <<"rule", rule>>[1] = "rule" /\ <<"rule", rule>>[2] = rule
    OBVIOUS
  <2> QED
    BY <2>1, <2>2, <2>3 DEF Permitted
<1> QED
  BY <1>1, <1>2 DEF Preapproved

-----------------------------------------------------------------------------
(* The steps of a call *)

\* The end of a call gives back the hold of its run and nothing else.
LEMMA ReleaseSound ==
    ASSUME IInv, NEW c \in Calls, Release(c),
           NEW result \in {"allowed", "refused", "timeout", "cancelled"},
           callPc[c] \in Attached, Finish(c, result)
    PROVE  /\ HoldMeansWaiting' /\ HeldParentHasHold'
           /\ holds' \subseteq Subruns
           /\ parentPc' \in [Subruns -> {"looking", "subscribed", "held", "cleared", "returned"}]
           /\ callPc' \in [Calls -> {"idle", "create", "prompt", "wait", "asleep", "late", "woken", "done"}]
           /\ answer' \in [Calls -> {"none", "allowed", "refused", "timeout", "cancelled", "aborted"}]
<1> USE DEF IInv, PermissionsGiven, ApprovalTypeOK
<1>1. HoldMeansWaiting'
  <2> SUFFICES ASSUME NEW r \in holds'
               PROVE  \E d \in Calls : /\ RunOf(d) = r
                                       /\ callPc'[d] \in {"wait", "asleep", "late", "woken"}
                                            \/ answer'[d] = "aborted"
    BY DEF HoldMeansWaiting, RunOf
  <2>1. r \in holds
    BY DEF Release, holdVars
  <2>2. PICK d \in Calls : /\ RunOf(d) = r
                           /\ callPc[d] \in {"wait", "asleep", "late", "woken"} \/ answer[d] = "aborted"
    BY <2>1 DEF HoldMeansWaiting
  <2>3. RunOf(c) \in Subruns => RunOf(c) # r
    BY DEF Release, holdVars
  <2>4. r \in Subruns
    BY <2>1
  <2>5. d # c
    BY <2>2, <2>3, <2>4
  <2> QED
    BY <2>2, <2>5 DEF Finish
<1>2. HeldParentHasHold'
  BY DEF HeldParentHasHold, Release, holdVars
<1>3. holds' \subseteq Subruns
  BY DEF Release, holdVars
<1>4. parentPc' \in [Subruns -> {"looking", "subscribed", "held", "cleared", "returned"}]
  BY DEF Release, holdVars
<1>5. callPc' \in [Calls -> {"idle", "create", "prompt", "wait", "asleep", "late", "woken", "done"}]
  BY DEF Finish
<1>6. answer' \in [Calls -> {"none", "allowed", "refused", "timeout", "cancelled", "aborted"}]
  BY DEF Finish
<1> QED
  BY <1>1, <1>2, <1>3, <1>4, <1>5, <1>6

\* A call that only moves on, attached to the record it already had.
LEMMA MoveSound ==
    ASSUME IInv, NEW c \in Calls, NEW pc \in {"wait", "asleep", "late", "woken"},
           callPc[c] \in {"prompt", "wait", "asleep"}, callPc' = [callPc EXCEPT ![c] = pc],
           UNCHANGED <<recordVars, grantVars, ticket, answer, restarts, said>>,
           HoldMeansWaiting', HeldParentHasHold', holds' \subseteq Subruns,
           parentPc' \in [Subruns -> {"looking", "subscribed", "held", "cleared", "returned"}]
    PROVE  IInv'
<1> USE DEF IInv, PermissionsGiven, recordVars, grantVars
<1>1. ApprovalTypeOK'
  BY DEF ApprovalTypeOK
<1>2. AllowNeedsUser'
  BY NobodyAllowed
<1>3. GrantsWereGiven'
  BY DEF GrantsWereGiven
<1>4. Joined'
  BY DEF Joined, Attached, ApprovalTypeOK
<1>5. Decided'
  BY DEF Decided, PairOf
<1> QED
  BY <1>1, <1>2, <1>3, <1>4, <1>5

LEMMA CheckStandingSound == ASSUME IInv, NEW c \in Calls, CheckStanding(c) PROVE IInv'
<1> USE DEF IInv, PermissionsGiven, CheckStanding, recordVars, grantVars, holdVars
<1>1. ApprovalTypeOK'
  BY DEF ApprovalTypeOK, Finish
<1>2. AllowNeedsUser'
  <2>1. CASE Preapproved(KeyOf[c])
    BY <2>1, StandingPermits, OneAllowed DEF Finish, ApprovalTypeOK
  <2>2. CASE ~Preapproved(KeyOf[c])
    BY <2>2, NobodyAllowed
  <2> QED
    BY <2>1, <2>2
<1>3. GrantsWereGiven'
  BY DEF GrantsWereGiven
<1>4. HoldMeansWaiting'
  BY DEF HoldMeansWaiting, Finish, Joined, ApprovalTypeOK, RunOf
<1>5. HeldParentHasHold'
  BY DEF HeldParentHasHold
<1>6. Joined'
  BY DEF Joined, Attached, Finish, ApprovalTypeOK
<1>7. Decided'
  BY DEF Decided, PairOf
<1> QED
  BY <1>1, <1>2, <1>3, <1>4, <1>5, <1>6, <1>7

LEMMA JoinRecordSound == ASSUME IInv, NEW c \in Calls, JoinRecord(c) PROVE IInv'
<1> USE DEF IInv, PermissionsGiven, JoinRecord, recordVars, grantVars, holdVars
<1>1. ApprovalTypeOK'
  BY DEF ApprovalTypeOK
<1>2. AllowNeedsUser'
  BY NobodyAllowed
<1>3. GrantsWereGiven'
  BY DEF GrantsWereGiven
<1>4. HoldMeansWaiting'
  BY DEF HoldMeansWaiting, ApprovalTypeOK, RunOf
<1>5. HeldParentHasHold'
  BY DEF HeldParentHasHold
<1>6. Joined'
  BY DEF Joined, Attached, ApprovalTypeOK
<1>7. Decided'
  BY DEF Decided, PairOf
<1> QED
  BY <1>1, <1>2, <1>3, <1>4, <1>5, <1>6, <1>7

\* A fresh record is nobody's ticket, and a stale one is not either.
LEMMA CreateRecordSound == ASSUME IInv, NEW c \in Calls, CreateRecord(c) PROVE IInv'
<1> USE DEF IInv, PermissionsGiven, CreateRecord, grantVars, holdVars
<1> DEFINE i == CHOOSE j \in Ids : status[j] = "free"
<1>0. i \in Ids /\ status[i] = "free"
  OBVIOUS
<1>1. PICK stale \in SUBSET Stale :
         /\ status' = [j \in Ids |-> IF j = i THEN "pending"
                                     ELSE IF j \in stale THEN "gone" ELSE status[j]]
         /\ about' = [about EXCEPT ![i] = KeyOf[c]]
         /\ signalled' = signalled \ stale
         /\ ticket' = [ticket EXCEPT ![c] = i]
  OBVIOUS
<1> HIDE DEF i
<1>2. ApprovalTypeOK'
  BY <1>0, <1>1 DEF ApprovalTypeOK, Keys
<1>3. AllowNeedsUser'
  BY NobodyAllowed
<1>4. GrantsWereGiven'
  BY DEF GrantsWereGiven
<1>5. HoldMeansWaiting'
  BY DEF HoldMeansWaiting, ApprovalTypeOK, RunOf
<1>6. HeldParentHasHold'
  BY DEF HeldParentHasHold
<1>7. Joined'
  <2> SUFFICES ASSUME NEW d \in Calls
               PROVE  /\ callPc'[d] \in Attached =>
                            status'[ticket'[d]] # "free" /\ about'[ticket'[d]] = KeyOf[d]
                      /\ callPc'[d] # "done" => answer'[d] = "none"
    BY DEF Joined
  <2>1. CASE d = c
    BY <1>0, <1>1, <2>1 DEF Joined, Attached, ApprovalTypeOK
  <2>2. CASE d # c
    BY <1>0, <1>1, <2>2 DEF Joined, Attached, ApprovalTypeOK, Stale
  <2> QED
    BY <2>1, <2>2
<1>8. Decided'
  <2> SUFFICES ASSUME NEW k \in Ids
               PROVE  /\ decision'[k] \in Allowing =>
                            <<"key", about'[k]>> \in said' \/ <<"pair", PairOf(about'[k])>> \in said'
                      /\ status'[k] = "free" => decision'[k] = "none"
    BY DEF Decided, PairOf
  <2>1. said' = said /\ decision' = decision
    OBVIOUS
  <2>2. CASE k = i
    BY <1>0, <2>1, <2>2 DEF Decided, Allowing
  <2>3. CASE k # i
    <3>1. about'[k] = about[k] /\ (status'[k] = "free" => status[k] = "free")
      BY <1>0, <1>1, <2>3 DEF ApprovalTypeOK
    <3> QED
      BY <2>1, <3>1 DEF Decided
  <2> QED
    BY <2>2, <2>3
<1> QED
  BY <1>2, <1>3, <1>4, <1>5, <1>6, <1>7, <1>8

LEMMA PromptSound == ASSUME IInv, NEW c \in Calls, Prompt(c) PROVE IInv'
<1> USE DEF IInv, PermissionsGiven, ApprovalTypeOK, Prompt, holdVars
<1>1. HoldMeansWaiting'
  BY DEF HoldMeansWaiting, RunOf
<1>2. HeldParentHasHold'
  BY DEF HeldParentHasHold, Wake
<1>3. holds' \subseteq Subruns
       /\ parentPc' \in [Subruns -> {"looking", "subscribed", "held", "cleared", "returned"}]
  BY DEF Wake
<1> HIDE DEF IInv, PermissionsGiven, ApprovalTypeOK
<1> QED
  BY <1>1, <1>2, <1>3, MoveSound

LEMMA WaitSound ==
    ASSUME IInv, NEW c \in Calls, BeginWait(c) \/ Awaken(c) \/ TimeOut(c) PROVE IInv'
<1>1. PICK pc \in {"asleep", "late", "woken"} :
         callPc[c] \in {"wait", "asleep"} /\ callPc' = [callPc EXCEPT ![c] = pc]
  BY DEF BeginWait, Awaken, TimeOut
<1>2. UNCHANGED <<recordVars, grantVars, ticket, answer, holdVars, restarts, said>>
  BY DEF BeginWait, Awaken, TimeOut
<1>3. HoldMeansWaiting'
  BY <1>1, <1>2 DEF HoldMeansWaiting, RunOf, holdVars, IInv, PermissionsGiven, ApprovalTypeOK
<1>4. HeldParentHasHold' /\ holds' \subseteq Subruns
       /\ parentPc' \in [Subruns -> {"looking", "subscribed", "held", "cleared", "returned"}]
  BY <1>2 DEF HeldParentHasHold, holdVars, IInv, PermissionsGiven, ApprovalTypeOK
<1> QED
  BY <1>1, <1>2, <1>3, <1>4, MoveSound

\* The decision a woken call reads was spoken about its key, which is the
\* record's.
LEMMA TakeDecisionSound == ASSUME IInv, NEW c \in Calls, TakeDecision(c) PROVE IInv'
<1> DEFINE result == ResultOf(decision[ticket[c]])
<1>0. result \in {"allowed", "refused", "cancelled"} /\ Finish(c, result) /\ Release(c)
       /\ callPc[c] \in Attached /\ ticket[c] \in Ids
  BY DEF TakeDecision, ResultOf, Attached, IInv, PermissionsGiven, ApprovalTypeOK
<1>1. result = "allowed" => Permitted(c, said)
  BY <1>0 DEF ResultOf, IInv, Decided, Joined, Permitted
<1> HIDE DEF result
<1>2. UNCHANGED <<recordVars, grantVars, ticket, restarts, said>>
  BY DEF TakeDecision
<1>3. /\ HoldMeansWaiting' /\ HeldParentHasHold'
      /\ holds' \subseteq Subruns
      /\ parentPc' \in [Subruns -> {"looking", "subscribed", "held", "cleared", "returned"}]
      /\ callPc' \in [Calls -> {"idle", "create", "prompt", "wait", "asleep", "late", "woken", "done"}]
      /\ answer' \in [Calls -> {"none", "allowed", "refused", "timeout", "cancelled", "aborted"}]
  BY <1>0, ReleaseSound
<1> USE DEF IInv, PermissionsGiven, recordVars, grantVars
<1>4. ApprovalTypeOK'
  BY <1>0, <1>2, <1>3 DEF ApprovalTypeOK, Finish
<1>5. AllowNeedsUser'
  <2>1. CASE result = "allowed"
    BY <1>0, <1>1, <1>2, <2>1, OneAllowed DEF Finish, ApprovalTypeOK
  <2>2. CASE result # "allowed"
    BY <1>0, <1>2, <2>2, NobodyAllowed DEF Finish, ApprovalTypeOK
  <2> QED
    BY <2>1, <2>2
<1>6. GrantsWereGiven'
  BY <1>2 DEF GrantsWereGiven
<1>7. Joined'
  BY <1>0, <1>2 DEF Joined, Attached, Finish, ApprovalTypeOK
<1>8. Decided'
  BY <1>2 DEF Decided, PairOf
<1> QED
  BY <1>3, <1>4, <1>5, <1>6, <1>7, <1>8

LEMMA ExpireSound == ASSUME IInv, NEW c \in Calls, Expire(c) PROVE IInv'
<1>0. Finish(c, "timeout") /\ Release(c) /\ callPc[c] \in Attached /\ ticket[c] \in Ids
  BY DEF Expire, Attached, IInv, PermissionsGiven, ApprovalTypeOK
<1>1. /\ UNCHANGED <<about, signalled, grantVars, ticket, restarts, said>>
      /\ \A i \in Ids : \/ status'[i] = status[i] /\ decision'[i] = decision[i]
                        \/ status[i] = "pending" /\ status'[i] = "expired" /\ decision'[i] = "timeout"
      /\ status' \in [Ids -> {"free", "pending", "approved", "denied", "cancelled", "expired", "gone"}]
      /\ decision' \in [Ids -> Allowing \cup {"deny", "cancel", "timeout", "none"}]
  BY <1>0 DEF Expire, IInv, PermissionsGiven, ApprovalTypeOK
<1>2. /\ HoldMeansWaiting' /\ HeldParentHasHold'
      /\ holds' \subseteq Subruns
      /\ parentPc' \in [Subruns -> {"looking", "subscribed", "held", "cleared", "returned"}]
      /\ callPc' \in [Calls -> {"idle", "create", "prompt", "wait", "asleep", "late", "woken", "done"}]
      /\ answer' \in [Calls -> {"none", "allowed", "refused", "timeout", "cancelled", "aborted"}]
  BY <1>0, ReleaseSound
<1> USE DEF IInv, PermissionsGiven, grantVars
<1>3. ApprovalTypeOK'
  BY <1>0, <1>1, <1>2 DEF ApprovalTypeOK, Finish
<1>4. AllowNeedsUser'
  BY <1>0, <1>1, NobodyAllowed DEF Finish, ApprovalTypeOK
<1>5. GrantsWereGiven'
  BY <1>1 DEF GrantsWereGiven
<1>6. Joined'
  BY <1>0, <1>1 DEF Joined, Attached, Finish, ApprovalTypeOK
<1>7. Decided'
  BY <1>1 DEF Decided, PairOf, Allowing
<1> QED
  BY <1>2, <1>3, <1>4, <1>5, <1>6, <1>7

LEMMA AbortSound == ASSUME IInv, NEW c \in Calls, Abort(c) PROVE IInv'
<1> USE DEF IInv, PermissionsGiven, Abort, Finish, recordVars, grantVars, holdVars
<1>1. ApprovalTypeOK'
  BY DEF ApprovalTypeOK
<1>2. AllowNeedsUser'
  BY NobodyAllowed DEF ApprovalTypeOK
<1>3. GrantsWereGiven'
  BY DEF GrantsWereGiven
<1>4. HoldMeansWaiting'
  BY DEF HoldMeansWaiting, ApprovalTypeOK, RunOf
<1>5. HeldParentHasHold'
  BY DEF HeldParentHasHold
<1>6. Joined'
  BY DEF Joined, Attached, ApprovalTypeOK
<1>7. Decided'
  BY DEF Decided, PairOf
<1> QED
  BY <1>1, <1>2, <1>3, <1>4, <1>5, <1>6, <1>7

-----------------------------------------------------------------------------
(* The user, the parents and the process *)

\* What a decision does to the records: it answers pending ones only, with
\* words that are then said about their keys or pairs.
Answered ==
    /\ \A i \in Ids :
          \/ status'[i] = status[i] /\ decision'[i] = decision[i]
          \/ /\ status[i] = "pending" /\ status'[i] \in {"approved", "denied", "cancelled"}
             /\ decision'[i] \in Allowing \cup {"deny", "cancel"}
             /\ decision'[i] \in Allowing =>
                   <<"key", about[i]>> \in said' \/ <<"pair", PairOf(about[i])>> \in said'
    /\ status' \in [Ids -> {"free", "pending", "approved", "denied", "cancelled", "expired", "gone"}]
    /\ decision' \in [Ids -> Allowing \cup {"deny", "cancel", "timeout", "none"}]
    /\ signalled' \subseteq Ids /\ sessionAllow' \subseteq Sessions \X Tools
    /\ said \subseteq said'
    /\ \A pair \in sessionAllow' : pair \in sessionAllow \/ <<"pair", pair>> \in said'
    /\ \A rule \in rules' \cup savedRules' :
          rule \in rules \cup savedRules \/ <<"rule", rule>> \in said'
    /\ UNCHANGED <<about, callPc, ticket, answer, holdVars, restarts>>

LEMMA PairsTyped ==
    ASSUME ApprovalTypeOK, NEW i \in Ids, status[i] # "free"
    PROVE  PairOf(about[i]) \in Sessions \X Tools
BY DEF ApprovalTypeOK, PairOf, Sessions, Tools, Keys

LEMMA DecideAnswers ==
    ASSUME IInv, NEW i \in Ids, NEW d \in UserDecisions, NEW scope \in RuleScopes, Decide(i, d, scope)
    PROVE  Answered
<1> DEFINE key == about[i]
           also == IF d = "allow_session" THEN Cascade(PairOf(key)) \ {i} ELSE {}
           rule == RuleFor(scope, key)
<1>1. /\ status' = [j \in Ids |-> IF j = i THEN StatusOf(d)
                                  ELSE IF j \in also THEN "approved" ELSE status[j]]
      /\ decision' = [j \in Ids |-> IF j = i THEN d
                                    ELSE IF j \in also THEN "allow_session" ELSE decision[j]]
      /\ signalled' = signalled \cup {i} \cup also
      /\ sessionAllow' = IF d = "allow_session" THEN sessionAllow \cup {PairOf(key)} ELSE sessionAllow
  BY DEF Decide
<1>2. said' = said \cup (IF d \in Allowing THEN {<<"key", key>>} ELSE {})
                  \cup (IF d = "allow_session" THEN {<<"pair", PairOf(key)>>} ELSE {})
                  \cup (IF d = "allow_always" THEN {<<"rule", rule>>} ELSE {})
  BY DEF Decide
<1>3. IF d = "allow_always" /\ rule \notin rules
        THEN rules' = rules \cup {rule} /\ Persist(rules \cup {rule})
        ELSE UNCHANGED <<rules, savedRules>>
  BY DEF Decide
<1>4. status[i] = "pending" /\ UNCHANGED <<about, callPc, ticket, answer, holdVars, restarts>>
  BY DEF Decide
<1>5. PairOf(key) \in Sessions \X Tools
  BY <1>4, PairsTyped DEF IInv, PermissionsGiven
<1>6. \A j \in also : j \in Ids /\ status[j] = "pending" /\ PairOf(about[j]) = PairOf(key)
                       /\ d = "allow_session"
  BY DEF Cascade
<1> HIDE DEF key, also, rule
<1>7. \A rl \in rules' \cup savedRules' :
         rl \in rules \cup savedRules \/ <<"rule", rl>> \in said'
  BY <1>2, <1>3 DEF Persist
<1>8. \A j \in Ids :
          \/ status'[j] = status[j] /\ decision'[j] = decision[j]
          \/ /\ status[j] = "pending" /\ status'[j] \in {"approved", "denied", "cancelled"}
             /\ decision'[j] \in Allowing \cup {"deny", "cancel"}
             /\ decision'[j] \in Allowing =>
                   <<"key", about[j]>> \in said' \/ <<"pair", PairOf(about[j])>> \in said'
  <2> SUFFICES ASSUME NEW j \in Ids, j = i \/ j \in also
               PROVE  /\ status[j] = "pending" /\ status'[j] \in {"approved", "denied", "cancelled"}
                      /\ decision'[j] \in Allowing \cup {"deny", "cancel"}
                      /\ decision'[j] \in Allowing =>
                            <<"key", about[j]>> \in said' \/ <<"pair", PairOf(about[j])>> \in said'
    BY <1>1
  <2>1. CASE j = i
    BY <1>1, <1>2, <1>4, <2>1, ApprovalAssumption DEF StatusOf, Allowing, key
  <2>2. CASE j # i
    BY <1>1, <1>2, <1>6, <2>2 DEF Allowing
  <2> QED
    BY <2>1, <2>2
<1>9. signalled' \subseteq Ids /\ sessionAllow' \subseteq Sessions \X Tools
  BY <1>1, <1>5, <1>6 DEF IInv, PermissionsGiven, ApprovalTypeOK
<1>10. \A pair \in sessionAllow' : pair \in sessionAllow \/ <<"pair", pair>> \in said'
  BY <1>1, <1>2
<1>11. /\ status' \in [Ids -> {"free", "pending", "approved", "denied", "cancelled", "expired", "gone"}]
       /\ decision' \in [Ids -> Allowing \cup {"deny", "cancel", "timeout", "none"}]
  BY <1>1, ApprovalAssumption DEF IInv, PermissionsGiven, ApprovalTypeOK, StatusOf, Allowing
<1> QED
  BY <1>2, <1>4, <1>7, <1>8, <1>9, <1>10, <1>11 DEF Answered

LEMMA DecideAgainAnswers ==
    ASSUME IInv, NEW i \in Ids, NEW d \in UserDecisions, DecideAgain(i, d)
    PROVE  Answered
<1> DEFINE pair == PairOf(about[i])
<1>1. /\ sessionAllow' = sessionAllow \cup {pair}
      /\ status' = [j \in Ids |-> IF j \in Cascade(pair) THEN "approved" ELSE status[j]]
      /\ decision' = [j \in Ids |-> IF j \in Cascade(pair) THEN "allow_session" ELSE decision[j]]
      /\ signalled' = signalled \cup Cascade(pair)
      /\ said' = said \cup {<<"pair", pair>>}
      /\ UNCHANGED <<about, rules, savedRules, callPc, ticket, answer, holdVars, restarts>>
  BY DEF DecideAgain
<1>2. pair \in Sessions \X Tools
  BY PairsTyped DEF DecideAgain, IInv, PermissionsGiven
<1>3. \A j \in Cascade(pair) : j \in Ids /\ status[j] = "pending" /\ PairOf(about[j]) = pair
  BY DEF Cascade
<1> HIDE DEF pair
<1> QED
  BY <1>1, <1>2, <1>3 DEF Answered, Allowing, IInv, PermissionsGiven, ApprovalTypeOK

LEMMA AnsweredSound == ASSUME IInv, Answered PROVE IInv'
<1> USE DEF IInv, PermissionsGiven, Answered, holdVars
<1>0. \A i \in Ids : status'[i] = "free" <=> status[i] = "free"
  OBVIOUS
<1>1. ApprovalTypeOK'
  BY <1>0 DEF ApprovalTypeOK
<1>2. AllowNeedsUser'
  BY NobodyAllowed
<1>3. GrantsWereGiven'
  BY DEF GrantsWereGiven
<1>4. HoldMeansWaiting'
  BY DEF HoldMeansWaiting, RunOf
<1>5. HeldParentHasHold'
  BY DEF HeldParentHasHold
<1>6. Joined'
  BY <1>0 DEF Joined, Attached, ApprovalTypeOK
<1>7. Decided'
  BY DEF Decided, PairOf
<1> QED
  BY <1>1, <1>2, <1>3, <1>4, <1>5, <1>6, <1>7

LEMMA ClearSessionSound == ASSUME IInv, NEW s \in Sessions, ClearSession(s) PROVE IInv'
<1> USE DEF IInv, PermissionsGiven, ClearSession, recordVars, holdVars
<1>1. ApprovalTypeOK'
  BY DEF ApprovalTypeOK
<1>2. AllowNeedsUser'
  BY NobodyAllowed
<1>3. GrantsWereGiven'
  BY DEF GrantsWereGiven, Persist
<1>4. HoldMeansWaiting'
  BY DEF HoldMeansWaiting, RunOf
<1>5. HeldParentHasHold'
  BY DEF HeldParentHasHold
<1>6. Joined'
  BY DEF Joined, Attached
<1>7. Decided'
  BY DEF Decided, PairOf
<1> QED
  BY <1>1, <1>2, <1>3, <1>4, <1>5, <1>6, <1>7

LEMMA ParentSound ==
    ASSUME IInv, NEW r \in Subruns, ParentLooks(r) \/ ParentReturns(r) PROVE IInv'
<1>1. /\ UNCHANGED <<recordVars, grantVars, callPc, ticket, answer, holds, restarts, said>>
      /\ \E pc \in {"returned", "held", "subscribed"} :
            parentPc' = [parentPc EXCEPT ![r] = pc] /\ (pc = "held" => r \in holds)
  BY DEF ParentLooks, ParentReturns
<1> USE DEF IInv, PermissionsGiven, recordVars, grantVars
<1>2. ApprovalTypeOK'
  BY <1>1 DEF ApprovalTypeOK
<1>3. AllowNeedsUser'
  BY <1>1, NobodyAllowed
<1>4. GrantsWereGiven'
  BY <1>1 DEF GrantsWereGiven
<1>5. HoldMeansWaiting'
  BY <1>1 DEF HoldMeansWaiting, RunOf
<1>6. HeldParentHasHold'
  BY <1>1 DEF HeldParentHasHold, ApprovalTypeOK
<1>7. Joined'
  BY <1>1 DEF Joined, Attached
<1>8. Decided'
  BY <1>1 DEF Decided, PairOf
<1> QED
  BY <1>2, <1>3, <1>4, <1>5, <1>6, <1>7, <1>8

LEMMA RestartSound == ASSUME IInv, Restart PROVE IInv'
<1> USE DEF IInv, PermissionsGiven, Restart
<1>1. ApprovalTypeOK'
  BY ApprovalAssumption DEF ApprovalTypeOK
<1>2. AllowNeedsUser'
  BY NobodyAllowed
<1>3. GrantsWereGiven'
  BY DEF GrantsWereGiven
<1>4. HoldMeansWaiting'
  BY DEF HoldMeansWaiting
<1>5. HeldParentHasHold'
  BY DEF HeldParentHasHold
<1>6. Joined'
  BY DEF Joined, Attached, ApprovalTypeOK
<1>7. Decided'
  BY DEF Decided, PairOf, ApprovalTypeOK
<1> QED
  BY <1>1, <1>2, <1>3, <1>4, <1>5, <1>6, <1>7

-----------------------------------------------------------------------------
(* The theorems *)

LEMMA NextSound == ASSUME IInv, [ApprovalNext]_approvalVars PROVE IInv'
<1>1. CASE UNCHANGED approvalVars
  BY <1>1 DEF approvalVars, recordVars, grantVars, holdVars, IInv, PermissionsGiven, ApprovalTypeOK,
              AllowNeedsUser, GrantsWereGiven, HoldMeansWaiting, HeldParentHasHold, Joined, Decided,
              PairOf, RunOf, RuleMatches, Attached
<1>2. CASE \E c \in Calls : CallStep(c) \/ Abort(c)
  BY <1>2, CheckStandingSound, JoinRecordSound, CreateRecordSound, PromptSound, WaitSound,
     TakeDecisionSound, ExpireSound, AbortSound DEF CallStep
<1>3. CASE UserDecides
  BY <1>3, DecideAnswers, DecideAgainAnswers, AnsweredSound DEF UserDecides
<1>4. CASE \E s \in Sessions : ClearSession(s)
  BY <1>4, ClearSessionSound
<1>5. CASE \E r \in Subruns : ParentLooks(r) \/ ParentReturns(r)
  BY <1>5, ParentSound
<1>6. CASE Restart
  BY <1>6, RestartSound
<1> QED
  BY <1>1, <1>2, <1>3, <1>4, <1>5, <1>6 DEF ApprovalNext

LEMMA Invariance == ApprovalSpec => []IInv
<1>1. ApprovalInit => IInv
  BY InitIInv
<1>2. IInv /\ [ApprovalNext]_approvalVars => IInv'
  BY NextSound
<1> QED
  BY <1>1, <1>2, PTL DEF ApprovalSpec

\* For any number of calls, records, sessions and rules, with rules that are
\* not saved and with restarts: no tool is let through, no permission stands
\* and no parent is held that the user's words do not account for.
THEOREM PermissionsGivenHolds == ApprovalSpec => []PermissionsGiven
<1>1. IInv => PermissionsGiven
  BY DEF IInv
<1> QED
  BY <1>1, Invariance, PTL

\* No step replaces a decision of the user: a record that has one keeps it
\* until it is evicted.
THEOREM DecisionFinalHolds == ApprovalSpec => DecisionFinal
<1> DEFINE Kept == \A i \in Ids : status[i] \in {"approved", "denied", "cancelled"} =>
                      \/ status'[i] = "gone"
                      \/ status'[i] = status[i] /\ decision'[i] = decision[i]
<1>1. ASSUME IInv, ApprovalNext PROVE Kept
  <2>1. ASSUME NEW c \in Calls, CallStep(c) \/ Abort(c) PROVE Kept
    <3>1. CASE UNCHANGED <<status, decision>>
      BY <3>1
    <3>2. CASE CreateRecord(c)
      BY <1>1, <3>2 DEF CreateRecord, IInv, PermissionsGiven, ApprovalTypeOK
    <3>3. CASE Expire(c)
      BY <1>1, <3>3 DEF Expire, IInv, PermissionsGiven, ApprovalTypeOK
    <3> QED
      BY <2>1, <3>1, <3>2, <3>3
         DEF CallStep, Abort, CheckStanding, JoinRecord, Prompt, BeginWait, Awaken, TimeOut,
             TakeDecision, recordVars
  <2>2. CASE UserDecides
    BY <1>1, <2>2, DecideAnswers, DecideAgainAnswers DEF UserDecides, Answered
  <2>3. CASE Restart
    BY <1>1, <2>3 DEF Restart, IInv, PermissionsGiven, ApprovalTypeOK
  <2>4. CASE \E s \in Sessions : ClearSession(s)
    BY <2>4 DEF ClearSession, recordVars
  <2>5. CASE \E r \in Subruns : ParentLooks(r) \/ ParentReturns(r)
    BY <2>5 DEF ParentLooks, ParentReturns, recordVars
  <2> QED
    BY <1>1, <2>1, <2>2, <2>3, <2>4, <2>5 DEF ApprovalNext
<1>2. IInv /\ [ApprovalNext]_approvalVars => [Kept]_approvalVars
  BY <1>1
<1> QED
  BY <1>2, Invariance, PTL DEF ApprovalSpec, DecisionFinal

-----------------------------------------------------------------------------
(* AgentCatalog: the inductive invariant *)

\* Records that keep the tools the factory denies.
RecordsOk(recs) ==
    /\ DOMAIN recs = AgentIds
    /\ \A i \in AgentIds : recs[i].version \in Nat
    /\ \A b \in BuiltinIds : recs[b].origin = "builtin" /\ FactoryDeny[b] \subseteq recs[b].deny
    /\ \A i \in CustomIds : recs[i].origin # "builtin"

\* A read-only builtin is read-only unless its flag was spelt last as a string.
FlagsOk ==
    /\ loosened \subseteq FactoryReadOnly
    /\ \A b \in FactoryReadOnly : records[b].readOnly \/ b \in loosened

Registry ==
    /\ \A i \in AgentIds \ drifted : Bears(i, records) => adapters[Key[i]].rec = records[i]
    /\ synced = CustomNames(records)
    /\ \A k \in AgentNames \ synced : Registered2(k) =>
        k \in BuiltinIds /\ adapters[k].rec.version \in Nat /\ adapters[k].rec.version <= records[k].version
    /\ laneIds = ConfiguredDelegators \union {PrimaryId} \union Delegating(records)
    /\ \A k \in AgentNames : Registered2(k) => adapters[k].asks
    /\ Registered2(PrimaryId)

CatalogInv ==
    /\ RecordsOk(records) /\ FlagsOk /\ disabled \subseteq BuiltinIds
    /\ synced \subseteq AgentNames \ Protected /\ delegators \subseteq synced
    /\ serving => Registry

-----------------------------------------------------------------------------
LEMMA RecordParts ==
    ASSUME NEW origin, NEW enabled, NEW deny, NEW readOnly, NEW flow, NEW delegates, NEW version
    PROVE  LET r == Record(origin, enabled, deny, readOnly, flow, delegates, version)
           IN  /\ r.origin = origin /\ r.enabled = enabled /\ r.deny = deny /\ r.readOnly = readOnly
               /\ r.flow = flow /\ r.delegates = delegates /\ r.version = version
BY DEF Record

LEMMA NoRecordParts == NoRecord.origin = "none" /\ NoRecord.version = 0 /\ NoRecord.enabled = FALSE
BY DEF NoRecord, Record

LEMMA AdapterParts ==
    ASSUME NEW rec, NEW spawns
    PROVE  /\ Adapter(rec, spawns, TRUE).rec = rec /\ Adapter(rec, spawns, TRUE).asks
           /\ Adapter(rec, spawns, TRUE) # NoAdapter
BY DEF Adapter, NoAdapter

LEMMA IdsFit ==
    /\ BuiltinIds \subseteq AgentIds /\ CustomIds \subseteq AgentIds /\ PrimaryId \in BuiltinIds
    /\ PrimaryId \in Protected /\ Protected \subseteq BuiltinIds
    /\ \A i \in AgentIds : i \in BuiltinIds \/ i \in CustomIds
    /\ \A i \in BuiltinIds : i \notin CustomIds
    /\ FactoryReadOnly \subseteq BuiltinIds
BY AgentCatalogAssumption DEF AgentIds

LEMMA NamesFit ==
    /\ \A i \in AgentIds : Key[i] \in AgentNames
    /\ \A b \in BuiltinIds : Key[b] = b /\ b \in AgentNames
BY IdsFit, AgentCatalogAssumption DEF AgentNames

LEMMA CustomsFit ==
    ASSUME NEW recs, RecordsOk(recs)
    PROVE  /\ Customs(recs) \subseteq CustomIds
           /\ CustomNames(recs) \subseteq AgentNames \ Protected
           /\ Delegating(recs) \subseteq CustomNames(recs)
BY IdsFit, NamesFit DEF Customs, CustomNames, Delegating, RecordsOk

\* At most one record bears a name, so it is the one that is chosen.
LEMMA BearerIsOne ==
    ASSUME NEW recs, NEW i \in AgentIds, Bears(i, recs)
    PROVE  Taken(Key[i], recs) /\ Bearer(Key[i], recs) = recs[i]
<1> DEFINE c == CHOOSE j \in AgentIds : Key[j] = Key[i] /\ Bears(j, recs)
<1>1. c \in AgentIds /\ Key[c] = Key[i] /\ Bears(c, recs)
  OBVIOUS
<1> HIDE DEF c
<1>2. c \in Customs(recs) /\ i \in Customs(recs)
  BY <1>1 DEF Bears
<1>3. Place[c] <= Place[i] /\ Place[i] <= Place[c] /\ Place[c] \in Nat /\ Place[i] \in Nat
  BY <1>1, <1>2, AgentCatalogAssumption DEF Bears
<1>4. c = i
  BY <1>1, <1>3, AgentCatalogAssumption
<1>5. Bearer(Key[i], recs) = recs[c]
  BY DEF Bearer, c
<1> QED
  BY <1>4, <1>5 DEF Taken

LEMMA TakenIsCustom ==
    ASSUME NEW recs, NEW k, Taken(k, recs) PROVE k \in CustomNames(recs)
BY DEF Taken, Bears, CustomNames

\* A registry that is synced with records no older than those it had.
LEMMA SyncKeeps ==
    ASSUME CatalogInv, serving, serving', RecordsOk(records'), FlagsOk', disabled' \subseteq BuiltinIds,
           \A b \in BuiltinIds : records[b].version <= records'[b].version,
           Sync(records')
    PROVE  CatalogInv'
<1>1. /\ adapters' = Synced(records', adapters)
      /\ synced' = CustomNames(records') /\ delegators' = Delegating(records')
      /\ laneIds' = ConfiguredDelegators \union {PrimaryId} \union Delegating(records')
      /\ drifted' = {}
  BY DEF Sync
<1>2. /\ CustomNames(records') \subseteq AgentNames \ Protected
      /\ Delegating(records') \subseteq CustomNames(records')
  BY CustomsFit
<1>3. synced \subseteq AgentNames \ Protected /\ Registry
  BY DEF CatalogInv
<1>4. \A k \in AgentNames : Taken(k, records') => adapters'[k] = Adapter(Bearer(k, records'), FALSE, TRUE)
  BY <1>1 DEF Synced
<1>5. ASSUME NEW k \in AgentNames, ~Taken(k, records')
      PROVE  /\ k \in synced \/ ~Registered2(k) => adapters'[k] = NoAdapter
             /\ k \notin synced /\ Registered2(k) => adapters'[k] = Adapter(adapters[k].rec, adapters[k].spawns, TRUE)
  BY <1>1, <1>5 DEF Synced, Registered2
<1>6. ASSUME NEW i \in AgentIds, Bears(i, records') PROVE adapters'[Key[i]].rec = records'[i]
  <2>1. Taken(Key[i], records') /\ Bearer(Key[i], records') = records'[i]
    BY <1>6, BearerIsOne
  <2>2. adapters'[Key[i]] = Adapter(records'[i], FALSE, TRUE)
    BY <1>4, <2>1, NamesFit
  <2> QED
    BY <2>2, AdapterParts
<1>7. ASSUME NEW k \in AgentNames \ CustomNames(records'), adapters'[k] # NoAdapter
      PROVE  k \in BuiltinIds /\ adapters'[k].rec.version \in Nat /\ adapters'[k].rec.version <= records'[k].version
  <2>1. ~Taken(k, records')
    BY <1>7, TakenIsCustom
  <2>2. /\ k \notin synced /\ Registered2(k)
        /\ adapters'[k] = Adapter(adapters[k].rec, adapters[k].spawns, TRUE)
    BY <1>5, <1>7, <2>1
  <2>3. /\ k \in BuiltinIds /\ adapters[k].rec.version \in Nat
        /\ adapters[k].rec.version <= records[k].version
    BY <1>3, <1>7, <2>2 DEF Registry
  <2>4. records[k].version \in Nat /\ records'[k].version \in Nat /\ records[k].version <= records'[k].version
    BY <2>3, IdsFit DEF CatalogInv, RecordsOk
  <2>5. adapters'[k].rec = adapters[k].rec
    BY <2>2, AdapterParts
  <2> QED
    BY <2>3, <2>4, <2>5
<1>8. ASSUME NEW k \in AgentNames, adapters'[k] # NoAdapter PROVE adapters'[k].asks
  <2>1. CASE Taken(k, records')
    BY <1>4, <2>1, AdapterParts
  <2>2. CASE ~Taken(k, records')
    <3>1. adapters'[k] = Adapter(adapters[k].rec, adapters[k].spawns, TRUE)
      BY <1>5, <1>8, <2>2
    <3> QED
      BY <3>1, AdapterParts
  <2> QED
    BY <2>1, <2>2
<1>9. adapters'[PrimaryId] # NoAdapter
  <2>1. PrimaryId \in AgentNames /\ PrimaryId \notin CustomNames(records') /\ PrimaryId \notin synced
    BY <1>2, <1>3, IdsFit, NamesFit
  <2>2. Registered2(PrimaryId) /\ ~Taken(PrimaryId, records')
    BY <1>3, <2>1, TakenIsCustom DEF Registry
  <2>3. adapters'[PrimaryId] = Adapter(adapters[PrimaryId].rec, adapters[PrimaryId].spawns, TRUE)
    BY <1>5, <2>1, <2>2
  <2> QED
    BY <2>3, AdapterParts
<1>10. Registry'
  BY <1>1, <1>6, <1>7, <1>8, <1>9 DEF Registry, Registered2
<1> QED
  BY <1>1, <1>2, <1>10 DEF CatalogInv

\* A record that denies what the factory denies for its id.
RecordOk(i, rec) ==
    /\ rec.version \in Nat
    /\ i \in BuiltinIds => rec.origin = "builtin" /\ FactoryDeny[i] \subseteq rec.deny
    /\ i \in CustomIds => rec.origin # "builtin"

\* What a change of the record of i does to what is known of the flags.
FlagKept(i, rec) ==
    /\ loosened' \subseteq FactoryReadOnly
    /\ \A b \in FactoryReadOnly : b # i /\ b \in loosened => b \in loosened'
    /\ i \in FactoryReadOnly => rec.readOnly \/ i \in loosened'

LEMMA RecordsAreOk ==
    ASSUME NEW recs
    PROVE  RecordsOk(recs) <=> DOMAIN recs = AgentIds /\ \A i \in AgentIds : RecordOk(i, recs[i])
BY IdsFit DEF RecordsOk, RecordOk

LEMMA FactoryOk ==
    ASSUME NEW b \in BuiltinIds, NEW enabled, NEW v \in Nat
    PROVE  /\ RecordOk(b, Factory(b, enabled, v))
           /\ Factory(b, enabled, v).version = v /\ Factory(b, enabled, v).enabled = enabled
           /\ b \in FactoryReadOnly => Factory(b, enabled, v).readOnly
<1>1. b \notin CustomIds
  BY IdsFit
<1>2. \A readOnly : LET r == Record("builtin", enabled, FactoryDeny[b], readOnly, FALSE, FALSE, v)
      IN  r.origin = "builtin" /\ r.deny = FactoryDeny[b] /\ r.readOnly = readOnly /\ r.version = v /\ r.enabled = enabled
  BY DEF Record
<1> QED
  BY <1>1, <1>2 DEF RecordOk, Factory

\* An update keeps the origin and raises the version; the denied tools are put back.
LEMMA UpdatedOk ==
    ASSUME NEW i \in AgentIds, RecordOk(i, records[i]),
           NEW enabled, NEW deny, NEW raw, NEW flow, NEW delegates
    PROVE  LET r == Updated(i, enabled, deny, raw, flow, delegates)
           IN  /\ RecordOk(i, r) /\ r.version = records[i].version + 1
               /\ r.origin = records[i].origin /\ r.enabled = enabled /\ r.flow = flow /\ r.delegates = delegates
               /\ r.readOnly = Read(FlooredFlag(i, raw))
<1> DEFINE r == Updated(i, enabled, deny, raw, flow, delegates)
           denied == Floored(i, deny)
           flag == Read(FlooredFlag(i, raw))
<1>1. i \in BuiltinIds => FactoryDeny[i] \subseteq denied
  BY DEF Floored
<1>2. r = Record(records[i].origin, enabled, denied, flag, flow, delegates, records[i].version + 1)
  BY DEF Updated
<1>3. records[i].version \in Nat /\ records[i].version + 1 \in Nat
  BY DEF RecordOk
<1> HIDE DEF denied, flag, r
<1>4. /\ r.origin = records[i].origin /\ r.enabled = enabled /\ r.deny = denied /\ r.readOnly = flag
      /\ r.flow = flow /\ r.delegates = delegates /\ r.version = records[i].version + 1
  BY <1>2, RecordParts
<1>5. RecordOk(i, r)
  BY <1>1, <1>3, <1>4 DEF RecordOk
<1> QED
  BY <1>4, <1>5 DEF r, flag

\* The floor holds against a flag given as a truth value, and a string is remembered.
LEMMA UpdateKeepsFlag ==
    ASSUME FlagsOk, NEW i \in AgentIds, NEW raw \in RawFlags, NEW rec,
           rec.readOnly = Read(FlooredFlag(i, raw)), LastSpelt(i, raw)
    PROVE  FlagKept(i, rec)
BY DEF FlagsOk, FlagKept, LastSpelt, FlooredFlag, Read, RawFlags

\* A handler commits a record of its own, or takes one away, and syncs.
LEMMA CommitKeeps ==
    ASSUME CatalogInv, serving, NEW i \in AgentIds, NEW rec, RecordOk(i, rec), FlagKept(i, rec),
           i \in BuiltinIds => records[i].version <= rec.version, Commit(i, rec)
    PROVE  CatalogInv'
<1>1. /\ records' = [records EXCEPT ![i] = rec] /\ Sync(records') /\ serving' = serving /\ disabled' = disabled
  BY DEF Commit
<1>2. DOMAIN records = AgentIds /\ \A j \in AgentIds : RecordOk(j, records[j])
  BY RecordsAreOk DEF CatalogInv
<1>3. DOMAIN records' = AgentIds /\ records'[i] = rec /\ \A j \in AgentIds : j # i => records'[j] = records[j]
  BY <1>1, <1>2
<1>4. RecordsOk(records')
  BY <1>2, <1>3, RecordsAreOk
<1>5. \A b \in BuiltinIds : records[b].version <= records'[b].version
  <2> SUFFICES ASSUME NEW b \in BuiltinIds PROVE records[b].version <= records'[b].version
    OBVIOUS
  <2>1. b \in AgentIds /\ records[b].version \in Nat
    BY <1>2, IdsFit DEF RecordOk
  <2> QED
    BY <1>3, <2>1
<1>6. serving' /\ disabled' \subseteq BuiltinIds
  BY <1>1 DEF CatalogInv
<1>7. FlagsOk'
  BY <1>3, IdsFit DEF CatalogInv, FlagsOk, FlagKept
<1> QED
  BY <1>1, <1>4, <1>5, <1>6, <1>7, SyncKeeps

LEMMA NoRecordOk == ASSUME NEW i \in CustomIds PROVE RecordOk(i, NoRecord)
BY NoRecordParts, IdsFit DEF RecordOk

LEMMA CustomOk ==
    ASSUME NEW i \in CustomIds, NEW on, NEW deny, NEW delegates
    PROVE  RecordOk(i, Record("custom", on, deny, FALSE, TRUE, delegates, 1))
BY IdsFit DEF RecordOk, Record

\* A record of a custom agent has no part in the floors.
LEMMA CustomKeepsFlags ==
    ASSUME FlagsOk, NEW i \in CustomIds, NEW rec, loosened' = loosened \/ \E raw : LastSpelt(i, raw)
    PROVE  FlagKept(i, rec)
BY IdsFit DEF FlagsOk, FlagKept, LastSpelt

\* Every builtin has a record.
LEMMA BuiltinsExist ==
    ASSUME CatalogInv, NEW b \in BuiltinIds PROVE Exists(b)
<1>1. records[b].origin = "builtin" /\ NoRecord.origin = "none"
  BY NoRecordParts DEF CatalogInv, RecordsOk
<1> QED
  BY <1>1 DEF Exists

LEMMA AfterResetOk ==
    ASSUME NEW i \in BuiltinIds, records[i].version \in Nat
    PROVE  /\ RecordOk(i, AfterReset(i)) /\ AfterReset(i).version = records[i].version + 1
           /\ i \in FactoryReadOnly => AfterReset(i).readOnly
<1>1. records[i].version + 1 \in Nat
  OBVIOUS
<1> QED
  BY <1>1, FactoryOk DEF AfterReset

LEMMA ResetKeepsFlag ==
    ASSUME FlagsOk, NEW i \in BuiltinIds, records[i].version \in Nat, LastSpelt(i, "true")
    PROVE  FlagKept(i, AfterReset(i))
<1>1. i \in FactoryReadOnly => AfterReset(i).readOnly
  BY AfterResetOk
<1> QED
  BY <1>1 DEF FlagsOk, FlagKept, LastSpelt

LEMMA CommitOfUpdate ==
    ASSUME CatalogInv, serving, NEW i \in AgentIds, RecordOk(i, records[i]),
           NEW enabled, NEW deny, NEW raw \in RawFlags, NEW flow, NEW delegates, LastSpelt(i, raw),
           Commit(i, Updated(i, enabled, deny, raw, flow, delegates))
    PROVE  CatalogInv'
<1> DEFINE r == Updated(i, enabled, deny, raw, flow, delegates)
<1>1. RecordOk(i, r) /\ r.version = records[i].version + 1 /\ r.readOnly = Read(FlooredFlag(i, raw))
  BY UpdatedOk
<1>2. Commit(i, r)
  OBVIOUS
<1> HIDE DEF r
<1>3. records[i].version <= r.version
  BY <1>1 DEF RecordOk
<1>4. FlagKept(i, r)
  BY <1>1, UpdateKeepsFlag DEF CatalogInv
<1> QED
  BY <1>1, <1>2, <1>3, <1>4, CommitKeeps

LEMMA WithBuiltinsOk ==
    ASSUME NEW old, \A i \in AgentIds : RecordOk(i, old[i]) \/ old[i] = NoRecord
    PROVE  RecordsOk(WithBuiltins(old))
<1> DEFINE recs == WithBuiltins(old)
<1>1. DOMAIN recs = AgentIds
  BY DEF WithBuiltins
<1>2. ASSUME NEW i \in AgentIds PROVE RecordOk(i, recs[i])
  <2>1. CASE i \in BuiltinIds /\ old[i] = NoRecord
    <3>1. recs[i] = Factory(i, i \notin disabled, 1)
      BY <2>1 DEF WithBuiltins
    <3> QED
      BY <2>1, <3>1, FactoryOk
  <2>2. CASE ~(i \in BuiltinIds /\ old[i] = NoRecord)
    <3>1. recs[i] = old[i]
      BY <2>2 DEF WithBuiltins
    <3> QED
      BY <2>2, <3>1, NoRecordOk, IdsFit
  <2> QED
    BY <2>1, <2>2
<1> HIDE DEF recs
<1>3. RecordsOk(recs)
  BY <1>1, <1>2, RecordsAreOk
<1> QED
  BY <1>3 DEF recs

\* The registry built from records in order.
LEMMA BuiltSound ==
    ASSUME NEW recs, RecordsOk(recs), recs[PrimaryId].enabled
    PROVE  /\ \A i \in AgentIds : Bears(i, recs) => Built(recs)[Key[i]].rec = recs[i]
           /\ \A k \in AgentNames \ CustomNames(recs) : Built(recs)[k] # NoAdapter =>
                /\ k \in BuiltinIds
                /\ Built(recs)[k].rec.version \in Nat /\ Built(recs)[k].rec.version <= recs[k].version
           /\ \A k \in AgentNames : Built(recs)[k] # NoAdapter => Built(recs)[k].asks
           /\ Built(recs)[PrimaryId] # NoAdapter
<1>1. ASSUME NEW k \in AgentNames
      PROVE  \/ Taken(k, recs) /\ Built(recs)[k] = Adapter(Bearer(k, recs), TRUE, TRUE)
             \/ ~Taken(k, recs) /\ k \in BuiltinIds /\ recs[k].enabled /\ Built(recs)[k] = Adapter(recs[k], TRUE, TRUE)
             \/ ~Taken(k, recs) /\ ~(k \in BuiltinIds /\ recs[k].enabled) /\ Built(recs)[k] = NoAdapter
  BY DEF Built
<1>2. ASSUME NEW i \in AgentIds, Bears(i, recs) PROVE Built(recs)[Key[i]].rec = recs[i]
  <2>1. Taken(Key[i], recs) /\ Bearer(Key[i], recs) = recs[i] /\ Key[i] \in AgentNames
    BY <1>2, BearerIsOne, NamesFit
  <2>2. Built(recs)[Key[i]] = Adapter(recs[i], TRUE, TRUE)
    BY <1>1, <2>1
  <2> QED
    BY <2>2, AdapterParts
<1>3. ASSUME NEW k \in AgentNames \ CustomNames(recs), Built(recs)[k] # NoAdapter
      PROVE  k \in BuiltinIds /\ Built(recs)[k].rec.version \in Nat /\ Built(recs)[k].rec.version <= recs[k].version
  <2>1. k \in BuiltinIds /\ Built(recs)[k] = Adapter(recs[k], TRUE, TRUE)
    BY <1>1, <1>3, TakenIsCustom
  <2>2. recs[k].version \in Nat
    BY <2>1, IdsFit DEF RecordsOk
  <2>3. Built(recs)[k].rec = recs[k]
    BY <2>1, AdapterParts
  <2>4. recs[k].version <= recs[k].version
    BY <2>2
  <2> QED
    BY <2>1, <2>2, <2>3, <2>4, Zenon
<1>4. \A k \in AgentNames : Built(recs)[k] # NoAdapter => Built(recs)[k].asks
  BY <1>1, AdapterParts
<1>5. Built(recs)[PrimaryId] # NoAdapter
  <2>1. PrimaryId \in AgentNames /\ PrimaryId \in BuiltinIds
    BY IdsFit, NamesFit
  <2>2. \E rec : Built(recs)[PrimaryId] = Adapter(rec, TRUE, TRUE)
    BY <1>1, <2>1
  <2> QED
    BY <2>2, AdapterParts
<1> QED
  BY <1>2, <1>3, <1>4, <1>5

LEMMA BootKeeps ==
    ASSUME NEW recs, RecordsOk(recs), Boot(recs), disabled' \subseteq BuiltinIds, FlagsOk'
    PROVE  CatalogInv'
<1>1. records' = recs /\ serving' = recs[PrimaryId].enabled /\ drifted' = {}
  BY DEF Boot
<1>2. CustomNames(recs) \subseteq AgentNames \ Protected /\ Delegating(recs) \subseteq CustomNames(recs)
  BY CustomsFit
<1>3. CASE serving'
  <2>1. /\ adapters' = Built(recs) /\ synced' = CustomNames(recs) /\ delegators' = Delegating(recs)
        /\ laneIds' = ConfiguredDelegators \union {PrimaryId} \union Delegating(recs)
    BY <1>3 DEF Boot
  <2>2. recs[PrimaryId].enabled
    BY <1>1, <1>3
  <2>3. Registry'
    BY <1>1, <2>1, <2>2, BuiltSound DEF Registry, Registered2
  <2> QED
    BY <1>1, <1>2, <2>1, <2>3 DEF CatalogInv
<1>4. CASE ~serving'
  <2>1. synced' = {} /\ delegators' = {}
    BY <1>4 DEF Boot
  <2> QED
    BY <1>1, <1>4, <2>1 DEF CatalogInv
<1> QED
  BY <1>3, <1>4

LEMMA CatalogKept ==
    ASSUME CatalogInv, disabled' \subseteq BuiltinIds, records' = records, adapters' = adapters, synced' = synced,
           delegators' = delegators, laneIds' = laneIds, serving' = serving, drifted' = drifted,
           loosened' = loosened
    PROVE  CatalogInv'
<1>1. FlagsOk'
  BY DEF CatalogInv, FlagsOk
<1>2. serving' => Registry'
  BY DEF CatalogInv, Registry, Registered2
<1> QED
  BY <1>1, <1>2 DEF CatalogInv

\* A change of a configuration that leaves the registry alone.
LEMMA ConfigureKeeps ==
    ASSUME CatalogInv, serving, NEW i \in AgentIds, NEW rec, records' = [records EXCEPT ![i] = rec], RecordOk(i, rec),
           FlagKept(i, rec), records[i].version <= rec.version,
           i \in CustomIds => /\ rec.origin = records[i].origin /\ rec.enabled = records[i].enabled
                              /\ rec.flow = records[i].flow /\ rec.delegates = records[i].delegates,
           drifted' = drifted \union {i}, disabled' = disabled, adapters' = adapters, synced' = synced,
           delegators' = delegators, laneIds' = laneIds, serving' = serving
    PROVE  CatalogInv'
<1>1. DOMAIN records = AgentIds /\ \A j \in AgentIds : RecordOk(j, records[j])
  BY RecordsAreOk DEF CatalogInv
<1>2. DOMAIN records' = AgentIds /\ records'[i] = rec /\ \A j \in AgentIds : j # i => records'[j] = records[j]
  BY <1>1
<1>3. RecordsOk(records')
  BY <1>1, <1>2, RecordsAreOk
<1>4. Customs(records') = Customs(records)
  <2>1. ASSUME NEW j \in AgentIds
        PROVE  (records'[j].origin = "custom" /\ records'[j].enabled) <=> (records[j].origin = "custom" /\ records[j].enabled)
    <3>1. CASE j \in BuiltinIds
      <4>1. records'[j].origin = "builtin" /\ records[j].origin = "builtin"
        BY <1>3, <3>1 DEF RecordsOk, CatalogInv
      <4> QED
        BY <4>1
    <3>2. CASE j \in CustomIds
      BY <1>2, <3>2
    <3> QED
      BY <3>1, <3>2, IdsFit
  <2> QED
    BY <2>1 DEF Customs
<1>5. Registry
  BY DEF CatalogInv
<1>6. CustomNames(records') = CustomNames(records) /\ \A j : Bears(j, records') <=> Bears(j, records)
  BY <1>4 DEF CustomNames, Bears
<1>7. Delegating(records') = Delegating(records)
  <2>1. \A j \in Customs(records) : records'[j].flow = records[j].flow /\ records'[j].delegates = records[j].delegates
    BY <1>2, CustomsFit, IdsFit DEF CatalogInv
  <2> QED
    BY <1>4, <2>1 DEF Delegating
<1>8. ASSUME NEW k \in AgentNames \ synced, adapters[k] # NoAdapter
      PROVE  k \in BuiltinIds /\ adapters[k].rec.version \in Nat /\ adapters[k].rec.version <= records'[k].version
  <2>1. k \in BuiltinIds /\ adapters[k].rec.version \in Nat /\ adapters[k].rec.version <= records[k].version
    BY <1>5, <1>8 DEF Registry, Registered2
  <2>2. k \in AgentIds /\ records[k].version \in Nat /\ records'[k].version \in Nat
    BY <1>3, <2>1, IdsFit DEF RecordsOk, CatalogInv
  <2>3. records[k].version <= records'[k].version
    BY <1>2, <2>2
  <2> QED
    BY <2>1, <2>2, <2>3
<1>9. Registry'
  BY <1>2, <1>5, <1>6, <1>7, <1>8 DEF Registry, Registered2
<1>10. FlagsOk'
  BY <1>2, IdsFit DEF CatalogInv, FlagsOk, FlagKept
<1> QED
  BY <1>3, <1>9, <1>10 DEF CatalogInv

LEMMA CatalogStep == CatalogInv /\ [CatalogNext]_catalogVars => CatalogInv'
<1> SUFFICES ASSUME CatalogInv, [CatalogNext]_catalogVars PROVE CatalogInv'
  OBVIOUS
<1>0. /\ \A i \in AgentIds : RecordOk(i, records[i]) /\ records[i].version \in Nat
      /\ FlagsOk
  BY RecordsAreOk DEF CatalogInv, RecordsOk
<1>1. CASE RestartAgents
  <2>1. Boot(WithBuiltins(records)) /\ disabled' = disabled /\ loosened' = loosened
    BY <1>1 DEF RestartAgents
  <2>2. RecordsOk(WithBuiltins(records))
    BY <1>0, WithBuiltinsOk
  <2>3. \A b \in BuiltinIds : WithBuiltins(records)[b] = records[b]
    BY BuiltinsExist, IdsFit DEF WithBuiltins, Exists
  <2>4. records' = WithBuiltins(records)
    BY <2>1 DEF Boot
  <2>5. FlagsOk'
    BY <1>0, <2>1, <2>3, <2>4, IdsFit DEF FlagsOk
  <2> QED
    BY <2>1, <2>2, <2>5, BootKeeps DEF CatalogInv
<1>2. CASE ResolveAgent
  <2>1. /\ serving /\ Sync(records) /\ records' = records /\ disabled' = disabled /\ serving' = serving
        /\ loosened' = loosened
    BY <1>2 DEF ResolveAgent
  <2>2. Sync(records') /\ RecordsOk(records') /\ FlagsOk' /\ disabled' \subseteq BuiltinIds /\ serving'
    BY <1>0, <2>1 DEF CatalogInv, FlagsOk
  <2>3. \A b \in BuiltinIds : records[b].version <= records'[b].version
    BY <1>0, <2>1, IdsFit
  <2> QED
    BY <2>1, <2>2, <2>3, SyncKeeps
<1>3. ASSUME NEW i \in CustomIds, CreateAgent(i) PROVE CatalogInv'
  <2>1. PICK on \in BOOLEAN, delegates \in BOOLEAN, deny \in DenyLists :
          Commit(i, Record("custom", on, deny, FALSE, TRUE, delegates, 1))
    BY <1>3 DEF CreateAgent
  <2>2. i \in AgentIds /\ i \notin BuiltinIds /\ serving /\ loosened' = loosened
    BY <1>3, IdsFit DEF CreateAgent
  <2> QED
    BY <1>0, <2>1, <2>2, CustomOk, CustomKeepsFlags, CommitKeeps
<1>4. ASSUME NEW i \in AgentIds, PatchAgent(i) PROVE CatalogInv'
  <2>1. PICK on \in BOOLEAN, raw \in RawFlags, deny \in DenyLists :
          /\ Commit(i, Updated(i, on, deny, raw, records[i].flow, records[i].delegates))
          /\ LastSpelt(i, raw)
    BY <1>4 DEF PatchAgent
  <2>2. serving
    BY <1>4 DEF PatchAgent, Reachable
  <2> QED
    BY <1>0, <2>1, <2>2, CommitOfUpdate
<1>5. ASSUME NEW i \in AgentIds, UpsertAgent(i, PrimaryId) PROVE CatalogInv'
  <2>1. serving
    BY <1>5 DEF UpsertAgent, Reachable
  <2> DEFINE raw == RawOf(records[i].readOnly)
  <2>2. raw \in RawFlags
    BY DEF RawOf, RawFlags
  <2> HIDE DEF raw
  <2>3. CASE Exists(i)
    <3>1. PICK delegates \in BOOLEAN :
            Commit(i, Updated(i, TRUE, records[i].deny, raw, TRUE, delegates)) /\ LastSpelt(i, raw)
      BY <1>5, <2>3 DEF UpsertAgent, raw
    <3> QED
      BY <1>0, <2>1, <2>2, <3>1, CommitOfUpdate
  <2>4. CASE ~Exists(i)
    <3>1. PICK delegates \in BOOLEAN :
            Commit(i, Record("custom", TRUE, {}, FALSE, TRUE, delegates, 1)) /\ LastSpelt(i, raw)
      BY <1>5, <2>4 DEF UpsertAgent, raw
    <3>2. i \in CustomIds /\ i \notin BuiltinIds
      BY <2>4, BuiltinsExist, IdsFit
    <3> QED
      BY <1>0, <2>1, <3>1, <3>2, CustomOk, CustomKeepsFlags, CommitKeeps
  <2> QED
    BY <2>3, <2>4
<1>6. ASSUME NEW i \in AgentIds, DeleteAgent(i) PROVE CatalogInv'
  <2>1. serving /\ records[i].origin = "custom" /\ Commit(i, NoRecord) /\ loosened' = loosened
    BY <1>6 DEF DeleteAgent, Reachable
  <2>2. i \in CustomIds /\ i \notin BuiltinIds
    BY <1>0, <2>1, IdsFit DEF RecordOk
  <2> QED
    BY <1>0, <2>1, <2>2, NoRecordOk, CustomKeepsFlags, CommitKeeps
<1>7. ASSUME NEW i \in AgentIds, ResetAgent(i) PROVE CatalogInv'
  <2>1. serving /\ i \in BuiltinIds /\ Commit(i, AfterReset(i)) /\ LastSpelt(i, "true")
    BY <1>7 DEF ResetAgent
  <2>2. RecordOk(i, AfterReset(i)) /\ AfterReset(i).version = records[i].version + 1 /\ FlagKept(i, AfterReset(i))
    BY <1>0, <2>1, AfterResetOk, ResetKeepsFlag
  <2>3. records[i].version <= AfterReset(i).version
    BY <1>0, <2>2
  <2> QED
    BY <2>1, <2>2, <2>3, CommitKeeps
<1>8. ASSUME NEW i \in AgentIds, ConfigureAgent(i) PROVE CatalogInv'
  <2>1. PICK rec : /\ records' = [records EXCEPT ![i] = rec] /\ RecordOk(i, rec)
                   /\ FlagKept(i, rec) /\ records[i].version <= rec.version
                   /\ i \in CustomIds => /\ rec.origin = records[i].origin /\ rec.enabled = records[i].enabled
                                         /\ rec.flow = records[i].flow /\ rec.delegates = records[i].delegates
    <3>1. CASE i \in BuiltinIds /\ records' = [records EXCEPT ![i] = AfterReset(i)] /\ LastSpelt(i, "true")
      <4>1. RecordOk(i, AfterReset(i)) /\ AfterReset(i).version = records[i].version + 1 /\ i \notin CustomIds
        BY <1>0, <3>1, AfterResetOk, IdsFit
      <4>2. records[i].version <= AfterReset(i).version
        BY <1>0, <4>1
      <4>3. FlagKept(i, AfterReset(i))
        BY <1>0, <3>1, ResetKeepsFlag
      <4> QED
        BY <3>1, <4>1, <4>2, <4>3, Zenon
    <3>2. CASE \E raw \in RawFlags, deny \in DenyLists :
                 /\ records' = [records EXCEPT ![i] =
                      Updated(i, records[i].enabled, deny, raw, records[i].flow, records[i].delegates)]
                 /\ LastSpelt(i, raw)
      <4>1. PICK raw \in RawFlags, deny \in DenyLists :
              /\ records' = [records EXCEPT ![i] =
                   Updated(i, records[i].enabled, deny, raw, records[i].flow, records[i].delegates)]
              /\ LastSpelt(i, raw)
        BY <3>2
      <4> DEFINE r == Updated(i, records[i].enabled, deny, raw, records[i].flow, records[i].delegates)
      <4>2. /\ RecordOk(i, r) /\ r.version = records[i].version + 1 /\ r.readOnly = Read(FlooredFlag(i, raw))
            /\ r.origin = records[i].origin /\ r.enabled = records[i].enabled
            /\ r.flow = records[i].flow /\ r.delegates = records[i].delegates
        BY <1>0, UpdatedOk
      <4>3. records' = [records EXCEPT ![i] = r]
        BY <4>1
      <4> HIDE DEF r
      <4>4. records[i].version <= r.version
        BY <1>0, <4>2
      <4>5. FlagKept(i, r)
        BY <1>0, <4>1, <4>2, UpdateKeepsFlag
      <4> QED
        BY <4>2, <4>3, <4>4, <4>5, Zenon
    <3> QED
      BY <1>8, <3>1, <3>2 DEF ConfigureAgent
  <2>2. /\ drifted' = drifted \union {i} /\ disabled' = disabled /\ adapters' = adapters /\ synced' = synced
        /\ delegators' = delegators /\ laneIds' = laneIds /\ serving' = serving /\ serving
    BY <1>8 DEF ConfigureAgent
  <2> QED
    BY <1>8, <2>1, <2>2, ConfigureKeeps
<1>9. ASSUME NEW ids \in {{}, BuiltinIds \ {PrimaryId}}, UpdateManifest(ids) PROVE CatalogInv'
  <2>1. /\ disabled' \subseteq BuiltinIds /\ records' = records /\ adapters' = adapters /\ synced' = synced
        /\ delegators' = delegators /\ laneIds' = laneIds /\ serving' = serving /\ drifted' = drifted
        /\ loosened' = loosened
    BY <1>9 DEF UpdateManifest
  <2> QED
    BY <2>1, CatalogKept
<1>10. CASE UNCHANGED catalogVars
  BY <1>10, CatalogKept DEF catalogVars, CatalogInv
<1> QED
  BY <1>1, <1>2, <1>3, <1>4, <1>5, <1>6, <1>7, <1>8, <1>9, <1>10 DEF CatalogNext

LEMMA CatalogStart == CatalogInit => CatalogInv
<1> SUFFICES ASSUME CatalogInit PROVE CatalogInv
  OBVIOUS
<1> DEFINE none == [i \in AgentIds |-> NoRecord]
<1>1. /\ records = WithBuiltins(none) /\ adapters = Built(records) /\ disabled = {} /\ loosened = {}
      /\ synced = {} /\ delegators = {} /\ laneIds = ConfiguredDelegators \union {PrimaryId}
  BY DEF CatalogInit
<1>2. \A i \in AgentIds : none[i] = NoRecord
  OBVIOUS
<1> HIDE DEF none
<1>3. \A i \in BuiltinIds : records[i] = Factory(i, TRUE, 1)
  BY <1>1, <1>2, IdsFit DEF WithBuiltins
<1>4. \A i \in CustomIds : records[i] = NoRecord
  BY <1>1, <1>2, IdsFit DEF WithBuiltins
<1>5. RecordsOk(records)
  BY <1>1, <1>2, WithBuiltinsOk, Zenon
<1>6. Customs(records) = {}
  BY <1>4, <1>5, NoRecordParts, IdsFit DEF Customs, RecordsOk
<1>7. CustomNames(records) = {} /\ Delegating(records) = {}
  BY <1>6 DEF CustomNames, Delegating
<1>8. records[PrimaryId].enabled
  <2>1. PrimaryId \in BuiltinIds /\ records[PrimaryId] = Factory(PrimaryId, TRUE, 1) /\ 1 \in Nat
    BY <1>3, IdsFit
  <2>2. Factory(PrimaryId, TRUE, 1).enabled = TRUE
    <3>1. \A deny, readOnly : Record("builtin", TRUE, deny, readOnly, FALSE, FALSE, 1).enabled = TRUE
      BY DEF Record
    <3> QED
      BY <3>1 DEF Factory
  <2>3. records[PrimaryId].enabled = TRUE
    BY <2>1, <2>2
  <2> QED
    BY <2>3
<1>9. Registry
  BY <1>1, <1>5, <1>7, <1>8, BuiltSound DEF Registry, Registered2
<1>10. FlagsOk
  <2>1. ASSUME NEW b \in FactoryReadOnly PROVE records[b].readOnly
    <3>1. b \in BuiltinIds /\ records[b] = Factory(b, TRUE, 1) /\ 1 \in Nat
      BY <1>3, IdsFit
    <3> DEFINE made == Factory(b, TRUE, 1)
    <3>2. b \in FactoryReadOnly => made.readOnly
      BY <3>1, FactoryOk
    <3>3. records[b] = made
      BY <3>1
    <3> HIDE DEF made
    <3> QED
      BY <2>1, <3>2, <3>3, Zenon
  <2> QED
    BY <1>1, <2>1 DEF FlagsOk
<1> QED
  BY <1>1, <1>5, <1>9, <1>10 DEF CatalogInv

LEMMA CatalogHolds == CatalogSpec => []CatalogInv
<1> QED
  BY CatalogStart, CatalogStep, PTL DEF CatalogSpec

LEMMA CatalogInvSound == CatalogInv => AgentCatalogTypeOK /\ FloorKept /\ RegistrySound
<1> SUFFICES ASSUME CatalogInv PROVE AgentCatalogTypeOK /\ FloorKept /\ RegistrySound
  OBVIOUS
<1>1. AgentCatalogTypeOK
  BY IdsFit DEF CatalogInv, RecordsOk, FlagsOk, AgentCatalogTypeOK
<1>2. FloorKept
  BY IdsFit DEF CatalogInv, RecordsOk, FlagsOk, FloorKept
<1>3. RegistrySound
  BY DEF CatalogInv, Registry, RegistrySound
<1> QED
  BY <1>1, <1>2, <1>3

-----------------------------------------------------------------------------
(* AgentCatalog: the choice of an agent *)

CapsOfAll == UNION {AgentCaps[a] : a \in RoutedAgents}

LEMMA CoveredFits ==
    ASSUME NEW q, NEW a \in RoutedAgents
    PROVE  Covered(a, q) \in 0 .. Cardinality(CapsOfAll)
<1>1. IsFiniteSet(CapsOfAll) /\ AgentCaps[a] \cap Required(q) \subseteq CapsOfAll
  BY RoutingAssumption DEF CapsOfAll
<1>2. /\ IsFiniteSet(AgentCaps[a] \cap Required(q))
      /\ Cardinality(AgentCaps[a] \cap Required(q)) <= Cardinality(CapsOfAll)
  BY <1>1, FS_Subset
<1>3. Cardinality(AgentCaps[a] \cap Required(q)) \in Nat /\ Cardinality(CapsOfAll) \in Nat
  BY <1>1, <1>2, FS_CardinalityType
<1> QED
  BY <1>2, <1>3 DEF Covered

LEMMA FavouredFits ==
    ASSUME NEW q, NEW a
    PROVE  Favoured(a, q) \in 0 .. Len(Specialties) /\ Len(Specialties) \in Nat
<1>1. Len(Specialties) \in Nat /\ DOMAIN Specialties = 1 .. Len(Specialties)
  BY RoutingAssumption
<1>2. CASE \E n \in DOMAIN Specialties : SpecialistOf[Specialties[n]] = a /\ Specialties[n] \in Required(q)
  <2> DEFINE n == CHOOSE n \in DOMAIN Specialties : SpecialistOf[Specialties[n]] = a
  <2>1. n \in DOMAIN Specialties
    BY <1>2
  <2>2. Favoured(a, q) = 1 + Len(Specialties) - n
    BY <1>2 DEF Favoured
  <2> HIDE DEF n
  <2> QED
    BY <1>1, <2>1, <2>2
<1>3. CASE ~\E n \in DOMAIN Specialties : SpecialistOf[Specialties[n]] = a /\ Specialties[n] \in Required(q)
  BY <1>1, <1>3 DEF Favoured
<1> QED
  BY <1>2, <1>3

InquiryInv ==
    inquiry.registry \in Seq(RoutedAgents) /\ PrimaryId \in ToSet(inquiry.registry)

\* Someone leads: coverage first, then favour, then the primary agent.
LEMMA SomeoneLeads ==
    ASSUME NEW q, q.registry \in Seq(RoutedAgents), PrimaryId \in ToSet(q.registry)
    PROVE  Leading(q) # {}
<1> DEFINE r == q.registry
           D == DOMAIN r
           cov == {Covered(r[n], q) : n \in D}
<1>1. D = 1 .. Len(r) /\ Len(r) \in Nat /\ \A n \in D : r[n] \in RoutedAgents
  OBVIOUS
<1>2. D # {}
  BY DEF ToSet
<1>3. cov \subseteq 0 .. Cardinality(CapsOfAll) /\ cov # {} /\ Cardinality(CapsOfAll) \in Nat
  <2>1. Cardinality(CapsOfAll) \in Nat
    BY RoutingAssumption, FS_CardinalityType DEF CapsOfAll
  <2> QED
    BY <1>1, <1>2, <2>1, CoveredFits
<1>4. PICK c \in cov : \A d \in cov : d <= c
  BY <1>3, LargestNumber
<1> DEFINE best == {n \in D : Covered(r[n], q) = c}
           fav == {Favoured(r[n], q) : n \in best}
<1>5. best # {} /\ best \subseteq D /\ \A n \in D : Covered(r[n], q) <= c
  BY <1>4
<1>6. fav \subseteq 0 .. Len(Specialties) /\ fav # {} /\ Len(Specialties) \in Nat
  BY <1>5, FavouredFits
<1>7. PICK f \in fav : \A g \in fav : g <= f
  BY <1>6, LargestNumber
<1> DEFINE top == {n \in best : Favoured(r[n], q) = f}
<1>8. top # {} /\ top \subseteq best /\ \A n \in best : Favoured(r[n], q) <= f
  BY <1>7
<1>9. \A n \in D : Covered(r[n], q) \in Nat /\ Favoured(r[n], q) \in Nat
  BY <1>1, CoveredFits, FavouredFits
<1>10. c \in Nat /\ f \in Nat
  BY <1>4, <1>3, <1>7, <1>6
<1>11. PICK n \in top : (\E m \in top : r[m] = PrimaryId) => r[n] = PrimaryId
  BY <1>8
<1>12. n \in D /\ Covered(r[n], q) = c /\ Favoured(r[n], q) = f
  BY <1>5, <1>8, <1>11
<1>13. ASSUME NEW m \in D, Ahead(r[m], r[n], q) PROVE FALSE
  <2>1. Covered(r[m], q) <= c /\ (Covered(r[m], q) = c => Favoured(r[m], q) <= f)
    BY <1>5, <1>8
  <2>2. Covered(r[m], q) = c /\ Favoured(r[m], q) = f /\ r[m] = PrimaryId /\ r[n] # PrimaryId
    <3> DEFINE cm == Covered(r[m], q)
               fm == Favoured(r[m], q)
    <3>1. cm \in Nat /\ fm \in Nat /\ cm <= c /\ (cm = c => fm <= f)
      BY <1>9, <2>1
    <3>2. cm > c \/ (cm = c /\ fm > f) \/ (cm = c /\ fm = f /\ r[m] = PrimaryId /\ r[n] # PrimaryId)
      BY <1>12, <1>13 DEF Ahead
    <3> HIDE DEF cm, fm
    <3>3. cm = c /\ fm = f /\ r[m] = PrimaryId /\ r[n] # PrimaryId
      BY <1>10, <3>1, <3>2
    <3> QED
      BY <3>3 DEF cm, fm
  <2>3. m \in top
    BY <2>2
  <2> QED
    BY <1>11, <2>2, <2>3
<1>14. n \in Leading(q)
  BY <1>12, <1>13 DEF Leading
<1> QED
  BY <1>14

LEMMA ForemostLeads ==
    ASSUME NEW q, q.registry \in Seq(RoutedAgents), PrimaryId \in ToSet(q.registry)
    PROVE  /\ Foremost2(q) \in ToSet(q.registry) /\ Foremost2(q) \in RoutedAgents
           /\ \A a \in ToSet(q.registry) : Covered(a, q) <= Covered(Foremost2(q), q)
<1> DEFINE r == q.registry
           n == CHOOSE n \in Leading(q) : \A m \in Leading(q) : n <= m
<1>1. DOMAIN r = 1 .. Len(r) /\ Len(r) \in Nat /\ \A m \in DOMAIN r : r[m] \in RoutedAgents
  OBVIOUS
<1>2. Leading(q) \subseteq Nat /\ Leading(q) # {}
  <2>1. Leading(q) \subseteq DOMAIN r
    BY DEF Leading
  <2> HIDE DEF r
  <2> QED
    BY <1>1, <2>1, SomeoneLeads
<1>3. n \in Leading(q)
  BY <1>2, LeastNumber
<1>4. Foremost2(q) = r[n]
  BY DEF Foremost2
<1> HIDE DEF n
<1>5. n \in DOMAIN r /\ \A m \in DOMAIN r : ~Ahead(r[m], r[n], q)
  BY <1>3 DEF Leading
<1>6. r[n] \in ToSet(r) /\ r[n] \in RoutedAgents
  BY <1>1, <1>5 DEF ToSet
<1>7. ASSUME NEW a \in ToSet(r) PROVE Covered(a, q) <= Covered(r[n], q)
  <2>1. PICK m \in DOMAIN r : a = r[m]
    BY DEF ToSet
  <2>2. ~(Covered(a, q) > Covered(r[n], q))
    BY <1>5, <2>1 DEF Ahead
  <2>3. Covered(a, q) \in Nat /\ Covered(r[n], q) \in Nat
    BY <1>1, <1>6, <2>1, CoveredFits
  <2> QED
    BY <2>2, <2>3
<1> QED
  BY <1>4, <1>6, <1>7

LEMMA InquiryStart == InquiryInit => InquiryInv
<1> SUFFICES ASSUME InquiryInit PROVE InquiryInv
  OBVIOUS
<1>1. inquiry.registry = <<PrimaryId>>
  BY DEF InquiryInit, NoInquiry
<1>2. <<PrimaryId>> \in Seq(RoutedAgents) /\ PrimaryId \in ToSet(<<PrimaryId>>)
  BY RoutingAssumption DEF ToSet
<1> QED
  BY <1>1, <1>2 DEF InquiryInv

LEMMA InquiryStep == InquiryInv /\ [InquiryNext]_inquiryVars => InquiryInv'
<1> SUFFICES ASSUME InquiryInv, [InquiryNext]_inquiryVars PROVE InquiryInv'
  OBVIOUS
<1>1. CASE InquiryNext
  <2>1. PICK registry \in Registries : inquiry'.registry = registry
    BY <1>1 DEF InquiryNext
  <2> QED
    BY <2>1, RoutingAssumption DEF InquiryInv
<1>2. CASE UNCHANGED inquiryVars
  BY <1>2 DEF inquiryVars, InquiryInv
<1> QED
  BY <1>1, <1>2

LEMMA InquiryInvSound == InquiryInv => RouteSound
<1> SUFFICES ASSUME InquiryInv PROVE RouteSound
  OBVIOUS
<1> DEFINE to == RouteAgent(inquiry)
           first == Foremost2(inquiry)
<1>1. /\ first \in ToSet(inquiry.registry) /\ first \in RoutedAgents
      /\ \A a \in ToSet(inquiry.registry) : Covered(a, inquiry) <= Covered(first, inquiry)
  BY ForemostLeads DEF InquiryInv
<1>2. Covered(first, inquiry) \in Nat
  BY <1>1, CoveredFits
<1>3. PrimaryId \in ToSet(inquiry.registry)
  BY DEF InquiryInv
<1>4. inquiry.asked = PrimaryId =>
        \/ to = "review-agent" /\ inquiry.preset = "review" /\ to \in ToSet(inquiry.registry)
        \/ to = PrimaryId
        \/ to = first /\ Covered(first, inquiry) # 0
  BY DEF RouteAgent, Stays
<1> HIDE DEF to, first
<1>5. inquiry.asked = PrimaryId => to \in ToSet(inquiry.registry)
  BY <1>1, <1>3, <1>4
<1>6. ASSUME inquiry.asked = PrimaryId, inquiry.preset = "none", to # PrimaryId
      PROVE  Covered(to, inquiry) > 0 /\ \A a \in ToSet(inquiry.registry) : Covered(a, inquiry) <= Covered(to, inquiry)
  <2>1. to = first /\ Covered(first, inquiry) # 0
    BY <1>4, <1>6
  <2> QED
    BY <1>1, <1>2, <2>1
<1> QED
  BY <1>5, <1>6 DEF RouteSound, to

(* The builtins keep their floors, the registry follows the records and a
   message goes to a registered agent that covers most of what it needs,
   whatever agents, lists and capabilities there are. *)
THEOREM AgentCatalogSoundHolds == CatalogSpec /\ InquirySpec => []AgentCatalogSound
<1>1. CatalogInv /\ InquiryInv => AgentCatalogSound
  BY CatalogInvSound, InquiryInvSound DEF AgentCatalogSound
<1>2. InquirySpec => []InquiryInv
  BY InquiryStart, InquiryStep, PTL DEF InquirySpec
<1> QED
  BY <1>1, <1>2, CatalogHolds, PTL

-----------------------------------------------------------------------------
(* Settings and what kept them. *)

\* An override is a value the section's model accepts, of a field that is no secret.
Admitted(kept) ==
    \A f \in Fields : kept[f] # Unset => f \notin Sensitive /\ kept[f] \in Acceptable[f]

OverridesTyped ==
    /\ persistent \in Overrides /\ transient \in Overrides /\ onDisk \in Overrides
    /\ settings \in [Fields -> Values] /\ lingering \subseteq Fields /\ unwritten \subseteq Fields
    /\ saveFailures \in 0 .. MaxSaveFailures

\* The settings are the environment's with the persistent kept, but where
\* a reset or a transient override is noted; the file has the kept, but
\* where a failed write is noted.
Layered ==
    \A f \in Fields :
        /\ transient[f] = Unset /\ f \notin lingering => settings[f] = Applied(persistent)[f]
        /\ f \notin unwritten => onDisk[f] = persistent[f]

OnlyAdmitted ==
    /\ Admitted(persistent) /\ Admitted(onDisk)
    /\ \A f \in Fields : settings[f] # Env[f] => f \notin Sensitive /\ settings[f] \in Acceptable[f]

\* What get_value finds is what the backend reads, unless it is hidden.
Uncovered ==
    \A f \in Fields : Effective(f) # settings[f] => transient[f] # Unset /\ persistent[f] = settings[f]

OverridesInv == OverridesTyped /\ Uncovered /\ Layered /\ OnlyAdmitted

LEMMA OverridesInitially == SettingsInit => OverridesInv
<1> SUFFICES ASSUME SettingsInit PROVE OverridesInv
  OBVIOUS
<1> USE SettingsAssumption DEF SettingsInit, NoOverrides
<1>1. OverridesTyped
  BY DEF OverridesTyped, Overrides
<1>2. Uncovered
  BY DEF Uncovered, Effective
<1>3. Layered
  BY DEF Layered, Applied
<1>4. OnlyAdmitted
  BY DEF OnlyAdmitted, Admitted
<1> QED
  BY <1>1, <1>2, <1>3, <1>4 DEF OverridesInv

\* What a save leaves: the file is as before, and the change noted, or complete.
LEMMA SaveKeeps ==
    ASSUME OverridesInv, persistent' \in Overrides, Admitted(persistent'), NEW changed \in SUBSET Fields,
           \A f \in Fields \ changed : persistent'[f] = persistent[f], Save(persistent', changed)
    PROVE  /\ onDisk' \in Overrides /\ unwritten' \subseteq Fields /\ saveFailures' \in 0 .. MaxSaveFailures
           /\ Admitted(onDisk') /\ \A f \in Fields : f \notin unwritten' => onDisk'[f] = persistent'[f]
<1>1. CASE onDisk' = persistent' /\ unwritten' = {} /\ UNCHANGED saveFailures
  BY <1>1 DEF OverridesInv, OverridesTyped
<1>2. CASE /\ saveFailures < MaxSaveFailures /\ saveFailures' = saveFailures + 1
           /\ unwritten' = unwritten \union changed /\ UNCHANGED onDisk
  <2>1. saveFailures' \in 0 .. MaxSaveFailures
    BY <1>2, SettingsAssumption DEF OverridesInv, OverridesTyped
  <2>2. onDisk' \in Overrides /\ unwritten' \subseteq Fields /\ Admitted(onDisk')
    BY <1>2 DEF OverridesInv, OverridesTyped, OnlyAdmitted
  <2>3. ASSUME NEW f \in Fields, f \notin unwritten' PROVE onDisk'[f] = persistent'[f]
    BY <1>2, <2>3 DEF OverridesInv, Layered
  <2> QED
    BY <2>1, <2>2, <2>3
<1> QED
  BY <1>1, <1>2 DEF Save

LEMMA OverridesNextKeeps == OverridesInv /\ [SettingsNext]_settingsVars => OverridesInv'
<1> SUFFICES ASSUME OverridesInv, [SettingsNext]_settingsVars PROVE OverridesInv'
  OBVIOUS
<1>1. CASE RestartSettings
  <2>1. /\ persistent' = onDisk /\ transient' = NoOverrides /\ settings' = Applied(onDisk)
        /\ lingering' = {} /\ unwritten' = {} /\ onDisk' = onDisk /\ saveFailures' = saveFailures
    BY <1>1 DEF RestartSettings
  <2>2. OverridesTyped'
    BY <2>1, SettingsAssumption DEF OverridesInv, OverridesTyped, Overrides, NoOverrides, Applied
  <2>3. Uncovered'
    BY <2>1, SettingsAssumption DEF Uncovered, Effective, NoOverrides, Applied, OverridesInv, OverridesTyped, Overrides
  <2>4. Layered'
    BY <2>1 DEF Layered, Applied
  <2>5. OnlyAdmitted'
    BY <2>1 DEF OverridesInv, OnlyAdmitted, Admitted, Applied
  <2> QED
    BY <2>2, <2>3, <2>4, <2>5 DEF OverridesInv
<1>2. ASSUME NEW s \in Sections, NEW fs \in SUBSET Fields, NEW updates \in [fs -> Values], UpdateSection(s, updates)
      PROVE  OverridesInv'
  <2>1. PICK good \in SUBSET Fields :
          /\ good = {f \in fs : Accepted(s, f, updates[f])}
          /\ persistent' = [f \in Fields |-> IF f \in good THEN updates[f] ELSE persistent[f]]
          /\ settings' = [f \in Fields |-> IF f \in good THEN updates[f] ELSE settings[f]]
          /\ lingering' = lingering \ good /\ Save(persistent', good) /\ UNCHANGED transient
    <3> DEFINE good == {f \in fs : Accepted(s, f, updates[f])}
    <3>1. DOMAIN updates = fs
      OBVIOUS
    <3>2. good \in SUBSET Fields
      OBVIOUS
    <3>3. /\ persistent' = [f \in Fields |-> IF f \in good THEN updates[f] ELSE persistent[f]]
          /\ settings' = [f \in Fields |-> IF f \in good THEN updates[f] ELSE settings[f]]
          /\ lingering' = lingering \ good /\ Save(persistent', good) /\ UNCHANGED transient
      BY <1>2, <3>1 DEF UpdateSection
    <3> QED
      BY <3>2, <3>3
  <2>2. \A f \in good : updates[f] \in Values /\ updates[f] # Unset /\ f \notin Sensitive /\ updates[f] \in Acceptable[f]
    BY <2>1, SettingsAssumption DEF Accepted
  <2>3. /\ persistent' \in Overrides /\ settings' \in [Fields -> Values]
        /\ \A f \in good : persistent'[f] = updates[f] /\ settings'[f] = updates[f]
        /\ \A f \in Fields \ good : persistent'[f] = persistent[f] /\ settings'[f] = settings[f]
    BY <2>1, <2>2 DEF OverridesInv, OverridesTyped, Overrides
  <2>4. Admitted(persistent')
    BY <2>2, <2>3 DEF OverridesInv, OnlyAdmitted, Admitted
  <2>5. /\ onDisk' \in Overrides /\ unwritten' \subseteq Fields /\ saveFailures' \in 0 .. MaxSaveFailures
        /\ Admitted(onDisk') /\ \A f \in Fields : f \notin unwritten' => onDisk'[f] = persistent'[f]
    BY <2>1, <2>3, <2>4, SaveKeeps
  <2>6. OverridesTyped'
    BY <2>1, <2>3, <2>5 DEF OverridesInv, OverridesTyped
  <2>7. Uncovered'
    BY <2>1, <2>2, <2>3 DEF OverridesInv, Uncovered, Effective
  <2>8. Layered'
    BY <2>1, <2>2, <2>3, <2>5 DEF OverridesInv, Layered, Applied
  <2>9. OnlyAdmitted'
    BY <2>2, <2>3, <2>4, <2>5 DEF OverridesInv, OnlyAdmitted
  <2> QED
    BY <2>6, <2>7, <2>8, <2>9 DEF OverridesInv
<1>3. ASSUME NEW s \in Sections, NEW f \in Fields, NEW v \in Values, OverrideForNow(s, f, v) PROVE OverridesInv'
  <2>1. /\ transient' = [transient EXCEPT ![f] = v] /\ settings' = [settings EXCEPT ![f] = v]
        /\ UNCHANGED <<persistent, onDisk, lingering, unwritten, saveFailures>>
        /\ f \notin Sensitive /\ v \in Acceptable[f] /\ v # Unset
    BY <1>3, SettingsAssumption DEF OverrideForNow, Accepted
  <2>2. OverridesTyped'
    BY <2>1 DEF OverridesInv, OverridesTyped, Overrides
  <2>3. /\ transient'[f] = v /\ settings'[f] = v
        /\ \A g \in Fields \ {f} : transient'[g] = transient[g] /\ settings'[g] = settings[g]
    BY <2>1 DEF OverridesInv, OverridesTyped, Overrides
  <2>4. Uncovered'
    BY <2>1, <2>3 DEF OverridesInv, Uncovered, Effective
  <2>5. Layered'
    BY <2>1, <2>3 DEF OverridesInv, Layered, Applied
  <2>6. OnlyAdmitted'
    BY <2>1, <2>3 DEF OverridesInv, OnlyAdmitted, Admitted
  <2> QED
    BY <2>2, <2>4, <2>5, <2>6 DEF OverridesInv
<1>4. ASSUME NEW s \in Sections, ResetSection(s) PROVE OverridesInv'
  <2>1. /\ persistent' = [f \in Fields |-> IF SectionOf[f] = s THEN Unset ELSE persistent[f]]
        /\ transient' = [f \in Fields |-> IF SectionOf[f] = s THEN Unset ELSE transient[f]]
        /\ lingering' = lingering \union {f \in InSection(s) : settings[f] # Env[f]}
        /\ Save(persistent', InSection(s)) /\ UNCHANGED settings /\ InSection(s) \in SUBSET Fields
    BY <1>4 DEF ResetSection, WithoutSection, InSection
  <2>2. persistent' \in Overrides /\ transient' \in Overrides /\ Admitted(persistent')
    BY <2>1 DEF OverridesInv, OverridesTyped, Overrides, OnlyAdmitted, Admitted
  <2>3. \A f \in Fields \ InSection(s) : persistent'[f] = persistent[f] /\ transient'[f] = transient[f]
    BY <2>1 DEF InSection
  <2>4. \A f \in InSection(s) : f \in Fields /\ persistent'[f] = Unset /\ transient'[f] = Unset
    BY <2>1 DEF InSection
  <2>5. /\ onDisk' \in Overrides /\ unwritten' \subseteq Fields /\ saveFailures' \in 0 .. MaxSaveFailures
        /\ Admitted(onDisk') /\ \A f \in Fields : f \notin unwritten' => onDisk'[f] = persistent'[f]
    BY <2>1, <2>2, <2>3, SaveKeeps
  <2>6. OverridesTyped'
    BY <2>1, <2>2, <2>5 DEF OverridesInv, OverridesTyped
  <2>7. Uncovered'
    BY <2>1, <2>3, <2>4 DEF OverridesInv, Uncovered, Effective
  <2>8. Layered'
    BY <2>1, <2>3, <2>4, <2>5 DEF OverridesInv, Layered, Applied
  <2>9. OnlyAdmitted'
    BY <2>1, <2>2, <2>5 DEF OverridesInv, OnlyAdmitted
  <2> QED
    BY <2>6, <2>7, <2>8, <2>9 DEF OverridesInv
<1>5. CASE UNCHANGED settingsVars
  BY <1>5 DEF settingsVars, OverridesInv, OverridesTyped, Uncovered, Effective, Layered, OnlyAdmitted
<1> QED
  BY <1>1, <1>2, <1>3, <1>4, <1>5 DEF SettingsNext

-----------------------------------------------------------------------------
(* Configurations of tools and added patterns. *)

ToolConfigInv ==
    /\ ToolConfigsKept /\ toolUnsaved \subseteq ToolNames
    /\ DOMAIN toolConfigs = ToolNames /\ DOMAIN toolFile = ToolNames
    /\ extended \in Seq(Patterns \ BadPatterns) /\ Len(extended) <= MaxPatterns

\* A change of one place leaves the others.
LEMMA Untouched ==
    ASSUME NEW h, NEW a, NEW b, NEW c \in (DOMAIN h) \ {a} PROVE [h EXCEPT ![a] = b][c] = h[c]
OBVIOUS

LEMMA ToolConfigInitially == ToolConfigInit => ToolConfigInv
  BY PatternsAssumption DEF ToolConfigInit, ToolConfigInv, ToolConfigsKept

LEMMA ToolConfigNextKeeps == ToolConfigInv /\ [ToolConfigNext]_toolConfigVars => ToolConfigInv'
<1> SUFFICES ASSUME ToolConfigInv, [ToolConfigNext]_toolConfigVars PROVE ToolConfigInv'
  OBVIOUS
<1>0. ASSUME NEW t \in ToolNames, PersistTool(t), UNCHANGED extended, DOMAIN toolConfigs' = ToolNames,
             \A u \in ToolNames \ {t} : toolConfigs'[u] = toolConfigs[u]
      PROVE  ToolConfigInv'
  <2>1. CASE toolFile' = toolConfigs' /\ toolUnsaved' = {}
    BY <1>0, <2>1 DEF ToolConfigInv, ToolConfigsKept
  <2>2. CASE toolUnsaved' = toolUnsaved \union {t} /\ UNCHANGED toolFile
    BY <1>0, <2>2 DEF ToolConfigInv, ToolConfigsKept
  <2> QED
    BY <1>0, <2>1, <2>2 DEF PersistTool
<1>1. ASSUME NEW t \in ToolNames, UpdateTool(t) PROVE ToolConfigInv'
  <2>1. PersistTool(t) /\ UNCHANGED extended /\ DOMAIN toolConfigs' = ToolNames
    BY <1>1 DEF UpdateTool, ToolConfigInv
  <2>2. \A u \in ToolNames \ {t} : toolConfigs'[u] = toolConfigs[u]
    BY <1>1, Untouched DEF UpdateTool, ToolConfigInv
  <2> QED
    BY <1>0, <2>1, <2>2
<1>2. ASSUME NEW t \in ToolNames, ResetTool(t) PROVE ToolConfigInv'
  <2>1. PersistTool(t) /\ UNCHANGED extended /\ DOMAIN toolConfigs' = ToolNames
    BY <1>2 DEF ResetTool, ToolConfigInv
  <2>2. \A u \in ToolNames \ {t} : toolConfigs'[u] = toolConfigs[u]
    BY <1>2, Untouched DEF ResetTool, ToolConfigInv
  <2> QED
    BY <1>0, <2>1, <2>2
<1>3. CASE ListTools2
  BY <1>3 DEF ToolConfigInv, ToolConfigsKept, ListTools2
<1>4. CASE RestartTools
  BY <1>4, PatternsAssumption DEF ToolConfigInv, ToolConfigsKept, RestartTools
<1>5. ASSUME NEW p \in Patterns, AddPattern(p) PROVE ToolConfigInv'
  <2>1. /\ extended' = Append(extended, p) /\ p \in Patterns \ BadPatterns /\ Len(extended) < MaxPatterns
        /\ UNCHANGED <<toolConfigs, toolFile, toolUnsaved>>
    BY <1>5 DEF AddPattern
  <2>2. extended' \in Seq(Patterns \ BadPatterns) /\ Len(extended') = Len(extended) + 1
    BY <2>1, AppendProperties DEF ToolConfigInv
  <2>3. Len(extended) \in Nat
    BY DEF ToolConfigInv
  <2> QED
    BY <2>1, <2>2, <2>3, PatternsAssumption DEF ToolConfigInv, ToolConfigsKept
<1>6. CASE UNCHANGED toolConfigVars
  BY <1>6 DEF ToolConfigInv, ToolConfigsKept, toolConfigVars
<1> QED
  BY <1>1, <1>2, <1>3, <1>4, <1>5, <1>6 DEF ToolConfigNext

-----------------------------------------------------------------------------
(* Clients are told what is used, a restart brings back what was set, and no
   secret and no value a section refuses gets in, in whatever order updates,
   resets, failed writes and restarts come (config_service.py,
   tool_config_store.py). *)
THEOREM SettingsSoundHolds == SettingsSpec /\ ToolConfigSpec => []SettingsSound
<1> DEFINE SInv == OverridesInv /\ ToolConfigInv
<1>1. SettingsInit /\ ToolConfigInit => SInv
  BY OverridesInitially, ToolConfigInitially
<1>2. SInv /\ [SettingsNext]_settingsVars /\ [ToolConfigNext]_toolConfigVars => SInv'
  BY OverridesNextKeeps, ToolConfigNextKeeps
<1>3. SInv => SettingsSound
  <2> SUFFICES ASSUME SInv PROVE SettingsSound
    OBVIOUS
  <2>1. SettingsTypeOK
    BY DEF SettingsTypeOK, OverridesInv, OverridesTyped, ToolConfigInv
  <2>2. RestartKeeps
    BY DEF RestartKeeps, OverridesInv, Layered, Applied
  <2>3. OnlyAcceptable
    <3>1. ToSet(extended) \subseteq Patterns \ BadPatterns
      <4>1. extended \in Seq(Patterns \ BadPatterns) /\ DOMAIN extended = 1 .. Len(extended)
        BY DEF ToolConfigInv
      <4> QED
        BY <4>1 DEF ToSet
    <3> QED
      BY <3>1 DEF OnlyAcceptable, OverridesInv, OnlyAdmitted
  <2>4. ToldIsUsed /\ ToolConfigsKept
    BY DEF OverridesInv, Uncovered, ToldIsUsed, Presented, Respelt, ToolConfigInv
  <2> QED
    BY <2>1, <2>2, <2>3, <2>4 DEF SettingsSound
<1> QED
  BY <1>1, <1>2, <1>3, PTL DEF SettingsSpec, ToolConfigSpec

-----------------------------------------------------------------------------
(* ToolHost: an execution in the sandbox. *)

BoxShapes ==
    [flaws : SUBSET Flaws, strategy : {"process", "docker"}, at : {"new", "checked", "ready", "waiting", "over"},
     dir : BOOLEAN, child : {"none", "running", "ended", "killed"}, container : BOOLEAN, timedOut : BOOLEAN,
     exit : {-1, 0, 1},
     outcome : {"none", "unsupported_language", "network_blocked", "filesystem_blocked",
                "dangerous_construct_blocked", "runtime_unavailable", "raised", "execution_error", "timeout",
                "success", "failed", "cancelled"},
     spoilt : BOOLEAN]

\* Nothing is started of code with a flaw, and before the process nothing of it
\* is there; a process is killed at its time limit alone.
BoxInv ==
    /\ box \in BoxShapes
    /\ box.at \in {"checked", "ready", "waiting"} => box.flaws = {}
    /\ box.at \in {"new", "checked", "ready"} => (box.child = "none" /\ ~box.container /\ ~box.timedOut)
    /\ box.at \in {"new", "checked"} => ~box.dir
    /\ box.at # "over" => box.outcome = "none"
    /\ box.at = "waiting" => (box.child # "none" /\ (box.child = "killed" => box.timedOut))
    /\ box.container => (box.strategy = "docker" /\ box.child \in {"running", "killed"})
    /\ SandboxSound

LEMMA BoxInitially == BoxInit => BoxInv
  BY DEF BoxInit, BoxInv, BoxShapes, SandboxSound, Flaws

LEMMA BoxNextKeeps == BoxInv /\ [BoxNext]_sandboxVars => BoxInv'
<1> SUFFICES ASSUME BoxInv, [BoxNext]_sandboxVars PROVE BoxInv'
  OBVIOUS
<1> USE DEF BoxInv, BoxShapes, SandboxSound
<1>1. CASE CheckCode
  <2>1. FirstFlaw = "none" => box.flaws = {}
    BY DEF FirstFlaw, Flaws
  <2>2. FirstFlaw \in {"none", "unsupported_language", "network_blocked", "filesystem_blocked",
                       "dangerous_construct_blocked"}
    BY DEF FirstFlaw
  <2>3. CASE FirstFlaw = "none"
    BY <1>1, <2>1, <2>3 DEF CheckCode
  <2>4. CASE FirstFlaw # "none"
    BY <1>1, <2>2, <2>4 DEF CheckCode, Leaves2
  <2> QED
    BY <2>3, <2>4
<1>2. CASE RuntimeMissing
  BY <1>2 DEF RuntimeMissing, Leaves2
<1>3. CASE MakeDirectory
  BY <1>3 DEF MakeDirectory
<1>4. CASE WriteFails
  BY <1>4 DEF WriteFails, Leaves2
<1>5. CASE SpawnFails
  BY <1>5 DEF SpawnFails, Cleared, Leaves2
<1>6. CASE SpawnBox
  BY <1>6 DEF SpawnBox
<1>7. ASSUME NEW code \in {0, 1}, Exits(code) PROVE BoxInv'
  BY <1>7 DEF Exits
<1>8. CASE BoxTimesOut
  BY <1>8 DEF BoxTimesOut
<1>9. CASE BoxReturns
  <2> DEFINE o == IF box.timedOut THEN "timeout" ELSE IF box.exit = 0 THEN "success" ELSE "failed"
  <2>1. CASE box.timedOut
    <3>1. o = "timeout"
      BY <2>1, <1>9 DEF BoxReturns
    <3>2. box' = Cleared(Leaves2(box, o)) /\ box.at = "waiting" /\ box.child # "running"
      BY <1>9 DEF BoxReturns
    <3> HIDE DEF o
    <3> QED
      BY <2>1, <3>1, <3>2 DEF Cleared, Leaves2
  <2>2. CASE ~box.timedOut
    <3>1. o \in {"success", "failed"} /\ (o = "success" => box.exit = 0)
      BY <2>2
    <3>2. box' = Cleared(Leaves2(box, o)) /\ box.at = "waiting" /\ box.child # "running"
      BY <1>9 DEF BoxReturns
    <3>3. box.child \in {"ended", "killed"} /\ (box.child = "killed" => box.timedOut)
      BY <3>2
    <3> HIDE DEF o
    <3> QED
      BY <2>2, <3>1, <3>2, <3>3 DEF Cleared, Leaves2
  <2> QED
    BY <2>1, <2>2
<1>10. CASE BoxCancelled
  BY <1>10 DEF BoxCancelled, Cleared, Leaves2
<1>11. CASE UNCHANGED sandboxVars
  BY <1>11 DEF sandboxVars
<1> QED
  BY <1>1, <1>2, <1>3, <1>4, <1>5, <1>6, <1>7, <1>8, <1>9, <1>10, <1>11 DEF BoxNext

-----------------------------------------------------------------------------
(* ToolHost: a fetch. *)

FetchShapes ==
    [host : Hosts, scheme : {"http", "https", "other"}, at : {"checking", "asking", "answering", "over"},
     redirects : 0 .. MaxRedirects, pinned : {"none", "public"}, outcome : {"none", "error", "text"},
     bytes : 0 .. SizeLimit]

\* What is asked was found safe, and http is pinned to what was found.
WebInv ==
    /\ fetch \in FetchShapes /\ dns \in [Hosts -> {"public", "private", "mixed"}]
    /\ fetch.at = "asking" => /\ fetch.scheme \in {"http", "https"}
                              /\ fetch.scheme = "http" => fetch.pinned = "public"
    /\ \A k \in contacted : k.scheme \in {"http", "https"} /\ (k.scheme = "http" => k.address = "public")

LEMMA WebInitially == WebInit => WebInv
  BY WebAssumption DEF WebInit, WebInv, FetchShapes, SizeLimit

LEMMA WebNextKeeps == WebInv /\ [WebNext]_webVars => WebInv'
<1> SUFFICES ASSUME WebInv, [WebNext]_webVars PROVE WebInv'
  OBVIOUS
<1> USE WebAssumption DEF WebInv, FetchShapes, SizeLimit
<1>1. ASSUME NEW h \in Hosts, NEW sort \in {"public", "private", "mixed"}, NamesChange(h, sort) PROVE WebInv'
  BY <1>1 DEF NamesChange
<1>2. CASE CheckTarget
  <2>1. CASE Verdict(fetch.host, fetch.scheme) = "safe"
    BY <1>2, <2>1 DEF CheckTarget, Verdict
  <2>2. CASE Verdict(fetch.host, fetch.scheme) # "safe"
    BY <1>2, <2>2 DEF CheckTarget, FetchOver
  <2> QED
    BY <2>1, <2>2
<1>3. CASE Contact
  <2> DEFINE k == [address |-> IF fetch.pinned # "none" THEN fetch.pinned ELSE dns[fetch.host], scheme |-> fetch.scheme]
  <2>1. k.scheme \in {"http", "https"} /\ (k.scheme = "http" => k.address = "public")
    BY <1>3 DEF Contact
  <2>2. contacted' = contacted \union {k} /\ fetch' = [fetch EXCEPT !.at = "answering"] /\ dns' = dns
    BY <1>3 DEF Contact
  <2> HIDE DEF k
  <2> QED
    BY <2>1, <2>2
<1>4. CASE BodyChunk
  <2>1. CASE fetch.bytes + 1 > SizeLimit
    BY <1>4, <2>1 DEF BodyChunk, FetchOver
  <2>2. CASE ~(fetch.bytes + 1 > SizeLimit)
    <3>1. fetch' = [fetch EXCEPT !.bytes = @ + 1] /\ UNCHANGED <<dns, contacted>> /\ fetch.at = "answering"
      BY <1>4, <2>2 DEF BodyChunk
    <3>2. fetch.bytes + 1 \in 0 .. SizeLimit
      BY <2>2
    <3> QED
      BY <3>1, <3>2
  <2> QED
    BY <2>1, <2>2
<1>5. CASE BodyEnds
  BY <1>5 DEF BodyEnds, FetchOver
<1>6. CASE FetchBreaks
  BY <1>6 DEF FetchBreaks, FetchOver
<1>7. ASSUME NEW h \in Hosts, NEW s \in {"http", "https", "other"}, Redirect(h, s) PROVE WebInv'
  <2>1. CASE fetch.redirects + 1 > MaxRedirects
    <3>1. fetch' = [fetch EXCEPT !.at = "over", !.outcome = "error"] /\ UNCHANGED <<dns, contacted>>
      BY <1>7, <2>1 DEF Redirect, FetchOver
    <3> QED
      BY <3>1
  <2>2. CASE ~(fetch.redirects + 1 > MaxRedirects)
    <3>1. /\ fetch' = [fetch EXCEPT !.at = "checking", !.redirects = @ + 1, !.host = h, !.scheme = s]
          /\ UNCHANGED <<dns, contacted>> /\ fetch.at = "answering"
      BY <1>7, <2>2 DEF Redirect
    <3>2. fetch.redirects + 1 \in 0 .. MaxRedirects
      BY <2>2
    <3> QED
      BY <3>1, <3>2
  <2> QED
    BY <2>1, <2>2
<1>8. CASE UNCHANGED webVars
  BY <1>8 DEF webVars
<1> QED
  BY <1>1, <1>2, <1>3, <1>4, <1>5, <1>6, <1>7, <1>8 DEF WebNext

-----------------------------------------------------------------------------
(* ToolHost: commands and jobs. *)

CommandShapes ==
    [kind : {"run", "start"}, leader : Leaders \union {"none"}, safe : BOOLEAN,
     at : {"new", "check", "asking", "checked", "running", "count", "counted", "started", "over", "refused"}, retried : BOOLEAN]

\* Where an override is, was, or is used up.
Backed(c) == cmd[c].leader \in Listed \/ approved[cmd[c].leader] > 0
UsedUp(c) == used[cmd[c].leader] > 0

CommandTypes ==
    /\ cmd \in [Calls2 -> CommandShapes] /\ overrides \subseteq Leaders
    /\ proc \in [Calls2 -> {"none", "running", "ended"}] /\ jobs \subseteq Calls2
    /\ approved \in [Leaders -> Nat] /\ used \in [Leaders -> Nat] /\ crowded \in BOOLEAN
    /\ \A c \in Calls2 : ~IsAt(c, "new") => cmd[c].leader \in Leaders

\* A call asks about an unlisted program, once; the approval it got is in
\* force until it or another call has used it up.
AskedOf(c) ==
    /\ IsAt(c, "asking") => ~cmd[c].retried /\ cmd[c].kind = "run" /\ cmd[c].leader \notin Listed
    /\ cmd[c].retried => /\ cmd[c].kind = "run" /\ cmd[c].safe /\ cmd[c].leader \notin Listed /\ ~IsAt(c, "new")
                         /\ cmd[c].leader \in overrides \/ UsedUp(c) \/ ~IsAt(c, "check")
    /\ cmd[c].retried /\ IsAt(c, "refused") => UsedUp(c)
    /\ IsAt(c, "checked") => Backed(c)
    /\ IsAt(c, "count") \/ AwaitsEntry(c) => cmd[c].kind = "start"
    /\ ~cmd[c].safe => IsAt(c, "check") \/ IsAt(c, "refused")
Asked == \A c \in Calls2 : AskedOf(c)

Granted == \A l \in Leaders \ Listed : (used[l] > 0 \/ l \in overrides) => approved[l] > 0

\* A call that was counted has its place kept, unless two were counted at once.
Places ==
    /\ \A c \in Calls2 : proc[c] = "running" => c \in jobs \/ IsAt(c, "started")
    /\ \A c \in jobs : IsAt(c, "over")
    /\ ~crowded => /\ Cardinality(Active) <= MaxJobs
                   /\ \A c \in Calls2 : AwaitsEntry(c) =>
                        Cardinality(Active) < MaxJobs /\ \A d \in Calls2 : AwaitsEntry(d) => d = c

CommandInv == CommandTypes /\ Asked /\ Granted /\ Places

LEMMA GrowsByOne ==
    ASSUME NEW S \in SUBSET Calls2, NEW c \in Calls2, NEW T \in SUBSET (S \union {c})
    PROVE  Cardinality(T) \in Nat /\ Cardinality(S) \in Nat /\ Cardinality(T) <= Cardinality(S) + 1
<1>1. IsFiniteSet(S) /\ Cardinality(S) \in Nat
  BY ToolHostAssumption, FS_Subset, FS_CardinalityType
<1>2. IsFiniteSet(S \union {c})
      /\ Cardinality(S \union {c}) = IF c \in S THEN Cardinality(S) ELSE Cardinality(S) + 1
  BY <1>1, FS_AddElement
<1>3. Cardinality(T) \in Nat /\ Cardinality(S \union {c}) \in Nat /\ Cardinality(T) <= Cardinality(S \union {c})
  BY <1>2, FS_Subset, FS_CardinalityType
<1> DEFINE k == Cardinality(S)
           m == Cardinality(S \union {c})
           t == Cardinality(T)
<1>4. k \in Nat /\ t \in Nat /\ m \in Nat /\ t <= m /\ (m = k \/ m = k + 1)
  BY <1>1, <1>2, <1>3
<1> HIDE DEF k, m, t
<1>5. t <= k + 1
  BY <1>4
<1> QED
  BY <1>4, <1>5 DEF k, t

\* The processes that run are those of the table and at most one on its way there.
LEMMA JobsWithinLimit ==
    ASSUME CommandInv, ~crowded
    PROVE  Cardinality({c \in Calls2 : proc[c] = "running"}) <= MaxJobs
<1> DEFINE Runs == {c \in Calls2 : proc[c] = "running"}
<1>1. Active \subseteq Calls2 /\ MaxJobs \in Nat
  BY ToolHostAssumption DEF CommandInv, CommandTypes, Active
<1>2. CASE \E c \in Calls2 : AwaitsEntry(c)
  <2>1. PICK c \in Calls2 : AwaitsEntry(c)
    BY <1>2
  <2>2. Runs \subseteq Active \union {c}
    BY <2>1 DEF CommandInv, Places, Active, AwaitsEntry
  <2>3. Cardinality(Active) < MaxJobs
    BY <2>1 DEF CommandInv, Places
  <2> HIDE DEF Runs
  <2>4. Cardinality(Runs) \in Nat /\ Cardinality(Active) \in Nat /\ Cardinality(Runs) <= Cardinality(Active) + 1
    BY <1>1, <2>2, GrowsByOne
  <2>5. Cardinality(Runs) <= MaxJobs
    BY <1>1, <2>3, <2>4
  <2> QED
    BY <2>5 DEF Runs
<1>3. CASE ~\E c \in Calls2 : AwaitsEntry(c)
  <2>1. Runs = Active
    BY <1>1, <1>3 DEF CommandInv, Places, Active, AwaitsEntry
  <2> QED
    BY <2>1 DEF CommandInv, Places
<1> QED
  BY <1>2, <1>3

LEMMA CommandSettles == CommandInv => CommandSound
<1> SUFFICES ASSUME CommandInv PROVE CommandSound
  OBVIOUS
<1>1. ~crowded => Cardinality({c \in Calls2 : proc[c] = "running"}) <= MaxJobs
  BY JobsWithinLimit
<1> QED
  BY <1>1 DEF CommandInv, Asked, AskedOf, Granted, Places, CommandSound, UsedUp, IsAt

LEMMA CommandInitially == CommandInit => CommandInv
<1> SUFFICES ASSUME CommandInit PROVE CommandInv
  OBVIOUS
<1>1. CommandTypes
  BY DEF CommandInit, CommandTypes, CommandShapes, NoCall, IsAt
<1>2. Asked
  BY DEF CommandInit, Asked, AskedOf, NoCall, IsAt, AwaitsEntry
<1>3. Granted
  BY DEF CommandInit, Granted
<1>4. Active = {} /\ Cardinality(Active) = 0
  <2>1. Active = {}
    BY DEF CommandInit, Active
  <2> QED
    BY <2>1, FS_EmptySet
<1>5. Places
  BY <1>4, ToolHostAssumption DEF CommandInit, Places, NoCall, IsAt, AwaitsEntry
<1> QED
  BY <1>1, <1>2, <1>3, <1>5 DEF CommandInv

LEMMA CappedOnce == ASSUME NEW u \in Nat PROVE Min({u + 1, MaxUses + 1}) \in Nat \ {0}
<1>1. MaxUses \in Nat
  BY ToolHostAssumption
<1>2. \E x \in {u + 1, MaxUses + 1} : \A y \in {u + 1, MaxUses + 1} : x <= y
  <2>1. CASE u <= MaxUses
    BY <1>1, <2>1
  <2>2. CASE MaxUses < u
    BY <1>1, <2>2
  <2> QED
    BY <1>1, <2>1, <2>2
<1>3. Min({u + 1, MaxUses + 1}) \in {u + 1, MaxUses + 1}
  BY <1>2 DEF Min
<1> QED
  BY <1>1, <1>3

\* A step that starts no process keeps the places, if it counts no call.
LEMMA PlacesKept ==
    ASSUME CommandInv, CommandTypes', jobs' \subseteq jobs, \A c \in jobs' : IsAt(c, "over")',
           \A c \in Calls2 : proc'[c] = "running" =>
              proc[c] = "running" /\ (c \in jobs' \/ IsAt(c, "started")'),
           \A c \in Calls2 : AwaitsEntry(c)' => AwaitsEntry(c), crowded' = crowded
    PROVE  Places'
<1>1. Active' \subseteq Active /\ IsFiniteSet(Active)
  <2>1. Active' \subseteq Active
    BY DEF CommandInv, CommandTypes, Active
  <2>2. Active \subseteq Calls2
    BY DEF CommandInv, CommandTypes, Active
  <2> QED
    BY <2>1, <2>2, ToolHostAssumption, FS_Subset
<1>2. /\ Cardinality(Active') \in Nat /\ Cardinality(Active) \in Nat
      /\ Cardinality(Active') <= Cardinality(Active)
  BY <1>1, FS_Subset, FS_CardinalityType
<1>3. Cardinality(Active)' = Cardinality(Active')
  OBVIOUS
<1> QED
  BY <1>2, <1>3, ToolHostAssumption DEF CommandInv, Places

LEMMA CommandNextKeeps == CommandInv /\ [CommandNext]_commandVars => CommandInv'
<1> SUFFICES ASSUME CommandInv, [CommandNext]_commandVars PROVE CommandInv'
  OBVIOUS
<1> USE DEF CommandInv
<1>1. ASSUME NEW c \in Calls2, NEW kind \in {"run", "start"}, NEW l \in Leaders, NEW safe \in BOOLEAN,
             CallCommand(c, kind, l, safe)
      PROVE  CommandInv'
  <2>1. CommandTypes'
    BY <1>1 DEF CallCommand, CommandTypes, CommandShapes, IsAt
  <2>2. Asked'
    BY <1>1 DEF CallCommand, CommandTypes, CommandShapes, IsAt, Asked, AskedOf, AwaitsEntry, Backed, UsedUp
  <2>3. Granted'
    BY <1>1 DEF CallCommand, Granted
  <2>4. Places'
    BY <1>1, <2>1, PlacesKept DEF AwaitsEntry, CallCommand, CommandTypes, IsAt, Places
  <2> QED
    BY <2>1, <2>2, <2>3, <2>4
<1>2. ASSUME NEW c \in Calls2, CheckCommand(c) PROVE CommandInv'
  <2>1. CommandTypes'
    BY <1>2 DEF CheckCommand, CmdGoes, CommandTypes, CommandShapes, IsAt
  <2>2. Asked'
    <3> DEFINE l == cmd[c].leader
               place == IF ~cmd[c].safe THEN "refused" ELSE IF Allowlisted(cmd[c].leader) THEN "checked"
                        ELSE IF cmd[c].kind = "run" /\ ~cmd[c].retried THEN "asking" ELSE "refused"
    <3>1. /\ place \in {"refused", "checked", "asking"}
          /\ place = "checked" => cmd[c].safe /\ cmd[c].leader \in Listed \union overrides
          /\ place = "asking" => /\ cmd[c].safe /\ cmd[c].leader \notin Listed /\ cmd[c].kind = "run"
                                 /\ ~cmd[c].retried
          /\ place = "refused" => ~cmd[c].safe \/ cmd[c].leader \notin Listed \union overrides
      <4>1. cmd[c].safe \in BOOLEAN /\ cmd[c].retried \in BOOLEAN /\ cmd[c].kind \in {"run", "start"}
        BY DEF CommandTypes, CommandShapes
      <4>2. CASE ~cmd[c].safe
        <5>1. place = "refused"
          BY <4>2
        <5> HIDE DEF place
        <5> QED
          BY <4>2, <5>1
      <4>3. CASE cmd[c].safe /\ Allowlisted(cmd[c].leader)
        <5>1. place = "checked"
          BY <4>3
        <5> HIDE DEF place
        <5> QED
          BY <4>3, <5>1 DEF Allowlisted
      <4>4. CASE cmd[c].safe /\ ~Allowlisted(cmd[c].leader) /\ cmd[c].kind = "run" /\ ~cmd[c].retried
        <5>1. place = "asking"
          BY <4>4
        <5> HIDE DEF place
        <5> QED
          BY <4>4, <5>1 DEF Allowlisted
      <4>5. CASE cmd[c].safe /\ ~Allowlisted(cmd[c].leader) /\ ~(cmd[c].kind = "run" /\ ~cmd[c].retried)
        <5>1. place = "refused"
          BY <4>5
        <5> HIDE DEF place
        <5> QED
          BY <4>5, <5>1 DEF Allowlisted
      <4> QED
        BY <4>1, <4>2, <4>3, <4>4, <4>5
    <3>2. cmd' = [cmd EXCEPT ![c].at = place] /\ UNCHANGED <<overrides, approved, used>> /\ cmd[c].at = "check"
      BY <1>2 DEF CheckCommand, CmdGoes, IsAt
    <3> HIDE DEF place
    <3>3. cmd'[c].at = place /\ cmd'[c].leader = cmd[c].leader /\ cmd'[c].kind = cmd[c].kind
          /\ cmd'[c].retried = cmd[c].retried /\ cmd'[c].safe = cmd[c].safe
          /\ \A d \in Calls2 \ {c} : cmd'[d] = cmd[d]
      BY <3>2 DEF CommandTypes, CommandShapes
    <3> SUFFICES ASSUME NEW d \in Calls2 PROVE AskedOf(d)'
      BY DEF Asked
    <3> USE DEF AskedOf, AwaitsEntry
    <3>4. CASE d = c
      <4>1. l \in Leaders /\ cmd[c].safe \in BOOLEAN /\ cmd[c].retried \in BOOLEAN
        BY <3>2 DEF CommandTypes, CommandShapes, IsAt
      <4>2. cmd[c].retried => cmd[c].kind = "run" /\ cmd[c].safe /\ l \notin Listed /\ (l \in overrides \/ used[l] > 0)
        BY <3>2 DEF Asked, AskedOf, IsAt, UsedUp
      <4>3. l \in overrides \ Listed => approved[l] > 0
        BY <4>1 DEF Granted
      <4> QED
        BY <3>1, <3>2, <3>3, <3>4, <4>1, <4>2, <4>3 DEF IsAt, Backed, UsedUp
    <3>5. CASE d # c
      BY <3>2, <3>3, <3>5 DEF Asked, AskedOf, AwaitsEntry, CommandTypes, IsAt, Backed, UsedUp
    <3> QED
      BY <3>4, <3>5
  <2>3. Granted'
    BY <1>2 DEF CheckCommand, Granted
  <2>4. Places'
    BY <1>2, <2>1, PlacesKept DEF AwaitsEntry, CheckCommand, CmdGoes, CommandTypes, IsAt, Places
  <2> QED
    BY <2>1, <2>2, <2>3, <2>4
<1>3. ASSUME NEW c \in Calls2, ConsumeOverride(c) PROVE CommandInv'
  <2> DEFINE l == cmd[c].leader
             more == Min({used[l] + 1, MaxUses + 1})
  <2>1. l \in Leaders /\ used[l] \in Nat
    BY <1>3 DEF ConsumeOverride, CommandTypes, IsAt
  <2>2. more \in Nat \ {0}
    BY <2>1, CappedOnce
  <2>3. used' = IF l \in Listed THEN used ELSE [used EXCEPT ![l] = more]
    BY <1>3 DEF ConsumeOverride
  <2> HIDE DEF more
  <2>4. /\ used' \in [Leaders -> Nat] /\ \A k \in Leaders : k # l => used'[k] = used[k]
        /\ l \in Listed => used' = used
        /\ l \notin Listed => used'[l] > 0
    BY <2>1, <2>2, <2>3 DEF CommandTypes
  <2>5. /\ overrides' = overrides \ {l} /\ UNCHANGED <<proc, jobs, approved, crowded>>
        /\ cmd[c].at = "checked" /\ Backed(c)
    BY <1>3 DEF ConsumeOverride, IsAt, Asked, AskedOf
  <2>6. /\ cmd' \in [Calls2 -> CommandShapes] /\ \A d \in Calls2 \ {c} : cmd'[d] = cmd[d]
        /\ cmd'[c].at = IF cmd[c].kind = "run" THEN "running" ELSE "count"
        /\ cmd'[c].leader = cmd[c].leader /\ cmd'[c].kind = cmd[c].kind
        /\ cmd'[c].retried = cmd[c].retried /\ cmd'[c].safe = cmd[c].safe
    BY <1>3 DEF ConsumeOverride, CmdGoes, CommandTypes, CommandShapes
  <2>7. CommandTypes'
    BY <2>4, <2>5, <2>6, <2>1 DEF CommandTypes, IsAt
  <2>8. Asked'
    <3> SUFFICES ASSUME NEW d \in Calls2 PROVE AskedOf(d)'
      BY DEF Asked
    <3> USE DEF AskedOf, AwaitsEntry
    <3>1. CASE d = c
      BY <2>5, <2>6, <3>1 DEF Asked, AskedOf, AwaitsEntry, CommandTypes, CommandShapes, IsAt
    <3>2. CASE d # c
      BY <2>1, <2>4, <2>5, <2>6, <3>2, SMTT(30) DEF Asked, AskedOf, AwaitsEntry, CommandTypes, CommandShapes, IsAt, Backed, UsedUp
    <3> QED
      BY <3>1, <3>2
  <2>9. Granted'
    BY <2>4, <2>5, <2>1 DEF Granted, Backed, CommandTypes
  <2>10. Places'
    BY <2>5, <2>6, <2>7, PlacesKept DEF AwaitsEntry, CommandTypes, IsAt, Places
  <2> QED
    BY <2>7, <2>8, <2>9, <2>10
<1>4. ASSUME NEW c \in Calls2, Approve2(c) PROVE CommandInv'
  <2> DEFINE l == cmd[c].leader
  <2>1. l \in Leaders /\ cmd[c].at = "asking" /\ ~cmd[c].retried /\ cmd[c].kind = "run" /\ l \notin Listed /\ cmd[c].safe
    BY <1>4 DEF Approve2, CommandTypes, CommandShapes, IsAt, Asked, AskedOf
  <2>2. /\ overrides' = overrides \union {l} /\ UNCHANGED <<proc, jobs, used, crowded>>
        /\ approved' \in [Leaders -> Nat] /\ approved'[l] > 0
        /\ \A k \in Leaders : approved[k] > 0 => approved'[k] > 0
    BY <1>4, <2>1 DEF Approve2, CommandTypes
  <2>3. /\ cmd' \in [Calls2 -> CommandShapes] /\ \A d \in Calls2 \ {c} : cmd'[d] = cmd[d]
        /\ cmd'[c].at = "check" /\ cmd'[c].retried
        /\ cmd'[c].leader = cmd[c].leader /\ cmd'[c].kind = cmd[c].kind /\ cmd'[c].safe = cmd[c].safe
    <3> DEFINE after == [cmd[c] EXCEPT !.at = "check", !.retried = TRUE]
    <3>1. cmd \in [Calls2 -> CommandShapes] /\ cmd[c] \in CommandShapes
      BY <1>4 DEF CommandTypes
    <3>2. after \in CommandShapes /\ after.at = "check" /\ after.retried
          /\ after.leader = cmd[c].leader /\ after.kind = cmd[c].kind /\ after.safe = cmd[c].safe
      BY <3>1 DEF CommandShapes
    <3>3. cmd' = [cmd EXCEPT ![c] = after]
      BY <1>4, <3>1 DEF Approve2, CommandShapes
    <3> QED
      BY <3>1, <3>2, <3>3
  <2>4. CommandTypes'
    BY <2>1, <2>2, <2>3 DEF CommandTypes, IsAt
  <2>5. Asked'
    <3> SUFFICES ASSUME NEW d \in Calls2 PROVE AskedOf(d)'
      BY DEF Asked
    <3> USE DEF AskedOf, AwaitsEntry
    <3>1. CASE d = c
      BY <2>1, <2>2, <2>3, <3>1 DEF IsAt
    <3>2. CASE d # c
      <4>1. AskedOf(d) /\ (IsAt(d, "checked") => cmd[d].leader \in Leaders)
        BY DEF Asked, CommandTypes, IsAt
      <4> QED
        BY <2>2, <2>3, <3>2, <4>1 DEF IsAt, Backed, UsedUp
    <3> QED
      BY <3>1, <3>2
  <2>6. Granted'
    BY <2>1, <2>2 DEF Granted, CommandTypes
  <2>7. Places'
    <3>1. \A d \in jobs' : IsAt(d, "over")'
      BY <2>1, <2>2, <2>3 DEF Places, CommandTypes, IsAt
    <3>2. \A d \in Calls2 : proc'[d] = "running" => proc[d] = "running" /\ (d \in jobs' \/ IsAt(d, "started")')
      BY <2>1, <2>2, <2>3 DEF Places, IsAt
    <3>3. \A d \in Calls2 : AwaitsEntry(d)' => AwaitsEntry(d)
      BY <2>3 DEF AwaitsEntry, IsAt
    <3> QED
      BY <2>2, <2>4, <3>1, <3>2, <3>3, PlacesKept
  <2> QED
    BY <2>4, <2>5, <2>6, <2>7
<1>5. ASSUME NEW c \in Calls2, Deny2(c) \/ CommandEnds(c) \/ StartJobFails(c) PROVE CommandInv'
  <2>1. PICK place \in {"refused", "over"} :
          /\ cmd' = [cmd EXCEPT ![c].at = place] /\ (~cmd[c].retried \/ place = "over")
          /\ UNCHANGED <<overrides, proc, jobs, approved, used, crowded>>
          /\ cmd[c].at \in {"asking", "running", "counted"}
    BY <1>5 DEF AwaitsEntry, Deny2, CommandEnds, StartJobFails, CmdGoes, IsAt, Asked, AskedOf
  <2>2. /\ cmd' \in [Calls2 -> CommandShapes] /\ \A d \in Calls2 \ {c} : cmd'[d] = cmd[d]
        /\ cmd'[c].at = place /\ cmd'[c].retried = cmd[c].retried
        /\ cmd'[c].leader = cmd[c].leader /\ cmd'[c].kind = cmd[c].kind /\ cmd'[c].safe = cmd[c].safe
    BY <2>1 DEF CommandTypes, CommandShapes
  <2>3. CommandTypes'
    BY <2>1, <2>2 DEF CommandTypes, IsAt
  <2>4. Asked'
    BY <2>1, <2>2 DEF Asked, AskedOf, AwaitsEntry, CommandTypes, CommandShapes, IsAt, Backed, UsedUp
  <2>5. Granted'
    BY <2>1 DEF Granted
  <2>6. Places'
    BY <2>1, <2>2, <2>3, PlacesKept DEF AwaitsEntry, CommandTypes, IsAt, Places
  <2> QED
    BY <2>3, <2>4, <2>5, <2>6
<1>6. ASSUME NEW c \in Calls2, CountJobs(c) PROVE CommandInv'
  <2>1. PICK place \in {"refused", "counted"} :
          /\ cmd' = [cmd EXCEPT ![c].at = place] /\ place = IF Full THEN "refused" ELSE "counted"
          /\ UNCHANGED <<overrides, proc, jobs, approved, used>>
          /\ cmd[c].at = "count" /\ cmd[c].kind = "start" /\ ~cmd[c].retried /\ cmd[c].safe
          /\ crowded' = (crowded \/ (~Full /\ \E d \in Calls2 \ {c} : AwaitsEntry(d)))
    BY <1>6 DEF CountJobs, CmdGoes, IsAt, Asked, AskedOf
  <2>2. /\ cmd' \in [Calls2 -> CommandShapes] /\ \A d \in Calls2 \ {c} : cmd'[d] = cmd[d]
        /\ cmd'[c].at = place /\ cmd'[c].retried = cmd[c].retried
        /\ cmd'[c].leader = cmd[c].leader /\ cmd'[c].kind = cmd[c].kind /\ cmd'[c].safe = cmd[c].safe
    BY <2>1 DEF CommandTypes, CommandShapes
  <2>3. CommandTypes'
    <3>1. crowded' \in BOOLEAN
      BY <2>1 DEF CommandTypes
    <3> QED
      BY <2>1, <2>2, <3>1 DEF CommandTypes, IsAt
  <2>4. Asked'
    BY <2>1, <2>2 DEF Asked, AskedOf, AwaitsEntry, CommandTypes, CommandShapes, IsAt, Backed, UsedUp
  <2>5. Granted'
    BY <2>1 DEF Granted
  <2>6. Places'
    <3>1. Active' = Active /\ Cardinality(Active)' = Cardinality(Active)
      BY <2>1 DEF Active
    <3>2. Cardinality(Active) \in Nat
      <4>1. Active \subseteq Calls2
        BY DEF CommandTypes, Active
      <4> QED
        BY <4>1, ToolHostAssumption, FS_Subset, FS_CardinalityType
    <3>3. CASE Full
      <4>1. crowded' = crowded /\ cmd'[c].at = "refused"
        BY <2>1, <2>2, <3>3 DEF CommandTypes
      <4> QED
        BY <2>1, <2>2, <3>1, <4>1 DEF Places, IsAt, AwaitsEntry
    <3>4. CASE ~Full
      <4>1. Cardinality(Active) < MaxJobs
        BY <3>2, <3>4, ToolHostAssumption DEF Full
      <4>2. ~crowded' => ~crowded /\ \A d \in Calls2 \ {c} : ~AwaitsEntry(d)
        BY <2>1, <3>4
      <4>3. ~crowded' => \A d \in Calls2 : AwaitsEntry(d)' => d = c
        BY <2>2, <4>2 DEF IsAt, AwaitsEntry
      <4>4. /\ \A d \in Calls2 : proc'[d] = "running" => d \in jobs' \/ IsAt(d, "started")'
            /\ \A d \in jobs' : IsAt(d, "over")'
        BY <2>1, <2>2 DEF Places, CommandTypes, IsAt
      <4> QED
        BY <2>1, <3>1, <3>2, <4>1, <4>2, <4>3, <4>4, ToolHostAssumption DEF Places
    <3> QED
      BY <3>3, <3>4
  <2> QED
    BY <2>3, <2>4, <2>5, <2>6
<1>7. ASSUME NEW c \in Calls2, StartJob(c) PROVE CommandInv'
  <2>1. /\ cmd' = [cmd EXCEPT ![c].at = "started"] /\ cmd[c].at = "counted" /\ cmd[c].safe /\ cmd[c].kind = "start"
        /\ proc' = [proc EXCEPT ![c] = "running"]
        /\ UNCHANGED <<overrides, jobs, approved, used, crowded>>
    BY <1>7 DEF StartJob, CmdGoes, IsAt, Asked, AskedOf, AwaitsEntry
  <2>2. /\ cmd' \in [Calls2 -> CommandShapes] /\ \A d \in Calls2 \ {c} : cmd'[d] = cmd[d]
        /\ cmd'[c].at = "started" /\ cmd'[c].retried = cmd[c].retried
        /\ cmd'[c].leader = cmd[c].leader /\ cmd'[c].kind = cmd[c].kind /\ cmd'[c].safe = cmd[c].safe
    BY <2>1 DEF CommandTypes, CommandShapes
  <2>3. CommandTypes'
    BY <2>1, <2>2 DEF CommandTypes, IsAt
  <2>4. Asked'
    BY <2>1, <2>2 DEF Asked, AskedOf, AwaitsEntry, CommandTypes, CommandShapes, IsAt, Backed, UsedUp
  <2>5. Granted'
    BY <2>1 DEF Granted
  <2>6. Places'
    <3>1. Active' = Active /\ Cardinality(Active)' = Cardinality(Active)
      BY <2>1 DEF Active, Places, IsAt, CommandTypes
    <3>2. \A d \in Calls2 : proc'[d] = "running" => d \in jobs' \/ IsAt(d, "started")'
      BY <2>1, <2>2 DEF Places, CommandTypes, IsAt
    <3>3. \A d \in jobs' : IsAt(d, "over")'
      BY <2>1, <2>2 DEF Places, CommandTypes, IsAt
    <3>4. \A d \in Calls2 : AwaitsEntry(d)' => AwaitsEntry(d)
      BY <2>1, <2>2 DEF AwaitsEntry, IsAt
    <3> QED
      BY <2>1, <3>1, <3>2, <3>3, <3>4 DEF Places
  <2> QED
    BY <2>3, <2>4, <2>5, <2>6
<1>10. ASSUME NEW c \in Calls2, EnterJob(c) PROVE CommandInv'
  <2>1. /\ cmd' = [cmd EXCEPT ![c].at = "over"] /\ cmd[c].at = "started" /\ cmd[c].safe
        /\ jobs' = jobs \union {c}
        /\ UNCHANGED <<overrides, proc, approved, used, crowded>>
    BY <1>10 DEF EnterJob, CmdGoes, IsAt, Asked, AskedOf
  <2>2. /\ cmd' \in [Calls2 -> CommandShapes] /\ \A d \in Calls2 \ {c} : cmd'[d] = cmd[d]
        /\ cmd'[c].at = "over" /\ cmd'[c].retried = cmd[c].retried
        /\ cmd'[c].leader = cmd[c].leader /\ cmd'[c].kind = cmd[c].kind /\ cmd'[c].safe = cmd[c].safe
    BY <2>1 DEF CommandTypes, CommandShapes
  <2>3. CommandTypes'
    BY <2>1, <2>2 DEF CommandTypes, IsAt
  <2>4. Asked'
    BY <2>1, <2>2 DEF Asked, AskedOf, AwaitsEntry, CommandTypes, CommandShapes, IsAt, Backed, UsedUp
  <2>5. Granted'
    BY <2>1 DEF Granted
  <2>6. Places'
    <3>1. Active' \subseteq Active \union {c} /\ Active \subseteq Calls2
      BY <2>1 DEF Active, CommandTypes
    <3>2. Cardinality(Active) \in Nat /\ Cardinality(Active') \in Nat /\ Cardinality(Active') <= Cardinality(Active) + 1
      BY <3>1, GrowsByOne
    <3>3. Cardinality(Active)' = Cardinality(Active')
      OBVIOUS
    <3>4. /\ \A d \in Calls2 : proc'[d] = "running" => d \in jobs' \/ IsAt(d, "started")'
          /\ \A d \in jobs' : IsAt(d, "over")'
      BY <2>1, <2>2 DEF Places, CommandTypes, IsAt
    <3>5. ~crowded => Cardinality(Active) < MaxJobs /\ \A d \in Calls2 : ~AwaitsEntry(d)'
      BY <2>1, <2>2 DEF Places, IsAt, AwaitsEntry
    <3> QED
      BY <2>1, <3>2, <3>3, <3>4, <3>5, ToolHostAssumption DEF Places
  <2> QED
    BY <2>3, <2>4, <2>5, <2>6
<1>8. ASSUME NEW c \in Calls2, JobEnds(c) \/ KillJob(c) PROVE CommandInv'
  <2>1. /\ proc' = [proc EXCEPT ![c] = "ended"] /\ jobs' \subseteq jobs /\ jobs \ {c} \subseteq jobs'
        /\ UNCHANGED <<cmd, overrides, approved, used, crowded>>
    BY <1>8 DEF JobEnds, KillJob
  <2>2. CommandTypes'
    BY <2>1 DEF CommandTypes, IsAt
  <2>3. Asked'
    BY <2>1 DEF Asked, AskedOf, AwaitsEntry, IsAt, Backed, UsedUp
  <2>4. Granted'
    BY <2>1 DEF Granted
  <2>5. Places'
    BY <2>1, <2>2, PlacesKept DEF AwaitsEntry, CommandTypes, IsAt, Places
  <2> QED
    BY <2>2, <2>3, <2>4, <2>5
<1>9. CASE UNCHANGED commandVars
  BY <1>9 DEF commandVars, CommandTypes, Asked, AskedOf, Granted, Places, IsAt, Backed, UsedUp, Active, AwaitsEntry
<1> QED
  BY <1>1, <1>2, <1>3, <1>4, <1>5, <1>6, <1>7, <1>8, <1>9, <1>10 DEF CommandNext

-----------------------------------------------------------------------------
(* Unlisted programs run on approvals alone and jobs keep to their limit
   unless starts overlap, an execution in the sandbox leaves nothing behind
   but what its history notes, and http reaches public addresses only
   (tools.py, code_sandbox.py, url_validator.py). *)
THEOREM ToolHostSoundHolds == CommandSpec /\ BoxSpec /\ WebSpec => []ToolHostSound
<1> DEFINE HInv == CommandInv /\ BoxInv /\ WebInv
<1>1. CommandInit /\ BoxInit /\ WebInit => HInv
  BY CommandInitially, BoxInitially, WebInitially
<1>2. HInv /\ [CommandNext]_commandVars /\ [BoxNext]_sandboxVars /\ [WebNext]_webVars => HInv'
  BY CommandNextKeeps, BoxNextKeeps, WebNextKeeps
<1>3. HInv => ToolHostSound
  <2> SUFFICES ASSUME HInv PROVE ToolHostSound
    OBVIOUS
  <2>1. ToolHostTypeOK
    BY DEF ToolHostTypeOK, CommandInv, CommandTypes, BoxInv, BoxShapes, WebInv, FetchShapes
  <2>2. SandboxSound
    BY DEF BoxInv
  <2>3. WebSound
    BY WebAssumption DEF WebInv, WebSound, FetchShapes, SizeLimit
  <2> QED
    BY <2>1, <2>2, <2>3, CommandSettles DEF ToolHostSound
<1> QED
  BY <1>1, <1>2, <1>3, PTL DEF CommandSpec, BoxSpec, WebSpec

-----------------------------------------------------------------------------
(* ModelCalls: health and the route. *)

HealthInv ==
    /\ ring \in [AllModels -> Seq(BOOLEAN)] /\ \A m \in AllModels : Len(ring[m]) <= RingSize
    /\ aged \subseteq AllModels
    /\ savedHealth \in [AllModels -> Nat \X Nat] /\ \A m \in AllModels : savedHealth[m][1] <= savedHealth[m][2]

LEMMA MinOfTwo == ASSUME NEW a \in Int, NEW b \in Int PROVE Min({a, b}) = IF a <= b THEN a ELSE b
<1> DEFINE least == IF a <= b THEN a ELSE b
<1>1. least \in {a, b} /\ \A x \in {a, b} : least <= x
  OBVIOUS
<1>2. \A x \in {a, b} : (\A y \in {a, b} : x <= y) => x = least
  OBVIOUS
<1> HIDE DEF least
<1>3. Min({a, b}) \in {a, b} /\ \A y \in {a, b} : Min({a, b}) <= y
  BY <1>1 DEF Min
<1>4. Min({a, b}) = least
  BY <1>2, <1>3
<1> QED
  BY <1>4 DEF least

\* What is restored of a snapshot.
LEMMA RestoredFits ==
    ASSUME NEW saved \in Nat \X Nat
    PROVE  Restored(saved) \in Seq(BOOLEAN) /\ Len(Restored(saved)) <= RingSize
<1> DEFINE least == Min({saved[2], RingSize})
<1>1. least \in Nat /\ least <= RingSize
  <2>1. saved[2] \in Nat /\ RingSize \in Nat
    BY HealthAssumption
  <2>2. saved[2] \in Int /\ RingSize \in Int
    BY <2>1
  <2>3. least = IF saved[2] <= RingSize THEN saved[2] ELSE RingSize
    BY <2>2, MinOfTwo
  <2> HIDE DEF least
  <2> QED
    BY <2>1, <2>3
<1>2. Restored(saved) = [n \in 1 .. least |-> n <= saved[1]]
  BY DEF Restored
<1> HIDE DEF least
<1>3. Restored(saved) \in [1 .. least -> BOOLEAN]
  BY <1>2
<1>4. Restored(saved) \in Seq(BOOLEAN) /\ Len(Restored(saved)) = least
  BY <1>1, <1>3, ListOf
<1> QED
  BY <1>1, <1>4

LEMMA SummaryFits ==
    ASSUME NEW samples \in Seq(BOOLEAN)
    PROVE  Summary(samples) \in Nat \X Nat /\ Summary(samples)[1] <= Summary(samples)[2]
<1> DEFINE good == {n \in DOMAIN samples : samples[n]}
<1>1. good \in SUBSET (1 .. Len(samples)) /\ Len(samples) \in Nat
  OBVIOUS
<1>2. IsFiniteSet(1 .. Len(samples)) /\ Cardinality(1 .. Len(samples)) = Len(samples)
  BY <1>1, CountTo
<1> HIDE DEF good
<1>3. Cardinality(good) \in Nat /\ Cardinality(good) <= Len(samples)
  BY <1>1, <1>2, FS_Subset, FS_CardinalityType
<1>4. Summary(samples) = <<Cardinality(good), Len(samples)>>
  BY DEF Summary, good
<1> QED
  BY <1>1, <1>3, <1>4

LEMMA RestoredSame ==
    ASSUME NEW samples \in Seq(BOOLEAN), Len(samples) <= RingSize
    PROVE  Summary(Restored(Summary(samples))) = Summary(samples)
<1> DEFINE k == Summary(samples)[1]
           l == Len(samples)
<1>1. Summary(samples) = <<k, l>> /\ k \in Nat /\ l \in Nat /\ k <= l
  BY SummaryFits DEF Summary
<1> HIDE DEF k, l
<1>2. Min({l, RingSize}) = l
  <2>1. l <= RingSize /\ RingSize \in Int /\ l \in Int
    BY <1>1, HealthAssumption DEF l
  <2> QED
    BY <2>1, MinOfTwo
<1>3. Restored(<<k, l>>) = [n \in 1 .. l |-> n <= k]
  BY <1>2 DEF Restored
<1> DEFINE back == [n \in 1 .. l |-> n <= k]
<1>4. DOMAIN back = 1 .. l /\ Len(back) = l
  <2>1. back \in [1 .. l -> BOOLEAN]
    BY <1>1
  <2> HIDE DEF back
  <2> QED
    BY <1>1, <2>1, ListOf
<1>5. {n \in DOMAIN back : back[n]} = 1 .. k
  <2>1. DOMAIN back = 1 .. l /\ \A n \in 1 .. l : back[n] <=> n <= k
    OBVIOUS
  <2> HIDE DEF back
  <2>2. \A n \in 1 .. l : n <= k <=> n \in 1 .. k
    BY <1>1
  <2>3. 1 .. k \subseteq 1 .. l
    BY <1>1
  <2> QED
    BY <2>1, <2>2, <2>3
<1> HIDE DEF back
<1>6. Cardinality(1 .. k) = k
  BY <1>1, CountTo
<1>7. Summary(back) = <<k, l>>
  BY <1>4, <1>5, <1>6 DEF Summary
<1> QED
  BY <1>1, <1>3, <1>7 DEF back

LEMMA HealthInitially == HealthInit => HealthInv
<1> SUFFICES ASSUME HealthInit PROVE HealthInv
  OBVIOUS
<1>1. <<>> \in Seq(BOOLEAN) /\ Len(<<>>) = 0 /\ 0 <= RingSize
  BY HealthAssumption
<1>2. ring \in [AllModels -> Seq(BOOLEAN)] /\ \A m \in AllModels : Len(ring[m]) <= RingSize
  BY <1>1 DEF HealthInit
<1>3. savedHealth \in [AllModels -> Nat \X Nat] /\ \A m \in AllModels : savedHealth[m] = <<0, 0>>
  BY DEF HealthInit
<1> QED
  BY <1>2, <1>3 DEF HealthInit, HealthInv

LEMMA RestoredKeeps ==
    ASSUME HealthInv, NEW saved \in [AllModels -> Nat \X Nat], \A m \in AllModels : saved[m][1] <= saved[m][2],
           Restart2(saved)
    PROVE  HealthInv'
<1>1. ring' = [m \in AllModels |-> Restored(saved[m])] /\ aged' = {} /\ savedHealth' = saved
  BY DEF Restart2
<1>2. \A m \in AllModels : Restored(saved[m]) \in Seq(BOOLEAN) /\ Len(Restored(saved[m])) <= RingSize
  BY RestoredFits
<1> QED
  BY <1>1, <1>2 DEF HealthInv

LEMMA HealthNextKeeps == HealthInv /\ [HealthNext]_healthVars => HealthInv'
<1> SUFFICES ASSUME HealthInv, [HealthNext]_healthVars PROVE HealthInv'
  OBVIOUS
<1>1. ASSUME NEW m \in AllModels, GrowStale(m) PROVE HealthInv'
  BY <1>1 DEF GrowStale, HealthInv
<1>2. ASSUME NEW m \in AllModels, NEW ok \in BOOLEAN, RecordCall(m, ok) PROVE HealthInv'
  <2>1. ring[m] \in Seq(BOOLEAN)
    BY DEF HealthInv
  <2> DEFINE longer == Append(ring[m], ok)
  <2>2. longer \in Seq(BOOLEAN)
    BY <2>1
  <2>3. ring' = [ring EXCEPT ![m] = Latest(longer, RingSize)] /\ aged' = aged \ {m} /\ savedHealth' = savedHealth
    BY <1>2 DEF RecordCall
  <2> HIDE DEF longer
  <2>4. Latest(longer, RingSize) \in Seq(BOOLEAN) /\ Len(Latest(longer, RingSize)) <= RingSize
    <3>1. Len(longer) \in Nat /\ RingSize \in Nat
      BY <2>2, HealthAssumption
    <3> QED
      BY <2>2, <3>1, LatestFits
  <2> QED
    BY <2>3, <2>4 DEF HealthInv
<1>3. CASE ShutDown
  <2> DEFINE saved == [m \in AllModels |-> Snapshot(m)]
  <2>1. \A m \in AllModels : Snapshot(m) \in Nat \X Nat /\ Snapshot(m)[1] <= Snapshot(m)[2]
    BY SummaryFits DEF HealthInv, Snapshot
  <2>2. saved \in [AllModels -> Nat \X Nat] /\ \A m \in AllModels : saved[m][1] <= saved[m][2]
    BY <2>1
  <2>3. Restart2(saved)
    BY <1>3 DEF ShutDown
  <2> HIDE DEF saved
  <2> QED
    BY <2>2, <2>3, RestoredKeeps
<1>4. CASE CrashDown
  <2>1. savedHealth \in [AllModels -> Nat \X Nat] /\ \A m \in AllModels : savedHealth[m][1] <= savedHealth[m][2]
    BY DEF HealthInv
  <2> QED
    BY <2>1, <1>4, RestoredKeeps DEF CrashDown
<1>5. CASE UNCHANGED healthVars
  BY <1>5 DEF healthVars, HealthInv
<1> QED
  BY <1>1, <1>2, <1>3, <1>4, <1>5 DEF HealthNext

\* A score is a number.
LEMMA ScoreFits == ASSUME HealthInv, NEW m \in AllModels PROVE Score(m) \in Int
<1>1. ring[m] \in Seq(BOOLEAN) /\ Len(ring[m]) \in Nat
  BY DEF HealthInv
<1>2. Successes(m) \in Nat
  BY <1>1, SummaryFits DEF Successes, Snapshot
<1>3. Measured(m) => Len(ring[m]) > 0
  BY <1>1, HealthAssumption DEF Measured
<1>4. (Points * Successes(m)) \in Int
  BY <1>2 DEF Points
<1>5. CASE Measured(m)
  <2> DEFINE top == Points * Successes(m)
             l == Len(ring[m])
  <2>1. top \in Int /\ l \in Int /\ l > 0 /\ Score(m) = top \div l
    BY <1>1, <1>3, <1>4, <1>5 DEF Score
  <2> HIDE DEF top, l
  <2> QED
    BY <2>1
<1>6. CASE ~Measured(m)
  BY <1>6, HealthAssumption DEF Score
<1> QED
  BY <1>5, <1>6

\* The order of a list without repeats has its elements, once each, by score.
LEMMA ByScoreFits ==
    ASSUME HealthInv, NEW s \in Seq(AllModels), IsInjective(s)
    PROVE  /\ ByScore(s) \in Seq(AllModels) /\ Len(ByScore(s)) = Len(s)
           /\ ToSet(ByScore(s)) = ToSet(s) /\ IsInjective(ByScore(s))
           /\ \A n \in 1 .. Len(s) - 1 : Score(ByScore(s)[n]) >= Score(ByScore(s)[n + 1])
<1> DEFINE key == [i \in DOMAIN s |-> Score(s[i])]
           n == Len(s)
           b == ByScore(s)
<1>1. n \in Nat /\ DOMAIN s = 1 .. n /\ \A i \in 1 .. n : s[i] \in AllModels
  OBVIOUS
<1>2. key \in [DOMAIN s -> Int]
  BY <1>1, ScoreFits
<1>3. b = SortedBy(s, key)
  BY DEF ByScore
<1>0. \A i \in 1 .. n : key[i] = Score(s[i])
  BY <1>1
<1> HIDE DEF key, b
<1> HIDE DEF n
<1>4. PICK p \in [1..n -> 1..n] :
        /\ \A i, j \in 1..n : p[i] = p[j] => i = j
        /\ \A i \in 1..n : b[i] = s[p[i]]
        /\ \A i, j \in 1..n : i < j => key[p[i]] > key[p[j]] \/ (key[p[i]] = key[p[j]] /\ p[i] < p[j])
  <2>1. \E p \in [1..Len(s) -> 1..Len(s)] :
          /\ \A i, j \in 1..Len(s) : p[i] = p[j] => i = j
          /\ \A i \in 1..Len(s) : SortedBy(s, key)[i] = s[p[i]]
          /\ \A i, j \in 1..Len(s) : i < j => key[p[i]] > key[p[j]] \/ (key[p[i]] = key[p[j]] /\ p[i] < p[j])
    BY <1>2, SortedByFits, Zenon
  <2> QED
    BY <1>3, <2>1, Zenon DEF n
<1>5. b \in [1..n -> AllModels]
  <2>1. SortedBy(s, key) \in [1..Len(s) -> AllModels]
    BY <1>2, SortedByFits, Zenon
  <2> QED
    BY <1>3, <2>1, Zenon DEF n
<1>6. b \in Seq(AllModels) /\ Len(b) = n /\ DOMAIN b = 1 .. n
  BY <1>1, <1>5, ListOf
<1>7. IsInjective(b)
  <2>1. \A i, j \in 1 .. n : s[i] = s[j] => i = j
    BY <1>1 DEF IsInjective
  <2>2. ASSUME NEW i \in 1 .. n, NEW j \in 1 .. n, b[i] = b[j] PROVE i = j
    <3>1. s[p[i]] = s[p[j]] /\ p[i] \in 1 .. n /\ p[j] \in 1 .. n
      BY <1>4, <2>2
    <3> QED
      BY <1>4, <2>1, <3>1
  <2> QED
    BY <1>6, <2>2 DEF IsInjective
<1>8. ToSet(b) = ToSet(s)
  <2>1. \A j \in 1 .. n : \E i \in 1 .. n : p[i] = j
    BY <1>1, <1>4, ReorderingReaches
  <2>2. ToSet(b) = {b[i] : i \in 1 .. n} /\ ToSet(s) = {s[i] : i \in 1 .. n}
    BY <1>1, <1>6 DEF ToSet
  <2>3. ASSUME NEW x \in ToSet(b) PROVE x \in ToSet(s)
    <3>1. PICK i \in 1 .. n : x = b[i]
      BY <2>2, <2>3
    <3>2. p[i] \in 1 .. n /\ x = s[p[i]]
      BY <1>4, <3>1
    <3> QED
      BY <2>2, <3>2
  <2>4. ASSUME NEW x \in ToSet(s) PROVE x \in ToSet(b)
    <3>1. PICK j \in 1 .. n : x = s[j]
      BY <2>2, <2>4
    <3>2. PICK i \in 1 .. n : p[i] = j
      BY <2>1
    <3>3. x = b[i]
      BY <1>4, <3>1, <3>2
    <3> QED
      BY <2>2, <3>3
  <2> QED
    BY <2>3, <2>4
<1>9. ASSUME NEW i \in 1 .. n - 1 PROVE Score(b[i]) >= Score(b[i + 1])
  <2> DEFINE j == i + 1
  <2>1. i \in 1 .. n /\ j \in 1 .. n /\ i < j
    BY <1>1
  <2> HIDE DEF j
  <2>2. key[p[i]] >= key[p[j]]
    <3>1. p[i] \in 1 .. n /\ p[j] \in 1 .. n /\ key[p[i]] \in Int /\ key[p[j]] \in Int
      BY <1>1, <1>2, <1>4, <2>1
    <3> QED
      BY <1>4, <2>1, <3>1
  <2>3. key[p[i]] = Score(b[i]) /\ key[p[j]] = Score(b[j])
    BY <1>0, <1>4, <2>1
  <2> QED
    BY <2>2, <2>3 DEF j
<1> QED
  BY <1>6, <1>7, <1>8, <1>9 DEF b, n

LEMMA HealthGivesSound == HealthInv => HealthSound
<1> SUFFICES ASSUME HealthInv PROVE HealthSound
  OBVIOUS
<1>1. ASSUME NEW m \in AllModels PROVE Len(ring[m]) <= RingSize /\ Summary(Restored(Snapshot(m))) = Snapshot(m)
  BY RestoredSame DEF HealthInv, Snapshot
<1>2. HealthModels \in Seq(AllModels) /\ IsInjective(HealthModels) /\ ToSet(HealthModels) = AllModels
  BY HealthAssumption DEF AllModels
<1>3. ASSUME NEW r \in AllModels \union {"none"}
      PROVE  /\ ToSet(Route(r)) = AllModels /\ IsInjective(Route(r)) /\ (r # "none" => Route(r)[1] = r)
             /\ \A n \in 1 .. Len(Route(r)) - 1 : (n > 1 \/ r = "none") => Score(Route(r)[n]) >= Score(Route(r)[n + 1])
  <2>1. CASE r = "none"
    BY <1>2, <2>1, ByScoreFits DEF Route
  <2>2. CASE r # "none"
    <3> DEFINE rest == Without(HealthModels, r)
               b == ByScore(rest)
               route == Route(r)
               l == Len(b)
    <3>1. r \in AllModels /\ route = <<r>> \o b
      BY <2>2 DEF Route
    <3>2. rest \in Seq(AllModels) /\ ToSet(rest) = AllModels \ {r} /\ IsInjective(rest)
      BY <1>2, WithoutHas
    <3> HIDE DEF rest
    <3>3. /\ b \in Seq(AllModels) /\ Len(b) = Len(rest) /\ ToSet(b) = AllModels \ {r} /\ IsInjective(b)
          /\ \A n \in 1 .. Len(rest) - 1 : Score(b[n]) >= Score(b[n + 1])
      BY <3>2, ByScoreFits
    <3> HIDE DEF b, route, l
    <3>4. /\ l \in Nat /\ DOMAIN b = 1 .. l /\ DOMAIN route = 1 .. l + 1 /\ Len(route) = l + 1 /\ route[1] = r
          /\ \A n \in 2 .. l + 1 : route[n] = b[n - 1]
      BY <3>1, <3>3 DEF l
    <3>5. ToSet(b) = {b[n] : n \in 1 .. l} /\ ToSet(route) = {route[n] : n \in 1 .. l + 1}
      BY <3>4 DEF ToSet
    <3>6. ToSet(route) = AllModels
      <4>1. ASSUME NEW n \in 1 .. l PROVE n + 1 \in 2 .. l + 1 /\ n + 1 \in 1 .. l + 1 /\ route[n + 1] = b[n]
        <5> DEFINE k == n + 1
        <5>1. k \in 2 .. l + 1 /\ k - 1 = n /\ k \in 1 .. l + 1
          BY <3>4
        <5> HIDE DEF k
        <5>2. route[k] = b[n]
          BY <3>4, <5>1
        <5> QED
          BY <5>1, <5>2 DEF k
      <4>2. ASSUME NEW x \in AllModels PROVE x \in ToSet(route)
        <5>1. CASE x = r
          BY <3>4, <3>5, <5>1
        <5>2. CASE x # r
          <6>1. PICK n \in 1 .. l : b[n] = x
            BY <3>3, <3>5, <5>2
          <6> QED
            BY <3>5, <4>1, <6>1
        <5> QED
          BY <5>1, <5>2
      <4>3. ASSUME NEW n \in 1 .. l + 1 PROVE route[n] \in AllModels
        <5>1. CASE n = 1
          BY <3>1, <3>4, <5>1
        <5>2. CASE n # 1
          <6>1. n \in 2 .. l + 1 /\ n - 1 \in 1 .. l
            BY <3>4, <5>2
          <6> QED
            BY <3>3, <3>4, <6>1
        <5> QED
          BY <5>1, <5>2
      <4> QED
        BY <3>5, <4>2, <4>3
    <3>7. IsInjective(route)
      <4>1. \A i, j \in 1 .. l : b[i] = b[j] => i = j
        BY <3>3, <3>4 DEF IsInjective
      <4>2. \A n \in 1 .. l : b[n] # r
        BY <3>3, <3>5
      <4>3. ASSUME NEW i \in 1 .. l + 1, NEW j \in 1 .. l + 1, route[i] = route[j] PROVE i = j
        <5>1. \A n \in 2 .. l + 1 : n - 1 \in 1 .. l /\ route[n] = b[n - 1] /\ route[n] # r
          BY <3>4, <4>2
        <5>2. i = 1 \/ i \in 2 .. l + 1
          BY <3>4
        <5>3. j = 1 \/ j \in 2 .. l + 1
          BY <3>4
        <5>4. CASE i = 1 \/ j = 1
          BY <3>4, <4>3, <5>1, <5>2, <5>3, <5>4
        <5>5. CASE i \in 2 .. l + 1 /\ j \in 2 .. l + 1
          <6>1. i - 1 \in 1 .. l /\ j - 1 \in 1 .. l /\ b[i - 1] = b[j - 1]
            BY <4>3, <5>1, <5>5
          <6>2. i - 1 = j - 1
            BY <4>1, <6>1
          <6> QED
            BY <6>2, <3>4
        <5> QED
          BY <5>2, <5>3, <5>4, <5>5
      <4> QED
        BY <3>4, <4>3 DEF IsInjective
    <3>8. ASSUME NEW n \in 1 .. Len(route) - 1, n > 1 PROVE Score(route[n]) >= Score(route[n + 1])
      <4> DEFINE m == n - 1
                 k == n + 1
      <4>1. m \in 1 .. l - 1 /\ m + 1 = n /\ n \in 2 .. l + 1 /\ k \in 2 .. l + 1 /\ k - 1 = n
        BY <3>4, <3>8
      <4>2. route[n] = b[m] /\ route[k] = b[n]
        <5>1. \A x \in 2 .. l + 1 : route[x] = b[x - 1]
          BY <3>4
        <5> HIDE DEF k
        <5> QED
          BY <4>1, <5>1
      <4>3. Score(b[m]) >= Score(b[m + 1])
        <5> HIDE DEF m, k
        <5> QED
          BY <3>3, <4>1 DEF l
      <4> QED
        BY <4>1, <4>2, <4>3
    <3> QED
      BY <2>2, <3>4, <3>6, <3>7, <3>8 DEF route
  <2> QED
    BY <2>1, <2>2
<1> QED
  BY <1>1, <1>3 DEF HealthSound

-----------------------------------------------------------------------------
(* ModelCalls: the limiter. *)

\* What comes in over time.
Earned(x) == Rate * x
LEMMA EarnedAdds ==
    ASSUME NEW x \in Int, NEW y \in Int
    PROVE  Earned(x) \in Int /\ Earned(y) \in Int /\ Earned(x + y) = Earned(x) + Earned(y)
BY LimiterAssumption DEF Earned
LEMMA EarnedGrows ==
    ASSUME NEW x \in Int, NEW y \in Int, x <= y
    PROVE  Earned(x) \in Int /\ Earned(y) \in Int /\ Earned(x) <= Earned(y)
<1> DEFINE d == y - x
<1>1. d \in Nat /\ y = x + d /\ Rate \in Nat
  BY LimiterAssumption
<1> HIDE DEF d
<1>2. Rate * d \in Nat /\ Rate * (x + d) = Rate * x + Rate * d /\ Rate * x \in Int
  BY <1>1
<1> QED
  BY <1>1, <1>2 DEF Earned

\* A client with this bucket was let through at these times: the requests since
\* any of them and the tokens left were paid for by then.
Paid(b, g, t) ==
    /\ t \in Nat /\ g \in Seq(Nat) /\ b \in [tokens : Int, refilled : Int]
    /\ \A m \in DOMAIN g : g[m] <= t
    /\ b = NoBucket => \A m \in DOMAIN g : Len(g) - m + 1 <= Earned(t - g[m])
    /\ b # NoBucket => /\ b.tokens \in 0 .. Burst /\ b.refilled \in 0 .. t
                       /\ \A m \in DOMAIN g : /\ g[m] <= b.refilled
                                              /\ Len(g) - m + 1 + b.tokens <= Burst + Earned(b.refilled - g[m])
    /\ \A m, n \in DOMAIN g : m <= n => n - m + 1 <= Burst + Earned(g[n] - g[m])

LEMMA PaidLater == ASSUME NEW b, NEW g, NEW t, Paid(b, g, t) PROVE Paid(b, g, t + 1)
<1>1. t \in Nat /\ g \in Seq(Nat) /\ b \in [tokens : Int, refilled : Int]
  BY DEF Paid
<1>2. \A m \in DOMAIN g : g[m] \in Nat /\ g[m] <= t /\ m \in Nat /\ Len(g) \in Nat
  BY <1>1 DEF Paid
<1>3. ASSUME b = NoBucket, NEW m \in DOMAIN g PROVE Len(g) - m + 1 <= Earned((t + 1) - g[m])
  <2>1. Len(g) - m + 1 <= Earned(t - g[m])
    BY <1>3 DEF Paid
  <2> DEFINE x == t - g[m]
             y == (t + 1) - g[m]
  <2>2. x \in Int /\ y \in Int /\ x <= y
    BY <1>1, <1>2
  <2> HIDE DEF x, y
  <2>3. Earned(x) \in Int /\ Earned(y) \in Int /\ Earned(x) <= Earned(y)
    BY <2>2, EarnedGrows
  <2> QED
    BY <1>2, <2>1, <2>3 DEF x, y
<1>4. b # NoBucket => b.refilled \in 0 .. t + 1
  BY <1>1 DEF Paid
<1>5. \A m \in DOMAIN g : g[m] <= t + 1
  BY <1>1, <1>2
<1> QED
  BY <1>1, <1>3, <1>4, <1>5 DEF Paid

LEMMA PaidDropped ==
    ASSUME NEW b, NEW g, NEW t, Paid(b, g, t), b # NoBucket, t - b.refilled > IdleTime
    PROVE  Paid(NoBucket, g, t)
<1>1. /\ t \in Nat /\ g \in Seq(Nat) /\ b.tokens \in 0 .. Burst /\ b.refilled \in 0 .. t
      /\ Burst \in Nat /\ IdleTime \in Nat
  BY LimiterAssumption DEF Paid
<1>2. NoBucket \in [tokens : Int, refilled : Int]
  BY DEF NoBucket
<1>3. ASSUME NEW m \in DOMAIN g PROVE Len(g) - m + 1 <= Earned(t - g[m])
  <2> DEFINE at == g[m]
             left == b.tokens
             then == b.refilled
             since == Len(g) - m + 1
             x == then - at
             y == t - then
  <2>1. at \in Nat /\ since \in Int /\ left \in Nat /\ then \in Nat /\ since + left <= Burst + Earned(then - at)
        /\ y > IdleTime
    <3>1. at \in Nat /\ m \in Nat /\ Len(g) \in Nat
      BY <1>1
    <3>2. left \in Nat /\ then \in Nat
      BY <1>1
    <3>3. since + left <= Burst + Earned(then - at)
      BY DEF Paid
    <3> QED
      BY <3>1, <3>2, <3>3
  <2> HIDE DEF at, left, then, since
  <2>2. x \in Int /\ y \in Int /\ IdleTime \in Int /\ IdleTime <= y /\ t - at = x + y
    BY <1>1, <2>1
  <2>3. since + left <= Burst + Earned(x)
    BY <2>1
  <2> HIDE DEF x, y
  <2>4. Earned(x + y) = Earned(x) + Earned(y) /\ Earned(x) \in Int /\ Earned(y) \in Int
    BY <2>2, EarnedAdds
  <2>5. Earned(IdleTime) <= Earned(y) /\ Earned(IdleTime) \in Int
    BY <2>2, EarnedGrows
  <2>6. Earned(IdleTime) >= Burst
    BY LimiterAssumption DEF Earned
  <2>7. since <= Earned(t - at)
    BY <1>1, <2>1, <2>2, <2>3, <2>4, <2>5, <2>6
  <2> QED
    BY <2>7 DEF since, at
<1> QED
  BY <1>1, <1>2, <1>3 DEF Paid

\* The bucket a request finds.
Filled(b, t) == IF b = NoBucket THEN [tokens |-> Burst, refilled |-> t]
                ELSE [tokens |-> Min({Burst, b.tokens + Rate * (t - b.refilled)}), refilled |-> t]
LEMMA PaidFilled ==
    ASSUME NEW b, NEW g, NEW t, Paid(b, g, t)
    PROVE  Paid(Filled(b, t), g, t) /\ Filled(b, t) # NoBucket /\ Filled(b, t).refilled = t
           /\ Filled(b, t) \in [tokens : Int, refilled : Int]
<1> DEFINE tokens == Filled(b, t).tokens
<1>1. /\ t \in Nat /\ g \in Seq(Nat) /\ Burst \in Nat
      /\ \A m \in DOMAIN g : g[m] \in Nat /\ g[m] <= t /\ m \in Nat /\ Len(g) \in Nat
  BY LimiterAssumption DEF Paid
<1>2. Filled(b, t) = [tokens |-> tokens, refilled |-> t]
  BY DEF Filled
<1>3. CASE b = NoBucket
  <2>1. tokens = Burst
    BY <1>3 DEF Filled
  <2>2. ASSUME NEW m \in DOMAIN g PROVE Len(g) - m + 1 + tokens <= Burst + Earned(t - g[m])
    <3>1. Len(g) - m + 1 <= Earned(t - g[m])
      BY <1>3 DEF Paid
    <3>2. Earned(t - g[m]) \in Int
      <4>1. t - g[m] \in Int
        BY <1>1
      <4> QED
        BY <4>1, EarnedAdds
    <3> QED
      BY <1>1, <2>1, <3>1, <3>2
  <2> HIDE DEF tokens
  <2> QED
    BY <1>1, <1>2, <2>1, <2>2 DEF Paid, NoBucket
<1>4. CASE b # NoBucket
  <2> DEFINE d == t - b.refilled
  <2>1. b.tokens \in 0 .. Burst /\ b.refilled \in 0 .. t /\ d \in Int /\ 0 <= d
    BY <1>1, <1>4 DEF Paid
  <2> DEFINE full == b.tokens + Earned(d)
  <2>2. Earned(d) \in Int /\ 0 <= Earned(d)
    <3>1. Earned(0) = 0
      BY LimiterAssumption DEF Earned
    <3> HIDE DEF d
    <3>2. 0 \in Int /\ d \in Int /\ 0 <= d
      BY <2>1
    <3>3. Earned(d) \in Int /\ Earned(0) <= Earned(d)
      BY <3>2, EarnedGrows
    <3> QED
      BY <3>1, <3>3
  <2>3. tokens = Min({Burst, full})
    BY <1>4 DEF Filled, Earned
  <2>4. tokens = IF Burst <= full THEN Burst ELSE full
    <3>1. full \in Int /\ Burst \in Int
      BY <1>1, <2>1, <2>2
    <3> HIDE DEF full, tokens
    <3> QED
      BY <2>3, <3>1, MinOfTwo
  <2> HIDE DEF tokens, d
  <2>5. tokens \in 0 .. Burst /\ tokens <= full
    BY <1>1, <2>1, <2>2, <2>4
  <2>6. ASSUME NEW m \in DOMAIN g PROVE Len(g) - m + 1 + tokens <= Burst + Earned(t - g[m])
    <3> DEFINE x == b.refilled - g[m]
    <3>1. Len(g) - m + 1 + b.tokens <= Burst + Earned(x)
      BY <1>4 DEF Paid
    <3>2. x \in Int /\ t - g[m] = x + d
      BY <1>1, <2>1 DEF d
    <3> HIDE DEF x
    <3>3. Earned(x) \in Int /\ Earned(t - g[m]) = Earned(x) + Earned(d)
      BY <2>1, <3>2, EarnedAdds
    <3>4. Len(g) - m + 1 \in Int
      BY <1>1
    <3> DEFINE since == Len(g) - m + 1
               left == b.tokens
    <3>5. since \in Int /\ left \in Int /\ since + left <= Burst + Earned(x) /\ tokens <= left + Earned(d)
      BY <2>1, <2>5, <3>1, <3>4
    <3>6. tokens \in Int /\ Burst \in Int
      BY <1>1, <2>5
    <3> HIDE DEF since, left
    <3>7. since + tokens <= Burst + Earned(t - g[m])
      BY <2>2, <3>3, <3>5, <3>6
    <3> QED
      BY <3>7 DEF since
  <2> QED
    BY <1>1, <1>2, <2>5, <2>6 DEF Paid, NoBucket
<1> QED
  BY <1>3, <1>4

LEMMA PaidGranted ==
    ASSUME NEW b, NEW g, NEW t, Paid(b, g, t), b # NoBucket, b.refilled = t, b.tokens >= 1
    PROVE  Paid([b EXCEPT !.tokens = @ - 1], Append(g, t), t)
<1> DEFINE less == [b EXCEPT !.tokens = @ - 1]
           more == Append(g, t)
           k == Len(g) + 1
<1>1. t \in Nat /\ g \in Seq(Nat) /\ b \in [tokens : Int, refilled : Int] /\ b.tokens \in 0 .. Burst
      /\ Burst \in Nat /\ Len(g) \in Nat
  BY LimiterAssumption DEF Paid
<1>2. less \in [tokens : Int, refilled : Int] /\ less.tokens = b.tokens - 1 /\ less.refilled = t
      /\ less.tokens \in 0 .. Burst /\ less # NoBucket
  <2>1. less \in [tokens : Int, refilled : Int] /\ less.tokens = b.tokens - 1 /\ less.refilled = t
    BY <1>1
  <2>2. b.tokens - 1 \in 0 .. Burst
    BY <1>1
  <2> HIDE DEF less
  <2> QED
    BY <2>1, <2>2 DEF NoBucket
<1>3. /\ more \in Seq(Nat) /\ Len(more) = k /\ DOMAIN more = 1 .. k /\ more[k] = t
      /\ DOMAIN g = 1 .. Len(g) /\ \A m \in 1 .. Len(g) : more[m] = g[m]
  BY <1>1
<1>4. ASSUME NEW m \in 1 .. k
      PROVE  more[m] \in Nat /\ more[m] <= t /\ k - m + 1 + less.tokens <= Burst + Earned(t - more[m])
  <2>1. CASE m = k
    <3>1. Earned(t - t) = 0
      <4>1. t - t = 0
        BY <1>1
      <4> QED
        BY <4>1, LimiterAssumption DEF Earned
    <3>2. k - m + 1 = 1
      BY <1>1, <2>1
    <3> QED
      BY <1>1, <1>2, <1>3, <2>1, <3>1, <3>2
  <2>2. CASE m # k
    <3>1. m \in 1 .. Len(g) /\ m \in DOMAIN g
      BY <1>1, <1>3, <2>2
    <3>2. g[m] <= t /\ g[m] \in Nat /\ more[m] = g[m] /\ Len(g) - m + 1 + b.tokens <= Burst + Earned(t - g[m])
      BY <1>1, <1>3, <3>1 DEF Paid
    <3>3. Earned(t - g[m]) \in Int
      <4>1. t - g[m] \in Int
        BY <1>1, <3>2
      <4> QED
        BY <4>1, EarnedAdds
    <3> HIDE DEF less, more
    <3> QED
      BY <1>1, <1>2, <3>1, <3>2, <3>3
  <2> QED
    BY <2>1, <2>2
<1>5. ASSUME NEW m \in 1 .. k, NEW n \in 1 .. k, m <= n PROVE n - m + 1 <= Burst + Earned(more[n] - more[m])
  <2>1. CASE n = k
    <3>1. k - m + 1 + less.tokens <= Burst + Earned(t - more[m])
      BY <1>4
    <3>2. Earned(t - more[m]) \in Int
      <4>1. t - more[m] \in Int
        <5>1. more[m] \in Nat
          BY <1>4
        <5>2. t \in Nat
          BY <1>1
        <5> HIDE DEF more, k
        <5> QED
          BY <5>1, <5>2
      <4> QED
        BY <4>1, EarnedAdds
    <3> HIDE DEF less, more
    <3> QED
      BY <1>1, <1>2, <1>3, <2>1, <3>1, <3>2
  <2>2. CASE n # k
    <3>1. n \in DOMAIN g /\ m \in DOMAIN g /\ more[n] = g[n] /\ more[m] = g[m]
      BY <1>1, <1>3, <1>5, <2>2
    <3>2. n - m + 1 <= Burst + Earned(g[n] - g[m])
      BY <1>5, <3>1 DEF Paid
    <3> QED
      BY <3>1, <3>2
  <2> QED
    BY <2>1, <2>2
<1> HIDE DEF less, more, k
<1>6. t \in 0 .. t
  BY <1>1
<1> QED
  BY <1>1, <1>2, <1>3, <1>4, <1>5, <1>6 DEF Paid, less, more

LimiterInv ==
    /\ now \in Nat /\ lastCleanup \in Nat /\ lastCleanup <= now
    /\ bucket \in [Clients -> [tokens : Int, refilled : Int]] /\ granted \in [Clients -> Seq(Nat)]
    /\ \A c \in Clients : Paid(bucket[c], granted[c], now)

LEMMA LimiterInitially == LimiterInit => LimiterInv
<1> SUFFICES ASSUME LimiterInit PROVE LimiterInv
  OBVIOUS
<1>1. NoBucket \in [tokens : Int, refilled : Int] /\ <<>> \in Seq(Nat)
  BY DEF NoBucket
<1>2. Paid(NoBucket, <<>>, 0)
  BY <1>1 DEF Paid
<1> QED
  BY <1>1, <1>2 DEF LimiterInit, LimiterInv

LEMMA LimiterNextKeeps == LimiterInv /\ [LimiterNext]_limiterVars => LimiterInv'
<1> SUFFICES ASSUME LimiterInv, [LimiterNext]_limiterVars PROVE LimiterInv'
  OBVIOUS
<1>1. CASE Tick
  <2>1. now' = now + 1 /\ lastCleanup' = lastCleanup /\ bucket' = bucket /\ granted' = granted
    BY <1>1 DEF Tick
  <2>2. \A c \in Clients : Paid(bucket[c], granted[c], now + 1)
    BY PaidLater DEF LimiterInv
  <2> QED
    BY <2>1, <2>2 DEF LimiterInv
<1>2. ASSUME NEW c \in Clients, Allow(c) PROVE LimiterInv'
  <2> DEFINE Bs == [tokens : Int, refilled : Int]
             kept == IF now - lastCleanup > IdleTime THEN Cleaned2 ELSE bucket
             b == IF kept[c] = NoBucket THEN [tokens |-> Burst, refilled |-> now] ELSE Refill(kept[c])
             after == [b EXCEPT !.tokens = IF @ >= 1 THEN @ - 1 ELSE @]
             list == IF b.tokens >= 1 THEN Append(granted[c], now) ELSE granted[c]
  <2>1. /\ lastCleanup' = IF now - lastCleanup > IdleTime THEN now ELSE lastCleanup
        /\ bucket' = [kept EXCEPT ![c] = after]
        /\ granted' = IF b.tokens >= 1 THEN [granted EXCEPT ![c] = Append(@, now)] ELSE granted
        /\ now' = now
    BY <1>2 DEF Allow
  <2>2. \A d \in Clients : kept[d] \in Bs /\ Paid(kept[d], granted[d], now)
    <3>1. \A d \in Clients : bucket[d] \in Bs /\ Paid(bucket[d], granted[d], now)
      BY DEF LimiterInv
    <3>2. ASSUME NEW d \in Clients PROVE Cleaned2[d] \in Bs /\ Paid(Cleaned2[d], granted[d], now)
      <4>1. CASE bucket[d] # NoBucket /\ now - bucket[d].refilled > IdleTime
        <5>1. Cleaned2[d] = NoBucket
          BY <4>1 DEF Cleaned2
        <5> QED
          BY <3>1, <4>1, <5>1, PaidDropped DEF NoBucket
      <4>2. CASE ~(bucket[d] # NoBucket /\ now - bucket[d].refilled > IdleTime)
        BY <3>1, <4>2 DEF Cleaned2
      <4> QED
        BY <4>1, <4>2
    <3> QED
      BY <3>1, <3>2
  <2>3. kept \in [Clients -> Bs]
    <3>1. kept = [d \in Clients |-> kept[d]]
      BY DEF Cleaned2, LimiterInv
    <3> HIDE DEF kept
    <3> QED
      BY <2>2, <3>1
  <2>4. b = Filled(kept[c], now)
    BY DEF Filled, Refill
  <2> HIDE DEF kept, b
  <2>5. Paid(b, granted[c], now) /\ b # NoBucket /\ b.refilled = now /\ b \in Bs
    BY <2>2, <2>4, PaidFilled
  <2>6. Paid(after, list, now) /\ after \in Bs
    <3>1. CASE b.tokens >= 1
      <4>1. after = [b EXCEPT !.tokens = @ - 1] /\ list = Append(granted[c], now)
        BY <3>1
      <4> HIDE DEF after, list
      <4>2. Paid(after, list, now)
        BY <2>5, <3>1, <4>1, PaidGranted
      <4> QED
        BY <4>2 DEF Paid
    <3>2. CASE ~(b.tokens >= 1)
      <4>1. after = b /\ list = granted[c]
        BY <2>5, <3>2
      <4> HIDE DEF after, list
      <4> QED
        BY <2>5, <4>1
    <3> QED
      BY <3>1, <3>2
  <2>7. granted' = [granted EXCEPT ![c] = list]
    BY <2>1 DEF LimiterInv
  <2>8. now \in Nat /\ lastCleanup \in Nat /\ lastCleanup <= now /\ granted \in [Clients -> Seq(Nat)]
    BY DEF LimiterInv
  <2> HIDE DEF after, list
  <2>9. list \in Seq(Nat)
    BY <2>6 DEF Paid
  <2>10. bucket' \in [Clients -> Bs] /\ granted' \in [Clients -> Seq(Nat)]
    BY <2>1, <2>3, <2>6, <2>7, <2>8, <2>9
  <2>11. ASSUME NEW d \in Clients PROVE Paid(bucket'[d], granted'[d], now)
    <3>1. CASE d = c
      BY <2>1, <2>3, <2>6, <2>7, <2>8, <3>1
    <3>2. CASE d # c
      BY <2>1, <2>2, <2>3, <2>7, <2>8, <3>2
    <3> QED
      BY <3>1, <3>2
  <2>12. lastCleanup' \in Nat /\ lastCleanup' <= now
    BY <2>1, <2>8
  <2> QED
    BY <2>1, <2>8, <2>10, <2>11, <2>12 DEF LimiterInv
<1>3. CASE UNCHANGED limiterVars
  BY <1>3 DEF limiterVars, LimiterInv
<1> QED
  BY <1>1, <1>2, <1>3 DEF LimiterNext

LEMMA LimiterGivesKept == LimiterInv => RateKept
<1>1. ASSUME LimiterInv, NEW c \in Clients, NEW m \in DOMAIN granted[c], NEW n \in DOMAIN granted[c], m <= n
      PROVE  n - m + 1 <= Burst + Rate * (granted[c][n] - granted[c][m])
  BY <1>1 DEF LimiterInv, Paid, Earned
<1> QED
  BY <1>1 DEF RateKept

-----------------------------------------------------------------------------
(* ModelCalls: one call. *)

Entries == [name : {"none", "read", "write"}, pieces : Seq(Nat)]
Pieces == [index : Indices, name : {"none", "read", "write"}]
Collections == UNION {[I -> Entries] : I \in SUBSET Indices}
Arrivals == Seq(Pieces)
CallShapes ==
    [kind : Kinds, native : BOOLEAN, at : {"asking", "pause", "streaming", "over"}, tries : 1 .. MaxTries,
     passed : Nat, collected : Collections, arrived : Arrivals,
     outcome : {"none", "error", "exhausted", "timeout", "abandoned", "text", "tools", "nothing", "cut"},
     exhausted : BOOLEAN]

CallInv ==
    /\ call \in CallShapes
    /\ call.at = "pause" => call.tries < MaxTries
    /\ call.at # "over" => call.outcome = "none"
    /\ CallSound

LEMMA CallInitially == CallInit => CallInv
<1> SUFFICES ASSUME CallInit PROVE CallInv
  OBVIOUS
<1>1. PICK kind \in Kinds, native \in BOOLEAN :
        call = IF kind = "select" /\ native
               THEN [NewCall(kind, native) EXCEPT !.at = "over", !.outcome = "nothing"] ELSE NewCall(kind, native)
  BY DEF CallInit
<1>2. [i \in {} |-> "none"] \in Collections /\ <<>> \in Arrivals
  BY DEF Collections, Arrivals
<1>3. ToSet(<<>>) = {}
  BY DEF ToSet
<1>4. /\ call.kind = kind /\ call.native = native /\ call.at \in {"asking", "over"} /\ call.tries = 1
      /\ call.passed = 0 /\ call.collected = [i \in {} |-> "none"] /\ call.arrived = <<>>
      /\ call.outcome \in {"none", "nothing"} /\ call.exhausted = FALSE /\ (call.at = "asking" => call.outcome = "none")
  BY <1>1 DEF NewCall
<1>5. call \in CallShapes
  <2> DEFINE fresh == NewCall(kind, native)
  <2>1. fresh \in CallShapes
    BY <1>2, ModelCallsAssumption DEF NewCall, CallShapes
  <2>2. call = IF kind = "select" /\ native THEN [fresh EXCEPT !.at = "over", !.outcome = "nothing"] ELSE fresh
    BY <1>1
  <2> HIDE DEF fresh
  <2> QED
    BY <2>1, <2>2 DEF CallShapes
<1> QED
  BY <1>3, <1>4, <1>5, ModelCallsAssumption DEF CallInv, CallSound

\* What the fragments make of a tool call.
LEMMA CallSame ==
    ASSUME CallInv, call' \in CallShapes, call'.arrived = call.arrived, call'.collected = call.collected,
           call'.kind = call.kind,
           call'.at = "pause" => call'.tries < MaxTries, call'.at # "over" => call'.outcome = "none",
           (call'.exhausted /\ call.kind # "runner") => (call'.outcome = "exhausted" /\ call'.passed = 0),
           call'.at \in {"asking", "pause"} => (call'.passed = 0 /\ call'.arrived = <<>>),
           call'.outcome = "text" => call'.arrived = <<>>
    PROVE  CallInv'
<1>1. call'.tries <= MaxTries
  BY DEF CallShapes
<1>2. \A i : Fragments(i)' = Fragments(i) /\ NamedAt(i)' = NamedAt(i)
  BY DEF Fragments, NamedAt
<1> QED
  BY <1>1, <1>2 DEF CallInv, CallSound, ChecksMemory, InOrder

LEMMA ToolChunkKeeps ==
    ASSUME CallInv, NEW index \in Indices, NEW name \in {"none", "read", "write"}, ToolChunk(index, name)
    PROVE  CallInv'
<1> DEFINE n == Len(call.arrived) + 1
<1>1. /\ call \in CallShapes /\ call.at = "streaming" /\ call.kind = "runner" /\ CallSound
      /\ call.arrived \in Seq(Pieces) /\ n \in Nat
  BY DEF CallInv, ToolChunk, CallShapes, Arrivals
<1> DEFINE old == IF index \in DOMAIN call.collected THEN call.collected[index] ELSE [name |-> name, pieces |-> <<>>]
<1>2.   call' = [call EXCEPT !.collected = [i \in DOMAIN @ \union {index} |->
                                 IF i = index THEN Grown(old, name, n) ELSE @[i]],
                             !.arrived = Append(@, [index |-> index, name |-> name])]
  BY DEF ToolChunk
<1>3. PICK I \in SUBSET Indices : call.collected \in [I -> Entries]
  BY <1>1 DEF CallShapes, Collections
<1>4. old \in Entries /\ (index \in I => old = call.collected[index])
      /\ (index \notin I => (old.name = name /\ old.pieces = <<>>))
  BY <1>3 DEF Entries
<1> HIDE DEF old
<1>5. Grown(old, name, n) \in Entries
  BY <1>1, <1>4 DEF Grown, Entries
<1> DEFINE grown == [i \in DOMAIN call.collected \union {index} |->
                       IF i = index THEN Grown(old, name, n) ELSE call.collected[i]]
<1>6. /\ grown \in [I \union {index} -> Entries] /\ I \union {index} \in SUBSET Indices
      /\ grown[index] = Grown(old, name, n) /\ \A i \in I \ {index} : grown[i] = call.collected[i]
  BY <1>3, <1>5
<1> HIDE DEF grown
<1>7. /\ call'.collected = grown /\ call'.arrived = Append(call.arrived, [index |-> index, name |-> name])
      /\ call'.kind = "runner" /\ call'.at = "streaming" /\ call'.tries = call.tries
      /\ call'.exhausted = call.exhausted /\ call'.outcome = call.outcome /\ call'.passed = call.passed
  BY <1>1, <1>2 DEF CallShapes, grown
<1>8. call' \in CallShapes
  <2>1. call' = [call EXCEPT !.collected = grown, !.arrived = Append(@, [index |-> index, name |-> name])]
    BY <1>2 DEF grown
  <2>2. Append(call.arrived, [index |-> index, name |-> name]) \in Arrivals
    <3>1. [index |-> index, name |-> name] \in Pieces
      BY DEF Pieces
    <3> HIDE DEF n
    <3> QED
      BY <3>1, <1>1 DEF Arrivals
  <2>3. grown \in Collections
    BY <1>6 DEF Collections
  <2> QED
    BY <1>1, <2>1, <2>2, <2>3 DEF CallShapes
<1>9. /\ DOMAIN call'.arrived = DOMAIN call.arrived \union {n} /\ n \notin DOMAIN call.arrived
      /\ \A m \in DOMAIN call.arrived : call'.arrived[m] = call.arrived[m] /\ m \in Nat /\ m < n
      /\ call'.arrived[n] = [index |-> index, name |-> name]
  <2> DEFINE piece == [index |-> index, name |-> name]
             old2 == call.arrived
  <2>1. old2 \in Seq(Pieces) /\ piece \in Pieces /\ call'.arrived = Append(old2, piece) /\ n = Len(old2) + 1
    BY <1>1, <1>7 DEF Pieces
  <2> HIDE DEF piece, old2, n
  <2>2. DOMAIN old2 = 1 .. Len(old2) /\ Len(old2) \in Nat /\ DOMAIN Append(old2, piece) = 1 .. n
    BY <2>1
  <2>3. \A m \in 1 .. Len(old2) : Append(old2, piece)[m] = old2[m]
    BY <2>1
  <2>4. Append(old2, piece)[n] = piece
    BY <2>1
  <2>5. DOMAIN Append(old2, piece) = DOMAIN old2 \union {n} /\ n \notin DOMAIN old2
    BY <2>1, <2>2
  <2>6. \A m \in DOMAIN old2 : m \in Nat /\ m < n
    BY <2>1, <2>2
  <2> QED
    BY <2>1, <2>2, <2>3, <2>4, <2>5, <2>6 DEF piece, old2
<1> HIDE DEF n
<1>10. /\ Fragments(index)' = Fragments(index) \union {n}
       /\ \A i : i # index => Fragments(i)' = Fragments(i)
  <2>1. ASSUME NEW i PROVE Fragments(i)' = {m \in DOMAIN call.arrived \union {n} : call'.arrived[m].index = i}
    BY <1>9 DEF Fragments
  <2>2. call'.arrived[n].index = index
    BY <1>9
  <2> QED
    BY <2>1, <2>2, <1>9 DEF Fragments
<1>11. /\ NamedAt(index)' = IF name = "none" THEN NamedAt(index) ELSE NamedAt(index) \union {n}
       /\ \A i : i # index => NamedAt(i)' = NamedAt(i)
  <2>1. ASSUME NEW i PROVE NamedAt(i)' = {m \in Fragments(i)' : call'.arrived[m].name # "none"}
    BY DEF NamedAt
  <2>2. call'.arrived[n].name = name
    BY <1>9
  <2>3. \A i : \A m \in Fragments(i) : call'.arrived[m].name = call.arrived[m].name
    BY <1>9 DEF Fragments
  <2>4. \A i : n \notin Fragments(i)
    BY <1>9 DEF Fragments
  <2>5. ASSUME NEW i, i # index PROVE NamedAt(i)' = NamedAt(i)
    BY <2>1, <2>3, <2>5, <1>10 DEF NamedAt
  <2>6. NamedAt(index)' = IF name = "none" THEN NamedAt(index) ELSE NamedAt(index) \union {n}
    BY <2>1, <2>2, <2>3, <2>4, <1>10 DEF NamedAt
  <2> QED
    BY <2>5, <2>6
<1>12. \A i : NamedAt(i) \subseteq Fragments(i) /\ Fragments(i) \subseteq DOMAIN call.arrived
  BY DEF NamedAt, Fragments
<1>13. DOMAIN grown = {f.index : f \in ToSet(call'.arrived)}
  <2>1. ToSet(call'.arrived) = ToSet(call.arrived) \union {[index |-> index, name |-> name]}
    BY <1>9 DEF ToSet
  <2>2. DOMAIN call.collected = {f.index : f \in ToSet(call.arrived)}
    BY <1>1 DEF CallSound
  <2>3. DOMAIN grown = DOMAIN call.collected \union {index}
    BY <1>3, <1>6
  <2>4. ASSUME NEW i PROVE i \in DOMAIN grown <=> i \in {f.index : f \in ToSet(call'.arrived)}
    <3>1. i \in DOMAIN grown <=> (i \in {f.index : f \in ToSet(call.arrived)} \/ i = index)
      BY <2>2, <2>3
    <3>2. i \in {f.index : f \in ToSet(call'.arrived)}
          <=> \E f \in ToSet(call.arrived) \union {[index |-> index, name |-> name]} : i = f.index
      BY <2>1
    <3>3. [index |-> index, name |-> name].index = index
      OBVIOUS
    <3>4. (\E f \in ToSet(call.arrived) \union {[index |-> index, name |-> name]} : i = f.index)
          <=> ((\E f \in ToSet(call.arrived) : i = f.index) \/ i = index)
      BY <3>3
    <3> QED
      BY <3>1, <3>2, <3>4
  <2> QED
    BY <2>4
<1>14. /\ ToSet(grown[index].pieces) = Fragments(index)' /\ InOrder(grown[index].pieces)
  <2>1. old.pieces \in Seq(Nat) /\ grown[index].pieces = Append(old.pieces, n)
    BY <1>4, <1>6 DEF Grown, Entries
  <2>2. ToSet(old.pieces) = Fragments(index) /\ InOrder(old.pieces)
    <3>1. CASE index \in I
      BY <1>1, <1>3, <1>4, <3>1 DEF CallSound
    <3>2. CASE index \notin I
      <4>1. old.pieces = <<>>
        BY <1>4, <3>2
      <4>2. Fragments(index) = {}
        <5>1. {f.index : f \in ToSet(call.arrived)} = I
          BY <1>1, <1>3 DEF CallSound
        <5> QED
          BY <5>1, <3>2 DEF ToSet, Fragments
      <4> QED
        BY <4>1, <4>2 DEF ToSet, InOrder
    <3> QED
      BY <3>1, <3>2
  <2>3. \A k \in DOMAIN old.pieces : old.pieces[k] \in Nat /\ old.pieces[k] < n
    <3>1. \A k \in DOMAIN old.pieces : old.pieces[k] \in Fragments(index)
      BY <2>2 DEF ToSet
    <3> QED
      BY <3>1, <1>9, <1>12
  <2>4. /\ DOMAIN Append(old.pieces, n) = DOMAIN old.pieces \union {Len(old.pieces) + 1}
        /\ DOMAIN old.pieces = 1 .. Len(old.pieces) /\ Len(old.pieces) \in Nat
        /\ \A k \in DOMAIN old.pieces : Append(old.pieces, n)[k] = old.pieces[k]
        /\ Append(old.pieces, n)[Len(old.pieces) + 1] = n
    BY <2>1, <1>1
  <2>5. ToSet(Append(old.pieces, n)) = ToSet(old.pieces) \union {n}
    BY <2>4 DEF ToSet
  <2>6. InOrder(Append(old.pieces, n))
    BY <2>2, <2>3, <2>4, <1>1 DEF InOrder
  <2> QED
    BY <2>1, <2>2, <2>5, <2>6, <1>10
<1>15. /\ NamedAt(index)' = {} => grown[index].name = "none"
       /\ \A k \in NamedAt(index)' : (\A m \in NamedAt(index)' : m <= k) => grown[index].name = call'.arrived[k].name
  <2>1. grown[index].name = IF name # "none" THEN name ELSE old.name
    BY <1>4, <1>6 DEF Grown
  <2>2. CASE name # "none"
    <3>1. \A k \in NamedAt(index)' : (\A m \in NamedAt(index)' : m <= k) => k = n
      BY <2>2, <1>1, <1>9, <1>11, <1>12
    <3> QED
      BY <2>1, <2>2, <3>1, <1>9, <1>11
  <2>3. CASE name = "none"
    <3>1. NamedAt(index)' = NamedAt(index) /\ grown[index].name = old.name
      BY <2>1, <2>3, <1>11
    <3>2. CASE index \in I
      BY <3>1, <3>2, <1>1, <1>3, <1>4, <1>9, <1>12 DEF CallSound
    <3>3. CASE index \notin I
      <4>1. old.name = "none"
        BY <1>4, <3>3, <2>3
      <4>2. NamedAt(index) = {}
        <5>1. {f.index : f \in ToSet(call.arrived)} = I
          BY <1>1, <1>3 DEF CallSound
        <5> QED
          BY <5>1, <3>3 DEF ToSet, Fragments, NamedAt
      <4> QED
        BY <3>1, <4>1, <4>2
    <3> QED
      BY <3>2, <3>3
  <2> QED
    BY <2>2, <2>3
<1>16. ASSUME NEW i \in DOMAIN grown, i # index
       PROVE  /\ ToSet(grown[i].pieces) = Fragments(i)' /\ InOrder(grown[i].pieces)
              /\ NamedAt(i)' = {} => grown[i].name = "none"
              /\ \A k \in NamedAt(i)' : (\A m \in NamedAt(i)' : m <= k) => grown[i].name = call'.arrived[k].name
  <2>1. i \in I /\ grown[i] = call.collected[i]
    BY <1>6, <1>16
  <2>2. Fragments(i)' = Fragments(i) /\ NamedAt(i)' = NamedAt(i)
    BY <1>10, <1>11, <1>16
  <2>3. /\ ToSet(call.collected[i].pieces) = Fragments(i) /\ InOrder(call.collected[i].pieces)
        /\ NamedAt(i) = {} => call.collected[i].name = "none"
        /\ \A k \in NamedAt(i) : (\A m \in NamedAt(i) : m <= k) => call.collected[i].name = call.arrived[k].name
    BY <2>1, <1>1, <1>3 DEF CallSound
  <2>4. \A k \in NamedAt(i) : call'.arrived[k] = call.arrived[k]
    BY <1>9, <1>12 DEF NamedAt
  <2>5. ToSet(grown[i].pieces) = Fragments(i)' /\ InOrder(grown[i].pieces)
    BY <2>1, <2>2, <2>3
  <2>6. NamedAt(i)' = {} => grown[i].name = "none"
    BY <2>1, <2>2, <2>3
  <2>7. ASSUME NEW k \in NamedAt(i)', \A m \in NamedAt(i)' : m <= k PROVE grown[i].name = call'.arrived[k].name
    <3>1. k \in NamedAt(i) /\ \A m \in NamedAt(i) : m <= k
      BY <2>2, <2>7
    <3> QED
      BY <3>1, <2>1, <2>3, <2>4
  <2> HIDE DEF grown
  <2> QED
    BY <2>5, <2>6, <2>7
<1>17. call'.tries <= MaxTries
  BY <1>8 DEF CallShapes
<1>18. call'.at = "streaming" /\ call.outcome = "none"
  BY <1>1, <1>7 DEF CallInv
<1>19. ASSUME NEW i \in DOMAIN grown
       PROVE  /\ ToSet(grown[i].pieces) = Fragments(i)' /\ InOrder(grown[i].pieces)
              /\ NamedAt(i)' = {} => grown[i].name = "none"
              /\ \A k \in NamedAt(i)' : (\A m \in NamedAt(i)' : m <= k) => grown[i].name = call'.arrived[k].name
  <2>1. CASE i = index
    BY <2>1, <1>14, <1>15
  <2>2. CASE i # index
    BY <2>2, <1>16
  <2> QED
    BY <2>1, <2>2
<1> HIDE DEF grown
<1>20. call'.collected = grown /\ call'.kind = "runner" /\ call'.at = "streaming" /\ call'.outcome = "none"
  BY <1>7, <1>18
<1>21. CallSound'
  BY <1>13, <1>17, <1>19, <1>20 DEF CallSound, ChecksMemory
<1> QED
  BY <1>8, <1>20, <1>21 DEF CallInv

LEMMA CallNextKeeps == CallInv /\ [CallNext]_callVars => CallInv'
<1> SUFFICES ASSUME CallInv, [CallNext]_callVars PROVE CallInv'
  OBVIOUS
<1>0. call \in CallShapes
  BY DEF CallInv
<1> DEFINE same == call'.arrived = call.arrived /\ call'.collected = call.collected /\ call'.kind = call.kind
<1>1. ASSUME NEW retryable \in BOOLEAN, NEW memory \in BOOLEAN, Refused(retryable, memory) PROVE CallInv'
  <2>1. /\ call.at = "asking" /\ call.outcome = "none" /\ call.passed = 0 /\ call.arrived = <<>>
        /\ (call.exhausted /\ call.kind # "runner") => FALSE
    BY <1>1 DEF CallInv, CallSound, ChecksMemory, Refused
  <2> DEFINE told == [call EXCEPT !.exhausted = @ \/ memory]
  <2>2. told \in CallShapes /\ told.exhausted = (call.exhausted \/ memory)
    BY <1>0 DEF CallShapes
  <2>3. told.arrived = call.arrived /\ told.collected = call.collected /\ told.kind = call.kind
        /\ told.tries = call.tries /\ told.passed = 0 /\ told.outcome = "none"
    BY <1>0, <2>1 DEF CallShapes
  <2>4. call' = IF memory /\ ChecksMemory(call) THEN [told EXCEPT !.at = "over", !.outcome = "exhausted"]
                ELSE IF TriesAgain(retryable) THEN [told EXCEPT !.at = "pause"]
                ELSE [told EXCEPT !.at = "over", !.outcome = "error"]
    BY <1>1 DEF Refused
  <2> HIDE DEF told
  <2>5. CASE memory /\ ChecksMemory(call)
    BY CallSame, <2>1, <2>2, <2>3, <2>4, <2>5 DEF CallShapes
  <2>6. CASE ~(memory /\ ChecksMemory(call)) /\ TriesAgain(retryable)
    BY CallSame, <2>1, <2>2, <2>3, <2>4, <2>6 DEF CallShapes, TriesAgain, ChecksMemory
  <2>7. CASE ~(memory /\ ChecksMemory(call)) /\ ~TriesAgain(retryable)
    BY CallSame, <2>1, <2>2, <2>3, <2>4, <2>7 DEF CallShapes, ChecksMemory
  <2> QED
    BY <2>5, <2>6, <2>7
<1>2. CASE Resume
  <2>1. /\ call.at = "pause" /\ call.tries < MaxTries /\ call.outcome = "none" /\ call.passed = 0 /\ call.arrived = <<>>
        /\ ~(call.exhausted /\ call.kind # "runner")
    BY <1>2 DEF CallInv, CallSound, ChecksMemory, Resume
  <2>2. call' \in CallShapes
    <3>1. call.tries \in 1 .. MaxTries /\ call.tries + 1 \in 1 .. MaxTries
      BY <1>0, <2>1, ModelCallsAssumption DEF CallShapes
    <3> DEFINE tries == call.tries + 1
    <3>2. call' = [call EXCEPT !.at = "asking", !.tries = tries]
      BY <1>2 DEF Resume
    <3> HIDE DEF tries
    <3> QED
      BY <1>0, <3>1, <3>2 DEF CallShapes, tries
  <2> QED
    BY CallSame, <1>0, <1>2, <2>1, <2>2 DEF CallShapes, Resume
<1>3. ASSUME NEW outcome \in {"timeout", "error", "abandoned"}, call.at # "over", Over2(outcome) PROVE CallInv'
  <2>1. call.outcome = "none" /\ ~(call.exhausted /\ call.kind # "runner")
    BY <1>3 DEF CallInv, CallSound, ChecksMemory
  <2> QED
    BY CallSame, <1>0, <1>3, <2>1 DEF CallShapes, Over2
<1>4. ASSUME NEW empty \in BOOLEAN, NEW tools \in BOOLEAN, Answered2(empty, tools) PROVE CallInv'
  <2>1. /\ call.at = "asking" /\ call.outcome = "none" /\ call.passed = 0 /\ call.arrived = <<>>
        /\ ~(call.exhausted /\ call.kind # "runner")
    BY <1>4 DEF CallInv, CallSound, ChecksMemory, Answered2
  <2>2. CASE call.kind = "complete" /\ empty
    BY CallSame, <1>0, <1>4, <2>1, <2>2 DEF CallShapes, Over2, Answered2
  <2>3. CASE call.kind = "select"
    <3>1. PICK outcome \in {"tools", "nothing"} : Over2(outcome)
      BY <1>4, <2>3 DEF Answered2
    <3> QED
      BY CallSame, <1>0, <2>1, <3>1 DEF CallShapes, Over2
  <2>4. CASE ~(call.kind = "complete" /\ empty) /\ call.kind # "select"
    <3>1. PICK p \in Nat : call' = [call EXCEPT !.at = "over", !.outcome = "text", !.passed = p]
      <4> DEFINE p == IF call.kind = "runner" /\ ~empty THEN 1 ELSE 0
      <4>1. p \in Nat /\ call' = [call EXCEPT !.at = "over", !.outcome = "text", !.passed = p]
        BY <1>4, <2>4 DEF Answered2
      <4> HIDE DEF p
      <4> QED
        BY <4>1
    <3>2. ~(call.exhausted /\ call.kind # "runner") /\ call.arrived = <<>>
      BY <2>1
    <3>3. call' \in CallShapes
      BY <1>0, <3>1 DEF CallShapes
    <3>4. /\ call'.arrived = call.arrived /\ call'.collected = call.collected /\ call'.kind = call.kind
          /\ call'.at = "over" /\ call'.exhausted = call.exhausted
      BY <1>0, <3>1 DEF CallShapes
    <3> QED
      BY CallSame, <3>2, <3>3, <3>4
  <2> QED
    BY <2>2, <2>3, <2>4
<1>5. CASE StreamOpens
  <2>1. /\ call.at = "asking" /\ call.outcome = "none" /\ call.passed = 0 /\ call.arrived = <<>>
        /\ ~(call.exhausted /\ call.kind # "runner")
    BY <1>5 DEF CallInv, CallSound, ChecksMemory, StreamOpens
  <2> QED
    BY CallSame, <1>0, <1>5, <2>1 DEF CallShapes, StreamOpens
<1>6. CASE TextChunk
  <2>1. call.at = "streaming" /\ call.outcome = "none" /\ ~(call.exhausted /\ call.kind # "runner")
    BY <1>6 DEF CallInv, CallSound, ChecksMemory, TextChunk
  <2> QED
    BY CallSame, <1>0, <1>6, <2>1 DEF CallShapes, TextChunk
<1>7. ASSUME NEW i \in Indices, NEW name \in {"none", "read", "write"}, ToolChunk(i, name) PROVE CallInv'
  BY <1>7, ToolChunkKeeps
<1>8. ASSUME NEW reason \in {"stop", "length", "tool_calls"}, StreamEnds(reason) PROVE CallInv'
  <2>1. call.at = "streaming" /\ call.outcome = "none" /\ ~(call.exhausted /\ call.kind # "runner")
    BY <1>8 DEF CallInv, CallSound, ChecksMemory, StreamEnds
  <2>2. PICK outcome \in {"tools", "cut", "text"} : Over2(outcome) /\ (outcome = "text" => call.arrived = <<>>)
    BY <1>8 DEF StreamEnds
  <2> QED
    BY CallSame, <1>0, <2>1, <2>2 DEF CallShapes, Over2
<1>9. CASE UNCHANGED callVars
  BY CallSame, <1>0, <1>9 DEF callVars, CallInv, CallSound, ChecksMemory
<1> QED
  <2>1. Breaks("timeout") \/ Breaks("error") \/ Abandoned => CallInv'
    BY <1>3 DEF Breaks, Abandoned
  <2> QED
    BY <2>1, <1>1, <1>2, <1>4, <1>5, <1>6, <1>7, <1>8, <1>9 DEF CallNext

-----------------------------------------------------------------------------
(* ModelCalls: together. *)

LEMMA CallsGiveTypes == CallInv /\ HealthInv /\ LimiterInv => ModelCallsTypeOK
<1> SUFFICES ASSUME CallInv, HealthInv, LimiterInv PROVE ModelCallsTypeOK
  OBVIOUS
<1>1. call.tries \in 1 .. MaxTries
  BY DEF CallInv, CallShapes
<1>2. aged \subseteq AllModels
  BY DEF HealthInv
<1>3. ASSUME NEW c \in Clients PROVE bucket[c] = NoBucket \/ bucket[c].tokens \in 0 .. Burst
  BY DEF LimiterInv, Paid
<1>4. lastCleanup <= now
  BY DEF LimiterInv
<1> QED
  BY <1>1, <1>2, <1>3, <1>4 DEF ModelCallsTypeOK

\* A call is repeated only while nothing of it was passed on and interleaved tool
\* calls come out as they were sent, a route has every model once and none behind
\* a worse one, and no client gets more than a burst and the tokens of the time
\* (llm_client.py, model_health_tracker.py, model_routing/router.py, rate_limiter.py).
THEOREM ModelCallsSoundHolds == CallSpec /\ HealthSpec /\ LimiterSpec => []ModelCallsSound
<1>1. CallSpec => []CallInv
  BY CallInitially, CallNextKeeps, PTL DEF CallSpec
<1>2. HealthSpec => []HealthInv
  BY HealthInitially, HealthNextKeeps, PTL DEF HealthSpec
<1>3. LimiterSpec => []LimiterInv
  BY LimiterInitially, LimiterNextKeeps, PTL DEF LimiterSpec
<1>4. CallInv => CallSound
  BY DEF CallInv
<1>5. CallInv /\ HealthInv /\ LimiterInv => ModelCallsSound
  BY <1>4, CallsGiveTypes, HealthGivesSound, LimiterGivesKept DEF ModelCallsSound
<1> QED
  BY <1>1, <1>2, <1>3, <1>5, PTL

-----------------------------------------------------------------------------
(* Knowledge: the store and its index. *)

\* A table and its index: rows are not shared, what the index has is of a row no
\* larger than one that is there, and with its triggers it has exactly the terms
\* of the rows that are there.
Indexed(tab, posts, on) ==
    /\ \A k \in DOMAIN tab : tab[k].row \in Nat /\ tab[k].term \in Terms /\ tab[k].aside \in Terms
    /\ \A k, l \in DOMAIN tab : tab[k].row = tab[l].row => k = l
    /\ \A p \in posts : p[1] \in Nat /\ \E k \in DOMAIN tab : p[1] <= tab[k].row
    /\ on => \A k \in DOMAIN tab, w \in Terms : <<tab[k].row, w>> \in posts <=> w \in Mentioned(tab[k])
RowsTo(tab, n) == \A k \in DOMAIN tab : tab[k].row <= n

IndexInv ==
    /\ tables = [t \in Tables |-> tables[t]] /\ postings = [t \in Tables |-> postings[t]]
    /\ writes \in Nat /\ triggers \in BOOLEAN /\ (store = "fts" => triggers)
    /\ \A t \in Tables : Indexed(tables[t], postings[t], triggers) /\ RowsTo(tables[t], writes)

LEMMA LargestRow ==
    ASSUME NEW tab, NEW n \in Nat, RowsTo(tab, n), \A k \in DOMAIN tab : tab[k].row \in Nat,
           NEW top, top = Max({0} \union {e.row : e \in {tab[k] : k \in DOMAIN tab}})
    PROVE  top \in Nat /\ top <= n /\ \A k \in DOMAIN tab : tab[k].row <= top
<1> DEFINE rows == {0} \union {e.row : e \in {tab[k] : k \in DOMAIN tab}}
<1>1. \A k \in DOMAIN tab : tab[k].row \in rows
  OBVIOUS
<1>2. rows \subseteq 0 .. n /\ rows # {}
  BY DEF RowsTo
<1>3. top = Max(rows)
  OBVIOUS
<1> HIDE DEF rows
<1>4. \E x \in rows : \A y \in rows : y <= x
  BY <1>2, LargestNumber
<1>5. \E x \in rows : \A y \in rows : x >= y
  BY <1>2, <1>4
<1>6. top \in rows /\ \A y \in rows : top >= y
  BY <1>3, <1>5 DEF Max
<1> QED
  BY <1>1, <1>2, <1>6

\* A write leaves the index in order.
NextAfter(tab) == 1 + Max({0} \union {x.row : x \in {tab[l] : l \in DOMAIN tab}})
Written(tab, posts, on, k, e, row, tab2, posts2) ==
    /\ row = NextAfter(tab) /\ e.row = row /\ e.term \in Terms /\ e.aside \in Terms
    /\ tab2 = [l \in DOMAIN tab \union {k} |-> IF l = k THEN e ELSE tab[l]]
    /\ posts2 = IF on THEN posts \union ({row} \X Mentioned(e)) ELSE posts
LEMMA WriteIndexed ==
    ASSUME NEW tab, NEW posts, NEW on \in BOOLEAN, NEW n \in Nat, Indexed(tab, posts, on), RowsTo(tab, n),
           NEW k, NEW e, NEW row, NEW tab2, NEW posts2, Written(tab, posts, on, k, e, row, tab2, posts2)
    PROVE  Indexed(tab2, posts2, on) /\ RowsTo(tab2, n + 1)
<1>0. /\ row = 1 + Max({0} \union {x.row : x \in {tab[l] : l \in DOMAIN tab}})
      /\ e.row = row /\ e.term \in Terms /\ e.aside \in Terms
      /\ tab2 = [l \in DOMAIN tab \union {k} |-> IF l = k THEN e ELSE tab[l]]
      /\ posts2 = IF on THEN posts \union ({row} \X Mentioned(e)) ELSE posts
  BY DEF Written, NextAfter
<1> DEFINE top == Max({0} \union {x.row : x \in {tab[l] : l \in DOMAIN tab}})
<1>1. \A l \in DOMAIN tab : tab[l].row \in Nat /\ tab[l].term \in Terms /\ tab[l].aside \in Terms
  BY DEF Indexed
<1>2. top \in Nat /\ top <= n /\ \A l \in DOMAIN tab : tab[l].row <= top
  BY <1>1, LargestRow
<1>3. row = 1 + top
  BY <1>0
<1> HIDE DEF top
<1>4. row \in Nat /\ row <= n + 1 /\ \A l \in DOMAIN tab : tab[l].row < row
  <2>1. row \in Nat /\ row <= n + 1
    BY <1>2, <1>3
  <2>2. ASSUME NEW l \in DOMAIN tab PROVE tab[l].row < row
    <3>1. tab[l].row \in Nat /\ tab[l].row <= top
      BY <1>1, <1>2
    <3> QED
      BY <1>2, <1>3, <3>1
  <2> QED
    BY <2>1, <2>2
<1>5. DOMAIN tab2 = DOMAIN tab \union {k} /\ tab2[k] = e /\ \A l \in DOMAIN tab : l # k => tab2[l] = tab[l]
  BY <1>0
<1>6. \A l \in DOMAIN tab2 : tab2[l].row \in Nat /\ tab2[l].term \in Terms /\ tab2[l].aside \in Terms
                             /\ tab2[l].row <= row
  BY <1>0, <1>1, <1>4, <1>5
<1>7. ASSUME NEW l \in DOMAIN tab2, NEW m \in DOMAIN tab2, tab2[l].row = tab2[m].row PROVE l = m
  <2>1. \A x, y \in DOMAIN tab : tab[x].row = tab[y].row => x = y
    BY DEF Indexed
  <2> QED
    BY <1>0, <1>1, <1>4, <1>5, <1>7, <2>1
<1>8. \A p \in posts : p[1] \in Nat /\ p[1] < row
  <2>1. \A p \in posts : p[1] \in Nat /\ \E l \in DOMAIN tab : p[1] <= tab[l].row
    BY DEF Indexed
  <2> QED
    BY <1>1, <1>4, <2>1
<1>9. ASSUME NEW p \in posts2 PROVE p[1] \in Nat /\ p[1] <= row
  <2>1. CASE p \in posts
    BY <1>4, <1>8, <2>1
  <2>2. CASE p \notin posts
    BY <1>0, <1>4, <1>9, <2>2
  <2> QED
    BY <2>1, <2>2
<1>10. ASSUME on, NEW l \in DOMAIN tab2, NEW w \in Terms
       PROVE  <<tab2[l].row, w>> \in posts2 <=> w \in Mentioned(tab2[l])
  <2>1. \A r : <<r, w>> \in posts2 <=> (<<r, w>> \in posts \/ (r = row /\ w \in Mentioned(e)))
    BY <1>0, <1>10
  <2>2. <<row, w>> \notin posts
    <3>1. <<row, w>> \in posts => <<row, w>>[1] < row
      BY <1>8
    <3> QED
      BY <1>4, <3>1
  <2>3. CASE l = k
    BY <1>0, <1>5, <2>1, <2>2, <2>3
  <2>4. CASE l # k
    <3>1. l \in DOMAIN tab /\ tab2[l] = tab[l] /\ tab[l].row # row
      BY <1>1, <1>4, <1>5, <2>4
    <3>2. <<tab[l].row, w>> \in posts <=> w \in Mentioned(tab[l])
      BY <1>10, <3>1 DEF Indexed
    <3> QED
      BY <2>1, <3>1, <3>2
  <2> QED
    BY <2>3, <2>4
<1>11. RowsTo(tab2, n + 1)
  <2>1. ASSUME NEW l \in DOMAIN tab2 PROVE tab2[l].row <= n + 1
    <3>1. tab2[l].row \in Nat /\ tab2[l].row <= row
      BY <1>6
    <3> QED
      BY <1>4, <3>1
  <2> QED
    BY <2>1 DEF RowsTo
<1>12. \A p \in posts2 : p[1] \in Nat /\ \E l \in DOMAIN tab2 : p[1] <= tab2[l].row
  <2>1. k \in DOMAIN tab2 /\ tab2[k].row = row
    BY <1>0, <1>5
  <2> QED
    BY <1>9, <2>1
<1> QED
  BY <1>6, <1>7, <1>10, <1>11, <1>12 DEF Indexed

\* So does making the index anew.
LEMMA RebuiltIndexed ==
    ASSUME NEW tab, NEW posts, NEW on, Indexed(tab, posts, on),
           NEW anew, anew = UNION {{e.row} \X Mentioned(e) : e \in {tab[k] : k \in DOMAIN tab}}
    PROVE  Indexed(tab, anew, TRUE)
<1>1. \A k \in DOMAIN tab : tab[k].row \in Nat /\ tab[k].term \in Terms /\ tab[k].aside \in Terms
  BY DEF Indexed
<1>2. \A k, l \in DOMAIN tab : tab[k].row = tab[l].row => k = l
  BY DEF Indexed
<1>3. \A p : p \in anew <=> \E k \in DOMAIN tab : p \in {tab[k].row} \X Mentioned(tab[k])
  OBVIOUS
<1>4. ASSUME NEW p \in anew PROVE p[1] \in Nat /\ \E k \in DOMAIN tab : p[1] <= tab[k].row
  <2>1. PICK k \in DOMAIN tab : p \in {tab[k].row} \X Mentioned(tab[k])
    BY <1>3
  <2>2. p[1] = tab[k].row /\ tab[k].row \in Nat
    BY <1>1, <2>1
  <2> QED
    BY <2>2
<1>5. ASSUME NEW k \in DOMAIN tab, NEW w \in Terms PROVE <<tab[k].row, w>> \in anew <=> w \in Mentioned(tab[k])
  <2>1. ASSUME NEW l \in DOMAIN tab, <<tab[k].row, w>> \in {tab[l].row} \X Mentioned(tab[l])
        PROVE  w \in Mentioned(tab[k])
    <3>1. tab[k].row = tab[l].row /\ w \in Mentioned(tab[l])
      BY <2>1
    <3> QED
      BY <1>2, <3>1
  <2>2. w \in Mentioned(tab[k]) => <<tab[k].row, w>> \in {tab[k].row} \X Mentioned(tab[k])
    OBVIOUS
  <2> QED
    BY <1>3, <2>1, <2>2
<1> QED
  BY <1>1, <1>2, <1>4, <1>5 DEF Indexed

LEMMA InsertKeeps ==
    ASSUME IndexInv, NEW t \in Tables, NEW k, NEW term \in Terms, NEW aside \in Terms, NEW from, NEW trust,
           InsertOrReplace(t, k, Remember(term, aside, from, trust)), triggers' = triggers, store' = store
    PROVE  IndexInv'
<1> DEFINE e == [row |-> NextRow(t, k), term |-> term, aside |-> aside, from |-> from, trust |-> trust, at |-> writes]
           tab == [l \in DOMAIN tables[t] \union {k} |-> IF l = k THEN e ELSE tables[t][l]]
           posts == IF triggers THEN postings[t] \union ({NextRow(t, k)} \X Mentioned(e)) ELSE postings[t]
<1>1. e = [Remember(term, aside, from, trust) EXCEPT !.row = NextRow(t, k)]
  BY DEF Remember
<1>2. Mentioned(Remember(term, aside, from, trust)) = Mentioned(e)
  BY DEF Remember, Mentioned
<1>3. /\ tables' = [tables EXCEPT ![t] = tab] /\ postings' = [postings EXCEPT ![t] = posts] /\ writes' = writes + 1
  BY <1>1, <1>2 DEF InsertOrReplace
<1>4. NextRow(t, k) = 1 + Max({0} \union {x.row : x \in {tables[t][l] : l \in DOMAIN tables[t]}})
  BY DEF NextRow, EntriesOf
<1>5. Indexed(tables[t], postings[t], triggers) /\ RowsTo(tables[t], writes) /\ writes \in Nat /\ triggers \in BOOLEAN
  BY DEF IndexInv
<1>6. e.row = NextRow(t, k) /\ e.term \in Terms /\ e.aside \in Terms
  OBVIOUS
<1> DEFINE row == NextRow(t, k)
<1>7. tab = [l \in DOMAIN tables[t] \union {k} |-> IF l = k THEN e ELSE tables[t][l]]
      /\ posts = IF triggers THEN postings[t] \union ({row} \X Mentioned(e)) ELSE postings[t]
  OBVIOUS
<1> HIDE DEF e, tab, posts, row
<1>8. Indexed(tab, posts, triggers) /\ RowsTo(tab, writes + 1)
  <2>1. row = NextAfter(tables[t]) /\ e.row = row
    BY <1>4, <1>6 DEF row, NextAfter
  <2>2. Written(tables[t], postings[t], triggers, k, e, row, tab, posts)
    BY <1>6, <1>7, <2>1 DEF Written
  <2> QED
    BY <1>5, <2>2, WriteIndexed
<1>9. tables = [u \in Tables |-> tables[u]] /\ postings = [u \in Tables |-> postings[u]]
  BY DEF IndexInv
<1>10. /\ tables' = [u \in Tables |-> tables'[u]] /\ postings' = [u \in Tables |-> postings'[u]]
       /\ tables'[t] = tab /\ postings'[t] = posts
       /\ \A u \in Tables : u # t => (tables'[u] = tables[u] /\ postings'[u] = postings[u])
  BY <1>3, <1>9
<1>11. ASSUME NEW u \in Tables PROVE Indexed(tables'[u], postings'[u], triggers) /\ RowsTo(tables'[u], writes + 1)
  <2>1. CASE u = t
    BY <1>8, <1>10, <2>1
  <2>2. CASE u # t
    <3>1. Indexed(tables[u], postings[u], triggers) /\ RowsTo(tables[u], writes)
      BY DEF IndexInv
    <3>2. \A l \in DOMAIN tables[u] : tables[u][l].row \in Nat /\ tables[u][l].row <= writes
      BY <3>1 DEF Indexed, RowsTo
    <3>3. RowsTo(tables[u], writes + 1)
      BY <1>5, <3>2 DEF RowsTo
    <3> QED
      BY <1>10, <2>2, <3>1, <3>3
  <2> QED
    BY <2>1, <2>2
<1>12. writes + 1 \in Nat
  BY <1>5
<1> QED
  BY <1>3, <1>5, <1>10, <1>11, <1>12 DEF IndexInv

LEMMA SchemaKeeps ==
    ASSUME IndexInv, NEW index \in BOOLEAN, NEW works \in BOOLEAN, EnsureSchema(index, works),
           tables' = tables, writes' = writes
    PROVE  IndexInv'
<1>1. CASE index /\ works
  <2>1. triggers' = TRUE /\ postings' = [t \in Tables |-> Rebuilt(t)]
    BY <1>1 DEF EnsureSchema
  <2>2. ASSUME NEW t \in Tables PROVE Indexed(tables[t], Rebuilt(t), TRUE)
    <3>1. Rebuilt(t) = UNION {{e.row} \X Mentioned(e) : e \in {tables[t][k] : k \in DOMAIN tables[t]}}
      BY DEF Rebuilt, EntriesOf
    <3>2. Indexed(tables[t], postings[t], triggers)
      BY DEF IndexInv
    <3> QED
      BY <3>1, <3>2, RebuiltIndexed
  <2>3. \A t \in Tables : postings'[t] = Rebuilt(t)
    BY <2>1
  <2>4. postings' = [t \in Tables |-> postings'[t]]
    BY <2>1
  <2>5. /\ tables = [t \in Tables |-> tables[t]] /\ writes \in Nat /\ \A t \in Tables : RowsTo(tables[t], writes)
    BY DEF IndexInv
  <2> QED
    BY <2>1, <2>2, <2>3, <2>4, <2>5 DEF IndexInv
<1>2. CASE ~(index /\ works)
  BY <1>2 DEF EnsureSchema, IndexInv
<1> QED
  BY <1>1, <1>2

LEMMA IndexSame ==
    ASSUME IndexInv, tables' = tables, postings' = postings, writes' = writes, triggers' = triggers,
           store' \in {store, "none"}
    PROVE  IndexInv'
BY DEF IndexInv

LEMMA OpenKeeps ==
    ASSUME IndexInv, NEW opens \in BOOLEAN, NEW works \in BOOLEAN, Open(opens, works), tables' = tables, writes' = writes
    PROVE  IndexInv'
<1>1. CASE wanted # "off" /\ opens
  <2>1. EnsureSchema(wanted = "fts", works) /\ (wanted = "fts") \in BOOLEAN
    BY <1>1 DEF Open
  <2> QED
    BY <2>1, SchemaKeeps
<1>2. CASE ~(wanted # "off" /\ opens)
  BY <1>2, IndexSame DEF Open
<1> QED
  BY <1>1, <1>2

LEMMA IndexInitially == KnowledgeInit => IndexInv
<1> SUFFICES ASSUME KnowledgeInit PROVE IndexInv
  OBVIOUS
<1>1. DOMAIN <<>> = {}
  OBVIOUS
<1>2. \A t \in Tables : tables[t] = <<>> /\ postings[t] = {}
  BY DEF KnowledgeInit
<1>3. Indexed(<<>>, {}, FALSE) /\ RowsTo(<<>>, 0)
  BY <1>1 DEF Indexed, RowsTo
<1> QED
  BY <1>2, <1>3 DEF KnowledgeInit, IndexInv

LEMMA IndexNextKeeps == IndexInv /\ [KnowledgeNext]_knowledgeVars => IndexInv'
<1> SUFFICES ASSUME IndexInv, [KnowledgeNext]_knowledgeVars PROVE IndexInv'
  OBVIOUS
<1>0. "failures" \in Tables /\ "episodes" \in Tables /\ "facts" \in Tables
  BY DEF Tables
<1>1. ASSUME NEW v, ChangeSettings(v) PROVE IndexInv'
  BY <1>1, IndexSame DEF ChangeSettings
<1>2. ASSUME NEW opens \in BOOLEAN, NEW works \in BOOLEAN, Reopened(opens, works) PROVE IndexInv'
  BY <1>2, OpenKeeps DEF Reopened
<1>3. ASSUME NEW r \in Asks, NEW opens \in BOOLEAN, NEW works \in BOOLEAN, StartAsk(r, opens, works) PROVE IndexInv'
  BY <1>3, OpenKeeps, IndexSame DEF StartAsk, Refresh
<1>4. ASSUME NEW r \in Asks, NEW term \in Terms, NEW aside \in Terms, AskFails(r, term, aside) PROVE IndexInv'
  <2>1. CASE AddFailure(r, term, aside)
    BY <1>0, <1>4, <2>1, InsertKeeps DEF AskFails, AddFailure
  <2>2. CASE UNCHANGED <<tables, postings, writes>>
    BY <1>4, <2>2, IndexSame DEF AskFails
  <2> QED
    BY <1>4, <2>1, <2>2 DEF AskFails
<1>5. ASSUME NEW r \in Asks, NEW telling \in BOOLEAN, AskEnds(r, telling) PROVE IndexInv'
  BY <1>5, IndexSame DEF AskEnds
<1>6. ASSUME NEW r \in Asks, NEW term \in Terms, Distilled(r, term) PROVE IndexInv'
  BY <1>0, <1>6, InsertKeeps DEF Distilled, AddEpisodic
<1>7. ASSUME NEW r \in Asks, NEW term \in Terms, NEW k \in FactKeys, FactDistilled(r, term, k) PROVE IndexInv'
  <2>1. PICK trust : AddSemantic(k, term, r, trust)
    BY <1>7 DEF FactDistilled
  <2> QED
    BY <1>0, <1>7, <2>1, InsertKeeps DEF FactDistilled, AddSemantic
<1>8. ASSUME NEW r \in Asks, DistillOver(r) PROVE IndexInv'
  BY <1>8, IndexSame DEF DistillOver
<1>9. CASE UNCHANGED knowledgeVars
  BY <1>9, IndexSame DEF knowledgeVars
<1> QED
  BY <1>1, <1>2, <1>3, <1>4, <1>5, <1>6, <1>7, <1>8, <1>9 DEF KnowledgeNext

\* What a search by the index finds.
LEMMA IndexFinds ==
    ASSUME IndexInv, store = "fts", NEW t \in Tables, NEW words
    PROVE  /\ FtsHits(t, words) \subseteq DOMAIN tables[t]
           /\ \A k \in FtsHits(t, words) : words \subseteq Terms \union ShortWords =>
                Mentioned(tables[t][k]) \cap QueryTerms(words) # {}
           /\ \A w \in Terms : FtsHits(t, {w}) = {k \in DOMAIN tables[t] : w \in Mentioned(tables[t][k])}
<1>1. \A k \in DOMAIN tables[t], w \in Terms : <<tables[t][k].row, w>> \in postings[t] <=> w \in Mentioned(tables[t][k])
  BY DEF IndexInv, Indexed
<1>2. ASSUME NEW k \in FtsHits(t, words), words \subseteq Terms \union ShortWords
      PROVE  Mentioned(tables[t][k]) \cap QueryTerms(words) # {}
  <2>1. PICK w \in QueryTerms(words) : <<tables[t][k].row, w>> \in postings[t]
    BY DEF FtsHits
  <2>2. w \in Terms /\ k \in DOMAIN tables[t]
    BY <1>2 DEF QueryTerms, FtsHits
  <2> QED
    BY <1>1, <2>1, <2>2
<1>3. ASSUME NEW w \in Terms PROVE FtsHits(t, {w}) = {k \in DOMAIN tables[t] : w \in Mentioned(tables[t][k])}
  <2>1. QueryTerms({w}) = {w}
    BY KnowledgeAssumption DEF QueryTerms
  <2> QED
    BY <1>1, <2>1 DEF FtsHits
<1> QED
  BY <1>2, <1>3 DEF FtsHits

LEMMA IndexGivesFinds == IndexInv => FindsLive
BY IndexFinds DEF FindsLive

LEMMA IndexGivesMatch == IndexInv => ContextsMatch
<1> SUFFICES ASSUME IndexInv, store = "fts", NEW words \in SUBSET (Terms \union ShortWords),
                    NEW c \in LongTermContexts(words, FALSE), QueryTerms(words) # {}, NEW e \in c
             PROVE  Mentioned(e) \cap QueryTerms(words) # {}
  BY DEF ContextsMatch
<1>0. "failures" \in Tables /\ "facts" \in Tables
  BY DEF Tables
<1>1. PICK f \in SearchFailures(words, FALSE, 2), s \in SearchSemantic(words, FALSE, 10) :
        c = Told(f, s)
  <2>1. LongTermContexts(words, FALSE) = UNION {{Told(f, s) : s \in SearchSemantic(words, FALSE, 10)} :
                                                  f \in SearchFailures(words, FALSE, 2)}
    BY DEF LongTermContexts
  <2> QED
    BY <2>1
<1>2. ByIndex(words, FALSE)
  BY DEF ByIndex
<1>3. f \in SUBSET FtsHits("failures", words) /\ s \in SUBSET FtsHits("facts", words)
  BY <1>1, <1>2 DEF SearchFailures, SearchSemantic, BestOf
<1>4. \A k \in f : Mentioned(tables["failures"][k]) \cap QueryTerms(words) # {}
  BY <1>0, <1>3, IndexFinds
<1>5. \A k \in s : Mentioned(tables["facts"][k]) \cap QueryTerms(words) # {}
  BY <1>0, <1>3, IndexFinds
<1> QED
  BY <1>1, <1>4, <1>5 DEF Told

-----------------------------------------------------------------------------
(* Knowledge: the journal. *)

JournalInv ==
    /\ tables = [t \in Tables |-> tables[t]]
    /\ ask \in [Asks -> {"new", "running", "failed", "distilling", "facts", "over"}]
    /\ \A r \in DOMAIN tables["failures"] : r \in Asks /\ ask[r] \in {"failed", "over"}
    /\ \A t \in {"episodes", "facts"} : \A k \in DOMAIN tables[t] :
         /\ tables[t][k].from \in Asks /\ ask[tables[t][k].from] \in {"facts", "over"}
         /\ tables[t][k].from \notin DOMAIN tables["failures"]

\* Where nothing is written, a request goes on as it may.
LEMMA JournalSame ==
    ASSUME JournalInv, tables' = tables, ask' \in [Asks -> {"new", "running", "failed", "distilling", "facts", "over"}],
           \A r \in Asks : ask[r] \in {"failed", "over"} => ask'[r] \in {"failed", "over"},
           \A r \in Asks : ask[r] \in {"facts", "over"} => ask'[r] \in {"facts", "over"}
    PROVE  JournalInv'
BY DEF JournalInv

\* Table t keeps e under k.
Kept(t, k, e) == tables' = [tables EXCEPT ![t] = [l \in DOMAIN @ \union {k} |-> IF l = k THEN e ELSE @[l]]]

\* A request that is done is noted as what it became.
LEMMA JournalNoted ==
    ASSUME JournalInv, NEW t \in {"episodes", "facts"}, NEW k, NEW e, e.from \in Asks, Kept(t, k, e),
           ask[e.from] \in {"distilling", "facts"}, ask' = [ask EXCEPT ![e.from] = "facts"]
    PROVE  JournalInv'
<1> DEFINE tab == [l \in DOMAIN tables[t] \union {k} |-> IF l = k THEN e ELSE tables[t][l]]
<1>1. "failures" \in Tables /\ t \in Tables /\ t # "failures" /\ Tables = {"failures", "episodes", "facts"}
  BY DEF Tables
<1>2. tables' = [tables EXCEPT ![t] = tab]
  BY DEF Kept
<1>3. DOMAIN tab = DOMAIN tables[t] \union {k} /\ tab[k] = e /\ \A l \in DOMAIN tables[t] : l # k => tab[l] = tables[t][l]
  OBVIOUS
<1> HIDE DEF tab
<1>4. /\ tables' = [u \in Tables |-> tables'[u]] /\ tables'["failures"] = tables["failures"] /\ tables'[t] = tab
      /\ \A u \in Tables : u # t => tables'[u] = tables[u]
  BY <1>1, <1>2 DEF JournalInv
<1>5. /\ ask' \in [Asks -> {"new", "running", "failed", "distilling", "facts", "over"}] /\ ask'[e.from] = "facts"
      /\ \A r \in Asks : r # e.from => ask'[r] = ask[r]
  BY DEF JournalInv
<1>6. ASSUME NEW r \in DOMAIN tables["failures"] PROVE r \in Asks /\ ask'[r] \in {"failed", "over"} /\ r # e.from
  <2>1. r \in Asks /\ ask[r] \in {"failed", "over"}
    BY DEF JournalInv
  <2>2. r # e.from
    BY <2>1
  <2> QED
    BY <1>5, <2>1, <2>2
<1>7. ASSUME NEW u \in {"episodes", "facts"}, NEW l \in DOMAIN tables'[u]
      PROVE  /\ tables'[u][l].from \in Asks /\ ask'[tables'[u][l].from] \in {"facts", "over"}
             /\ tables'[u][l].from \notin DOMAIN tables["failures"]
  <2>1. CASE u = t /\ l = k
    <3>1. tables'[u][l] = e
      BY <1>3, <1>4, <2>1
    <3> QED
      BY <1>5, <1>6, <3>1
  <2>2. CASE ~(u = t /\ l = k)
    <3>1. l \in DOMAIN tables[u] /\ tables'[u][l] = tables[u][l]
      <4>1. u \in Tables
        BY <1>1
      <4>2. CASE u = t
        BY <1>3, <1>4, <1>7, <2>2, <4>2
      <4>3. CASE u # t
        BY <1>4, <1>7, <4>1, <4>3
      <4> QED
        BY <4>2, <4>3
    <3> DEFINE r == tables[u][l].from
    <3>2. r \in Asks /\ ask[r] \in {"facts", "over"} /\ r \notin DOMAIN tables["failures"]
      BY <3>1 DEF JournalInv
    <3>3. ask'[r] \in {"facts", "over"}
      <4> HIDE DEF r
      <4> QED
        BY <1>5, <3>2
    <3> QED
      BY <3>1, <3>2, <3>3
  <2> QED
    BY <2>1, <2>2
<1> QED
  BY <1>4, <1>5, <1>6, <1>7 DEF JournalInv

LEMMA JournalFailed ==
    ASSUME JournalInv, NEW r \in Asks, NEW e, ask[r] = "running", ask' = [ask EXCEPT ![r] = "failed"],
           tables' = [tables EXCEPT !["failures"] = [l \in DOMAIN @ \union {r} |-> IF l = r THEN e ELSE @[l]]]
    PROVE  JournalInv'
<1> DEFINE tab == [l \in DOMAIN tables["failures"] \union {r} |-> IF l = r THEN e ELSE tables["failures"][l]]
<1>1. "failures" \in Tables /\ Tables = {"failures", "episodes", "facts"}
  BY DEF Tables
<1>2. tables' = [tables EXCEPT !["failures"] = tab] /\ DOMAIN tab = DOMAIN tables["failures"] \union {r}
  OBVIOUS
<1> HIDE DEF tab
<1>3. /\ tables' = [u \in Tables |-> tables'[u]] /\ tables'["failures"] = tab
      /\ tables'["episodes"] = tables["episodes"] /\ tables'["facts"] = tables["facts"]
  BY <1>1, <1>2 DEF JournalInv
<1>4. /\ ask' \in [Asks -> {"new", "running", "failed", "distilling", "facts", "over"}] /\ ask'[r] = "failed"
      /\ \A x \in Asks : x # r => ask'[x] = ask[x]
  BY DEF JournalInv
<1>5. ASSUME NEW x \in DOMAIN tab PROVE x \in Asks /\ ask'[x] \in {"failed", "over"}
  BY <1>2, <1>4 DEF JournalInv
<1>6. ASSUME NEW t \in {"episodes", "facts"}, NEW k \in DOMAIN tables[t]
      PROVE  /\ tables[t][k].from \in Asks /\ ask'[tables[t][k].from] \in {"facts", "over"}
             /\ tables[t][k].from \notin DOMAIN tab
  <2> DEFINE x == tables[t][k].from
  <2>1. x \in Asks /\ ask[x] \in {"facts", "over"} /\ x \notin DOMAIN tables["failures"]
    BY DEF JournalInv
  <2> HIDE DEF x
  <2>2. x # r
    BY <2>1
  <2>3. ask'[x] \in {"facts", "over"} /\ x \notin DOMAIN tab
    BY <1>2, <1>4, <2>1, <2>2
  <2> QED
    BY <2>1, <2>3 DEF x
<1> QED
  BY <1>3, <1>4, <1>5, <1>6 DEF JournalInv

LEMMA JournalInitially == KnowledgeInit => JournalInv
<1> SUFFICES ASSUME KnowledgeInit PROVE JournalInv
  OBVIOUS
<1>1. DOMAIN <<>> = {}
  OBVIOUS
<1>2. tables["failures"] = <<>> /\ tables["episodes"] = <<>> /\ tables["facts"] = <<>>
  BY DEF KnowledgeInit, Tables
<1> QED
  BY <1>1, <1>2 DEF KnowledgeInit, JournalInv

LEMMA JournalNextKeeps == JournalInv /\ [KnowledgeNext]_knowledgeVars => JournalInv'
<1> SUFFICES ASSUME JournalInv, [KnowledgeNext]_knowledgeVars PROVE JournalInv'
  OBVIOUS
<1>0. ask \in [Asks -> {"new", "running", "failed", "distilling", "facts", "over"}]
  BY DEF JournalInv
<1>1. ASSUME NEW v, ChangeSettings(v) PROVE JournalInv'
  BY <1>0, <1>1, JournalSame DEF ChangeSettings
<1>2. ASSUME NEW opens \in BOOLEAN, NEW works \in BOOLEAN, Reopened(opens, works) PROVE JournalInv'
  BY <1>0, <1>2, JournalSame DEF Reopened
<1>3. ASSUME NEW r \in Asks, NEW opens \in BOOLEAN, NEW works \in BOOLEAN, StartAsk(r, opens, works) PROVE JournalInv'
  BY <1>0, <1>3, JournalSame DEF StartAsk
<1>4. ASSUME NEW r \in Asks, NEW term \in Terms, NEW aside \in Terms, AskFails(r, term, aside) PROVE JournalInv'
  <2>1. CASE AddFailure(r, term, aside)
    <3>1. PICK e : tables' = [tables EXCEPT !["failures"] = [l \in DOMAIN @ \union {r} |-> IF l = r THEN e ELSE @[l]]]
      BY <2>1 DEF AddFailure, InsertOrReplace
    <3> QED
      BY <1>4, <3>1, JournalFailed DEF AskFails
  <2>2. CASE UNCHANGED <<tables, postings, writes>>
    BY <1>0, <1>4, <2>2, JournalSame DEF AskFails
  <2> QED
    BY <1>4, <2>1, <2>2 DEF AskFails
<1>5. ASSUME NEW r \in Asks, NEW telling \in BOOLEAN, AskEnds(r, telling) PROVE JournalInv'
  <2>1. PICK at \in {"distilling", "over"} : ask' = [ask EXCEPT ![r] = at]
    BY <1>5 DEF AskEnds
  <2> QED
    BY <1>0, <1>5, <2>1, JournalSame DEF AskEnds
<1>6. ASSUME NEW r \in Asks, NEW term \in Terms, Distilled(r, term) PROVE JournalInv'
  <2> DEFINE e == [row |-> NextRow("episodes", writes), term |-> term, aside |-> term, from |-> r, trust |-> 100, at |-> writes]
  <2>1. e = [Remember(term, term, r, 100) EXCEPT !.row = NextRow("episodes", writes)] /\ e.from = r
    BY DEF Remember
  <2> HIDE DEF e
  <2>2. Kept("episodes", writes, e)
    BY <1>6, <2>1 DEF Distilled, AddEpisodic, InsertOrReplace, Kept
  <2>3. ask[e.from] \in {"distilling", "facts"} /\ ask' = [ask EXCEPT ![e.from] = "facts"]
    BY <1>6, <2>1 DEF Distilled
  <2> QED
    BY <2>1, <2>2, <2>3, JournalNoted
<1>7. ASSUME NEW r \in Asks, NEW term \in Terms, NEW k \in FactKeys, FactDistilled(r, term, k) PROVE JournalInv'
  <2>0. PICK trust : AddSemantic(k, term, r, trust)
    BY <1>7 DEF FactDistilled
  <2> DEFINE e == [row |-> NextRow("facts", k), term |-> term, aside |-> term, from |-> r, trust |-> trust, at |-> writes]
  <2>1. e = [Remember(term, term, r, trust) EXCEPT !.row = NextRow("facts", k)] /\ e.from = r
    BY DEF Remember
  <2> HIDE DEF e
  <2>2. Kept("facts", k, e)
    BY <2>0, <2>1 DEF AddSemantic, InsertOrReplace, Kept
  <2>3. ask[e.from] \in {"distilling", "facts"} /\ ask' = [ask EXCEPT ![e.from] = "facts"]
    BY <1>7, <2>1 DEF FactDistilled
  <2> QED
    BY <2>1, <2>2, <2>3, JournalNoted
<1>8. ASSUME NEW r \in Asks, DistillOver(r) PROVE JournalInv'
  BY <1>0, <1>8, JournalSame DEF DistillOver
<1>9. CASE UNCHANGED knowledgeVars
  BY <1>0, <1>9, JournalSame DEF knowledgeVars
<1> QED
  BY <1>1, <1>2, <1>3, <1>4, <1>5, <1>6, <1>7, <1>8, <1>9 DEF KnowledgeNext

LEMMA JournalGivesApart == JournalInv => JournalApart
<1> SUFFICES ASSUME JournalInv PROVE JournalApart
  OBVIOUS
<1> DEFINE done == {e.from : e \in EntriesOf("episodes") \union EntriesOf("facts")}
<1>1. ASSUME NEW r \in done PROVE r \notin DOMAIN tables["failures"] /\ ask[r] \in {"facts", "over"}
  <2>1. PICK t \in {"episodes", "facts"} : \E k \in DOMAIN tables[t] : r = tables[t][k].from
    BY DEF EntriesOf
  <2>2. PICK k \in DOMAIN tables[t] : r = tables[t][k].from
    BY <2>1
  <2> QED
    BY <2>1, <2>2 DEF JournalInv
<1> QED
  BY <1>1 DEF JournalApart

-----------------------------------------------------------------------------
(* Knowledge: reflection. *)

LEMMA ClampFits == ASSUME NEW n \in Int PROVE Clamp(n) \in 0 .. 100
BY DEF Clamp

\* A verdict that asks for no retry has the score the task needs.
LEMMA VerdictFits ==
    ASSUME NEW form, NEW aim \in Int, NEW whole \in Int, NEW ground \in Int, NEW task \in TaskTypes,
           NEW v, v = ParseVerdict(form, aim, whole, ground, task)
    PROVE  v.score \in Nat /\ (~v.retry => v.score >= Threshold[task])
<1> DEFINE a == Clamp(aim)
           w == Clamp(whole)
           g == Clamp(ground)
           sum == a + w + g
           least == Threshold[task]
<1>1. a \in 0 .. 100 /\ w \in 0 .. 100 /\ g \in 0 .. 100 /\ least \in Nat
  BY ClampFits, KnowledgeAssumption
<1>2. CASE form \notin Readable
  BY <1>2 DEF ParseVerdict
<1>3. CASE form \in Readable
  <2> DEFINE q == sum \div 3
             again == sum < 3 * least \/ g < HardMin
             hard == g < HardMin
  <2>1. v = [score |-> q, retry |-> again, hard |-> hard]
    BY <1>3 DEF ParseVerdict
  <2>2. v.score = q /\ (v.retry <=> again)
    <3>1. again \in BOOLEAN
      OBVIOUS
    <3> HIDE DEF q, again, hard
    <3>2. v.score = q /\ v.retry = again
      BY <2>1
    <3> QED
      BY <3>1, <3>2
  <2>3. sum \in Nat
    <3> HIDE DEF a, w, g
    <3> QED
      BY <1>1
  <2>4. q \in Nat /\ (~(sum < 3 * least) => q >= least)
    <3> HIDE DEF sum, least
    <3> QED
      BY <1>1, <2>3
  <2>5. ~again => ~(sum < 3 * least)
    OBVIOUS
  <2> HIDE DEF q, again
  <2> QED
    BY <2>2, <2>4, <2>5 DEF least
<1> QED
  BY <1>2, <1>3

LEMMA RetryIsMonotone == RetryMonotone
<1> SUFFICES ASSUME NEW task \in TaskTypes, NEW a \in Scores, NEW w \in Scores, NEW g \in Scores,
                    NEW a2 \in Scores, NEW w2 \in Scores, NEW g2 \in Scores, a <= a2, w <= w2, g <= g2,
                    ParseVerdict("object", a2, w2, g2, task).retry
             PROVE  ParseVerdict("object", a, w, g, task).retry
  BY DEF RetryMonotone
<1> DEFINE least == Threshold[task]
<1>1. \A n \in Scores : Clamp(n) = n /\ n \in Nat
  BY DEF Scores, Clamp
<1>2. ASSUME NEW x \in Scores, NEW y \in Scores, NEW z \in Scores
      PROVE  ParseVerdict("object", x, y, z, task).retry <=> (x + y + z < 3 * least \/ z < HardMin)
  BY <1>1 DEF ParseVerdict, Readable
<1>3. least \in Nat /\ HardMin \in Nat
  BY KnowledgeAssumption
<1>4. a2 + w2 + g2 < 3 * least \/ g2 < HardMin
  BY <1>2
<1>5. a \in Nat /\ w \in Nat /\ g \in Nat /\ a2 \in Nat /\ w2 \in Nat /\ g2 \in Nat
  BY <1>1
<1> HIDE DEF least
<1>6. a + w + g < 3 * least \/ g < HardMin
  BY <1>3, <1>4, <1>5
<1> QED
  BY <1>2, <1>6 DEF least

VerdictShapes == [of : Asks, task : TaskTypes, score : Nat, retry : BOOLEAN]
VerdictInv ==
    /\ verdicts \in Seq(VerdictShapes)
    /\ \A i \in DOMAIN verdicts : ~verdicts[i].retry => verdicts[i].score >= Threshold[verdicts[i].task]

LEMMA VerdictInitially == VerdictInit => VerdictInv
BY DEF VerdictInit, VerdictInv

LEMMA VerdictNextKeeps == VerdictInv /\ [VerdictNext]_verdictVars => VerdictInv'
<1> SUFFICES ASSUME VerdictInv, [VerdictNext]_verdictVars PROVE VerdictInv'
  OBVIOUS
<1>1. ASSUME NEW r \in Asks, NEW task \in TaskTypes, NEW form, NEW ground \in {20, 90},
             Reflect(r, task, form, 60, 60, ground)
      PROVE  VerdictInv'
  <2> DEFINE v == ParseVerdict(form, 60, 60, ground, task)
             x == [of |-> r, task |-> task, score |-> v.score, retry |-> v.retry]
  <2>1. verdicts' = Append(verdicts, x)
    BY <1>1 DEF Reflect
  <2>2. v.score \in Nat /\ (~v.retry => v.score >= Threshold[task])
    <3>1. 60 \in Int /\ ground \in Int
      OBVIOUS
    <3> QED
      BY <3>1, VerdictFits
  <2>3. v.retry \in BOOLEAN
    BY DEF ParseVerdict
  <2> HIDE DEF v
  <2>4. x \in VerdictShapes /\ (~x.retry => x.score >= Threshold[x.task])
    BY <2>2, <2>3 DEF VerdictShapes
  <2> HIDE DEF x
  <2>5. verdicts \in Seq(VerdictShapes) /\ Append(verdicts, x) \in Seq(VerdictShapes)
    BY <2>4 DEF VerdictInv
  <2>6. ASSUME NEW i \in DOMAIN Append(verdicts, x)
        PROVE  Append(verdicts, x)[i] = x \/ (i \in DOMAIN verdicts /\ Append(verdicts, x)[i] = verdicts[i])
    BY <2>5, <2>6
  <2> QED
    BY <2>1, <2>4, <2>5, <2>6 DEF VerdictInv
<1>2. CASE UNCHANGED verdictVars
  BY <1>2 DEF verdictVars, VerdictInv
<1> QED
  BY <1>1, <1>2 DEF VerdictNext

LEMMA VerdictGivesWeak == VerdictInv => WeakWereRetried
<1> SUFFICES ASSUME VerdictInv, NEW task \in WeakTaskTypes(65, 3), Threshold[task] >= 65,
                    \A x \in ToSet(Recent(3)) : x.task = task => ~x.retry
             PROVE  FALSE
  BY DEF WeakWereRetried
<1> DEFINE s == Recent(3)
           places == {i \in DOMAIN s : s[i].task = task}
           own == OnlyAt(s, places)
           scores == ScoresOf(task, 3)
<1>1. task \in {x.task : x \in ToSet(s)} /\ SumOf(scores) \div Len(scores) < 65
  BY DEF WeakTaskTypes, AvgScores
<1>2. /\ s \in Seq(VerdictShapes)
      /\ \A i \in DOMAIN s : ~s[i].retry => s[i].score >= Threshold[s[i].task]
  <2>1. verdicts \in Seq(VerdictShapes) /\ 3 \in Nat
    BY DEF VerdictInv
  <2>2. /\ s \in Seq(VerdictShapes) /\ Len(s) = IF Len(verdicts) > 3 THEN 3 ELSE Len(verdicts)
        /\ Len(verdicts) > 3 => \A i \in 1..3 : s[i] = verdicts[Len(verdicts) - 3 + i]
    BY <2>1, LatestFits DEF Recent
  <2>3. ASSUME NEW i \in DOMAIN s PROVE \E j \in DOMAIN verdicts : s[i] = verdicts[j]
    <3>1. CASE Len(verdicts) > 3
      <4>1. i \in 1 .. 3 /\ Len(verdicts) - 3 + i \in DOMAIN verdicts
        BY <2>1, <2>2, <2>3, <3>1
      <4> QED
        BY <2>2, <3>1, <4>1
    <3>2. CASE ~(Len(verdicts) > 3)
      BY <3>2 DEF Recent, Latest
    <3> QED
      BY <3>1, <3>2
  <2> HIDE DEF s
  <2> QED
    BY <2>2, <2>3 DEF VerdictInv
<1>3. \A i \in DOMAIN s : s[i].task = task => s[i].score \in Nat /\ s[i].score >= 65
  <2>1. ASSUME NEW i \in DOMAIN s, s[i].task = task PROVE s[i].score \in Nat /\ s[i].score >= 65
    <3>1. s[i] \in VerdictShapes
      BY <1>2
    <3>2. ~s[i].retry
      BY <2>1 DEF ToSet
    <3>3. s[i].score \in Nat /\ Threshold[task] \in Nat /\ s[i].score >= Threshold[task]
      BY <1>2, <2>1, <3>1, <3>2, KnowledgeAssumption DEF VerdictShapes
    <3> QED
      BY <3>3
  <2> QED
    BY <2>1
<1> HIDE DEF s
<1>4. places \in SUBSET DOMAIN s /\ places # {}
  BY <1>1 DEF ToSet
<1>5. own \in Seq(VerdictShapes) /\ ToSet(own) = {s[i] : i \in places}
  <2> HIDE DEF places
  <2> QED
    BY <1>2, <1>4, OnlyAtFits, OnlyAtHas
<1>6. scores = [i \in DOMAIN own |-> own[i].score]
  BY DEF ScoresOf, s
<1> HIDE DEF own
<1>7. ASSUME NEW i \in DOMAIN own PROVE own[i].score \in Nat /\ own[i].score >= 65
  <2>1. own[i] \in ToSet(own)
    BY DEF ToSet
  <2>2. PICK j \in places : own[i] = s[j]
    BY <1>5, <2>1
  <2> QED
    BY <1>3, <2>2
<1>8. Len(own) \in Nat /\ DOMAIN own = 1 .. Len(own) /\ Len(own) > 0
  <2>1. Len(own) \in Nat /\ DOMAIN own = 1 .. Len(own)
    BY <1>5
  <2>2. own # <<>>
    <3>1. ToSet(own) # {}
      BY <1>4, <1>5
    <3> QED
      BY <2>1, <3>1 DEF ToSet
  <2> QED
    BY <1>5, <2>1, <2>2
<1> HIDE DEF scores, places
<1>9. scores \in [1 .. Len(own) -> Nat] /\ \A i \in 1 .. Len(own) : scores[i] >= 65
  BY <1>6, <1>7, <1>8
<1>10. scores \in Seq(Nat) /\ Len(scores) = Len(own)
  BY <1>8, <1>9, ListOf
<1>11. SumOf(scores) \in Nat /\ SumOf(scores) >= 65 * Len(scores)
  <2>1. \A i \in DOMAIN scores : scores[i] >= 65
    BY <1>9
  <2>2. 65 \in Nat
    OBVIOUS
  <2> QED
    BY <1>10, <2>1, <2>2, SumAtLeast
<1> DEFINE sum == SumOf(scores)
           l == Len(scores)
<1>12. sum \in Nat /\ l \in Nat /\ l > 0 /\ sum >= 65 * l /\ sum \div l < 65
  BY <1>1, <1>8, <1>10, <1>11
<1> HIDE DEF sum, l
<1>13. sum \div l >= 65
  BY <1>12
<1>14. sum \div l \in Int
  BY <1>12
<1> QED
  BY <1>12, <1>13, <1>14

\* The index finds the entries that are there and no others, what a context quotes
\* is about what was asked, no request is remembered as failed and as done, and a
\* weak kind of task was retried (long_term_memory.py, agent.py, reflection_service.py,
\* reflection_feedback_store.py).
THEOREM KnowledgeSoundHolds == KnowledgeSpec /\ VerdictSpec => []KnowledgeSound
<1>1. KnowledgeSpec => []IndexInv
  BY IndexInitially, IndexNextKeeps, PTL DEF KnowledgeSpec
<1>2. KnowledgeSpec => []JournalInv
  BY JournalInitially, JournalNextKeeps, PTL DEF KnowledgeSpec
<1>3. VerdictSpec => []VerdictInv
  BY VerdictInitially, VerdictNextKeeps, PTL DEF VerdictSpec
<1>4. IndexInv /\ JournalInv /\ VerdictInv => KnowledgeSound
  BY IndexGivesFinds, IndexGivesMatch, JournalGivesApart, RetryIsMonotone, VerdictGivesWeak DEF KnowledgeSound
<1> QED
  BY <1>1, <1>2, <1>3, <1>4, PTL

-----------------------------------------------------------------------------
(* ToolOutcomes. *)

Commands == {c.command : c \in CallsMade}
Counts == [total : Nat, wins : Nat, slow : Nat]
OutcomeShapes == [tool : Rated, command : Commands, success : BOOLEAN]

\* w holds the commands of the last outcomes.
WindowOf(w, seq) ==
    /\ w \in Seq(Commands) /\ Len(w) = IF Len(seq) > Window THEN Window ELSE Len(seq)
    /\ \A i \in 1 .. Len(w) : w[i] = seq[Len(seq) - Len(w) + i].command

OutcomesInv ==
    /\ history \in [Rated -> Counts] /\ today \in 0 .. 70 * MaxAges
    /\ \A t \in DOMAIN known : known[t].trust \in {30, 100} /\ known[t].seen \in 0 .. today
    /\ outcomes \in Seq(OutcomeShapes) /\ WindowOf(window, outcomes)
    /\ \A t \in Rated : history[t].total <= Len(outcomes)
    /\ \A i \in DOMAIN outcomes : outcomes[i].success /\ Capability[outcomes[i].tool] # NoCapability =>
         outcomes[i].tool \in DOMAIN known /\ known[outcomes[i].tool].trust = 100
    /\ \A t \in DOMAIN known : known[t].trust = 100 => WorkedBefore(t)

LEMMA OutcomesInitially == OutcomesInit => OutcomesInv
<1> SUFFICES ASSUME OutcomesInit PROVE OutcomesInv
  OBVIOUS
<1>1. history \in [Rated -> Counts]
  BY DEF OutcomesInit, Counts
<1>2. DOMAIN known = {}
  BY DEF OutcomesInit
<1>3. WindowOf(<<>>, <<>>)
  BY ToolOutcomesAssumption DEF WindowOf
<1> QED
  <2>1. Len(<<>>) = 0 /\ \A t \in Rated : history[t].total = 0
    BY DEF OutcomesInit
  <2> QED
    BY <1>1, <1>2, <1>3, <2>1, ToolOutcomesAssumption DEF OutcomesInit, OutcomesInv

LEMMA MaxOfTwo == ASSUME NEW a \in Int, NEW b \in Int PROVE Max({a, b}) = IF a >= b THEN a ELSE b
<1> DEFINE most == IF a >= b THEN a ELSE b
<1>1. most \in {a, b} /\ \A x \in {a, b} : most >= x
  OBVIOUS
<1>2. \A x \in {a, b} : (\A y \in {a, b} : x >= y) => x = most
  OBVIOUS
<1> HIDE DEF most
<1>3. Max({a, b}) \in {a, b} /\ \A y \in {a, b} : Max({a, b}) >= y
  BY <1>1 DEF Max
<1>4. Max({a, b}) = most
  BY <1>2, <1>3
<1> QED
  BY <1>4 DEF most

\* The window moves on with the outcomes.
LEMMA WindowMoves ==
    ASSUME NEW w, NEW seq \in Seq(OutcomeShapes), NEW o \in OutcomeShapes, WindowOf(w, seq)
    PROVE  WindowOf(Latest(Append(w, o.command), Window), Append(seq, o))
<1> DEFINE l == Len(w)
           n == Len(seq)
           a == Append(w, o.command)
           s == Append(seq, o)
           v == Latest(a, Window)
<1>1. w \in Seq(Commands) /\ l \in Nat /\ n \in Nat /\ Window \in Nat /\ Window >= 1
      /\ l = (IF n > Window THEN Window ELSE n) /\ \A i \in 1 .. l : w[i] = seq[n - l + i].command
  <2>1. w \in Seq(Commands) /\ l = (IF n > Window THEN Window ELSE n)
        /\ \A i \in 1 .. l : w[i] = seq[n - l + i].command
    BY DEF WindowOf
  <2>2. l \in Nat /\ n \in Nat
    BY <2>1
  <2>3. Window \in Nat /\ Window >= 1
    BY ToolOutcomesAssumption
  <2> QED
    BY <2>1, <2>2, <2>3
<1>2. a \in Seq(Commands) /\ Len(a) = l + 1 /\ a[l + 1] = o.command /\ \A i \in 1 .. l : a[i] = w[i]
  <2>1. o.command \in Commands
    BY DEF OutcomeShapes
  <2> QED
    BY <1>1, <2>1
<1>3. Len(s) = n + 1 /\ s[n + 1] = o /\ \A i \in 1 .. n : s[i] = seq[i]
  OBVIOUS
<1> HIDE DEF a, s, l, n, v
<1>0. SUFFICES WindowOf(v, s)
  BY DEF a, s, v
<1>4. ASSUME NEW i \in 1 .. l + 1 PROVE a[i] = s[n - l + i].command
  <2>1. CASE i = l + 1
    <3>1. n - l + i = n + 1
      BY <1>1, <2>1
    <3> QED
      BY <1>2, <1>3, <2>1, <3>1
  <2>2. CASE i \in 1 .. l
    <3>1. n - l + i \in 1 .. n
      BY <1>1, <2>2
    <3> QED
      BY <1>1, <1>2, <1>3, <2>2, <3>1
  <2> QED
    BY <1>1, <2>1, <2>2
<1>5. /\ v \in Seq(Commands) /\ Len(v) = (IF l + 1 > Window THEN Window ELSE l + 1)
      /\ l + 1 > Window => \A i \in 1 .. Window : v[i] = a[l + 1 - Window + i]
  BY <1>1, <1>2, LatestFits DEF v
<1>6. CASE l + 1 > Window
  <2>1. l = Window /\ Len(v) = Window /\ n + 1 > Window
    BY <1>1, <1>5, <1>6
  <2>2. ASSUME NEW i \in 1 .. Window PROVE v[i] = s[n + 1 - Window + i].command
    <3> DEFINE j == l + 1 - Window + i
    <3>1. j \in 1 .. l + 1 /\ n - l + j = n + 1 - Window + i
      BY <1>1, <2>1
    <3>2. v[i] = a[j]
      BY <1>5, <1>6
    <3> HIDE DEF j
    <3>3. a[j] = s[n - l + j].command
      BY <1>4, <3>1
    <3> QED
      BY <3>1, <3>2, <3>3
  <2> QED
    BY <1>1, <1>3, <1>5, <2>1, <2>2 DEF WindowOf
<1>7. CASE ~(l + 1 > Window)
  <2>1. v = a /\ Len(v) = l + 1 /\ l = n /\ ~(n + 1 > Window)
    BY <1>1, <1>2, <1>7 DEF Latest, v
  <2>2. ASSUME NEW i \in 1 .. Len(v) PROVE v[i] = s[n + 1 - Len(v) + i].command
    <3>1. a[i] = s[n - l + i].command
      BY <1>4, <2>1
    <3>2. n - l + i = n + 1 - Len(v) + i
      BY <1>1, <2>1
    <3> QED
      BY <2>1, <3>1, <3>2
  <2> QED
    BY <1>1, <1>3, <1>5, <2>1, <2>2 DEF WindowOf
<1> QED
  BY <1>6, <1>7

\* What is known after an outcome of t.
LearntOf(k, t, success) ==
    /\ DOMAIN k = DOMAIN known \union {t} /\ \A u \in DOMAIN known : u # t => k[u] = known[u]
    /\ k[t].trust \in {30, 100} /\ k[t].seen = today
    /\ (success \/ (t \in DOMAIN known /\ known[t].trust = 100)) <=> k[t].trust = 100

LEMMA LearntFits ==
    ASSUME OutcomesInv, NEW t, NEW success \in BOOLEAN, NEW pitfall
    PROVE  LearntOf(Learnt(t, success, pitfall), t, success)
<1> DEFINE old == IF t \in DOMAIN known THEN known[t] ELSE [trust |-> 0, pitfall |-> "none", seen |-> today]
           trust == IF success THEN 100 ELSE 30
           new == [trust |-> Max({trust, old.trust}), seen |-> today,
                   pitfall |-> IF pitfall = "none" \/ success THEN old.pitfall ELSE pitfall]
<1>1. Learnt(t, success, pitfall) = [u \in DOMAIN known \union {t} |-> IF u = t THEN new ELSE known[u]]
  BY DEF Learnt
<1>2. old.trust \in {0, 30, 100} /\ (t \in DOMAIN known => old.trust = known[t].trust)
      /\ (t \notin DOMAIN known => old.trust = 0)
  BY DEF OutcomesInv
<1>3. new.trust = Max({trust, old.trust}) /\ new.seen = today
  OBVIOUS
<1> HIDE DEF old, new
<1>4. new.trust = IF trust >= old.trust THEN trust ELSE old.trust
  <2>1. trust \in Int /\ old.trust \in Int
    BY <1>2
  <2> HIDE DEF trust
  <2> QED
    BY <1>3, <2>1, MaxOfTwo
<1> QED
  BY <1>1, <1>2, <1>3, <1>4 DEF LearntOf

LEMMA OutcomesNextKeeps == OutcomesInv /\ [OutcomesNext]_outcomeVars => OutcomesInv'
<1> SUFFICES ASSUME OutcomesInv, [OutcomesNext]_outcomeVars PROVE OutcomesInv'
  OBVIOUS
<1>1. ASSUME NEW c \in CallsMade, OnToolOutcome(c.tool, c.command, c.success, c.slow, c.pitfall) PROVE OutcomesInv'
  <2> DEFINE t == c.tool
             o == [tool |-> c.tool, command |-> c.command, success |-> c.success]
  <2>1. t \in Rated /\ c.success \in BOOLEAN /\ o \in OutcomeShapes /\ o.command = c.command /\ o.tool = t /\ o.success = c.success
    BY ToolOutcomesAssumption DEF OutcomeShapes, Commands
  <2>2. outcomes' = Append(outcomes, o) /\ window' = Latest(Append(window, o.command), Window) /\ today' = today
    BY <1>1 DEF OnToolOutcome, Observed
  <2>3. history' \in [Rated -> Counts] /\ \A x \in Rated : history'[x].total <= Len(outcomes')
    <3> DEFINE new == [total |-> history[t].total + 1, wins |-> history[t].wins + (IF c.success THEN 1 ELSE 0),
                       slow |-> history[t].slow + (IF c.slow THEN 1 ELSE 0)]
    <3>1. new \in Counts
      BY <2>1 DEF OutcomesInv, Counts
    <3>2. history' = [history EXCEPT ![t] = new] /\ new.total = history[t].total + 1
      BY <1>1 DEF OnToolOutcome, Recorded
    <3> HIDE DEF new
    <3>3. history \in [Rated -> Counts] /\ \A x \in Rated : history[x].total <= Len(outcomes) /\ history[x].total \in Nat
      BY DEF OutcomesInv, Counts
    <3>4. Len(outcomes') = Len(outcomes) + 1 /\ Len(outcomes) \in Nat
      BY <2>1, <2>2 DEF OutcomesInv
    <3>5. history' \in [Rated -> Counts]
      BY <2>1, <3>1, <3>2, <3>3
    <3>6. ASSUME NEW x \in Rated PROVE history'[x].total <= Len(outcomes')
      <4>1. CASE x = t
        BY <2>1, <3>2, <3>3, <3>4, <4>1
      <4>2. CASE x # t
        BY <3>2, <3>3, <3>4, <4>2
      <4> QED
        BY <4>1, <4>2
    <3> QED
      BY <3>5, <3>6
  <2> HIDE DEF o
  <2>4. outcomes' \in Seq(OutcomeShapes) /\ WindowOf(window', outcomes')
    BY <2>1, <2>2, WindowMoves DEF OutcomesInv
  <2>5. ASSUME NEW i \in DOMAIN outcomes' PROVE outcomes'[i] = o \/ (i \in DOMAIN outcomes /\ outcomes'[i] = outcomes[i])
    BY <2>1, <2>2, <2>5 DEF OutcomesInv
  <2>8. \A x : WorkedBefore(x) \/ (x = t /\ c.success) => WorkedBefore(x)'
    <3>1. /\ \A i \in DOMAIN outcomes : i \in DOMAIN outcomes' /\ outcomes'[i] = outcomes[i]
          /\ Len(outcomes) + 1 \in DOMAIN outcomes' /\ outcomes'[Len(outcomes) + 1] = o
      BY <2>1, <2>2 DEF OutcomesInv
    <3>2. ASSUME NEW x, WorkedBefore(x) PROVE WorkedBefore(x)'
      BY <3>1, <3>2 DEF WorkedBefore
    <3>3. ASSUME NEW x, x = t, c.success PROVE WorkedBefore(x)'
      BY <2>1, <3>1, <3>3 DEF WorkedBefore
    <3> QED
      BY <3>2, <3>3
  <2>6. CASE Capability[t] = NoCapability
    <3>1. known' = known
      BY <1>1, <2>6 DEF OnToolOutcome
    <3>2. today' \in 0 .. 70 * MaxAges /\ \A u \in DOMAIN known' : known'[u].trust \in {30, 100} /\ known'[u].seen \in 0 .. today'
      BY <2>2, <3>1 DEF OutcomesInv
    <3>3. ASSUME NEW i \in DOMAIN outcomes', outcomes'[i].success, Capability[outcomes'[i].tool] # NoCapability
          PROVE  outcomes'[i].tool \in DOMAIN known' /\ known'[outcomes'[i].tool].trust = 100
      <4>1. i \in DOMAIN outcomes /\ outcomes'[i] = outcomes[i]
        BY <2>1, <2>5, <2>6, <3>3
      <4>2. outcomes[i].tool \in DOMAIN known /\ known[outcomes[i].tool].trust = 100
        BY <3>3, <4>1 DEF OutcomesInv
      <4> QED
        BY <3>1, <4>1, <4>2
    <3>4. ASSUME NEW u \in DOMAIN known', known'[u].trust = 100 PROVE WorkedBefore(u)'
      <4>1. WorkedBefore(u)
        BY <3>1, <3>4 DEF OutcomesInv
      <4> QED
        BY <2>8, <4>1
    <3> QED
      BY <2>3, <2>4, <3>2, <3>3, <3>4 DEF OutcomesInv
  <2>7. CASE Capability[t] # NoCapability
    <3>1. known' = Learnt(t, c.success, c.pitfall)
      BY <1>1, <2>7 DEF OnToolOutcome
    <3>2. /\ DOMAIN known' = DOMAIN known \union {t} /\ \A u \in DOMAIN known : u # t => known'[u] = known[u]
          /\ known'[t].trust \in {30, 100} /\ known'[t].seen = today
          /\ (c.success \/ (t \in DOMAIN known /\ known[t].trust = 100)) <=> known'[t].trust = 100
      <4>1. LearntOf(known', t, c.success)
        BY <2>1, <3>1, LearntFits
      <4> QED
        BY <4>1 DEF LearntOf
    <3>3. \A u \in DOMAIN known : known[u].trust \in {30, 100} /\ known[u].seen \in 0 .. today
      BY DEF OutcomesInv
    <3>4. ASSUME NEW u \in DOMAIN known' PROVE known'[u].trust \in {30, 100} /\ known'[u].seen \in 0 .. today
      <4>0. today \in Nat
        BY DEF OutcomesInv
      <4>1. CASE u = t
        <5>1. known'[t].seen \in 0 .. today /\ known'[t].trust \in {30, 100}
          BY <3>2, <4>0
        <5> QED
          BY <4>1, <5>1
      <4>2. CASE u # t
        BY <3>2, <3>3, <4>2
      <4> QED
        BY <4>1, <4>2
    <3>5. ASSUME NEW i \in DOMAIN outcomes', outcomes'[i].success, Capability[outcomes'[i].tool] # NoCapability
          PROVE  outcomes'[i].tool \in DOMAIN known' /\ known'[outcomes'[i].tool].trust = 100
      <4>1. CASE outcomes'[i] = o
        BY <2>1, <3>2, <3>5, <4>1
      <4>2. CASE i \in DOMAIN outcomes /\ outcomes'[i] = outcomes[i]
        <5> DEFINE u == outcomes[i].tool
        <5>1. u \in DOMAIN known /\ known[u].trust = 100
          BY <3>5, <4>2 DEF OutcomesInv
        <5> HIDE DEF u
        <5>2. u \in DOMAIN known' /\ known'[u].trust = 100
          BY <3>2, <5>1
        <5> QED
          BY <4>2, <5>2 DEF u
      <4> QED
        BY <2>5, <4>1, <4>2
    <3>6. ASSUME NEW u \in DOMAIN known', known'[u].trust = 100 PROVE WorkedBefore(u)'
      <4>1. CASE u = t
        <5>1. c.success \/ WorkedBefore(t)
          BY <3>2, <3>6, <4>1 DEF OutcomesInv
        <5> QED
          BY <2>8, <4>1, <5>1
      <4>2. CASE u # t
        <5>1. WorkedBefore(u)
          BY <3>2, <3>6, <4>2 DEF OutcomesInv
        <5> QED
          BY <2>8, <5>1
      <4> QED
        BY <4>1, <4>2
    <3>7. today' \in 0 .. 70 * MaxAges
      BY <2>2 DEF OutcomesInv
    <3> QED
      BY <2>2, <2>3, <2>4, <3>4, <3>5, <3>6, <3>7 DEF OutcomesInv
  <2> QED
    BY <2>6, <2>7
<1>2. CASE TimePasses
  <2>1. today \in Nat /\ today' = today + 70 /\ today' \in 0 .. 70 * MaxAges /\ known' = known
    BY <1>2, ToolOutcomesAssumption DEF TimePasses, OutcomesInv
  <2>2. \A t \in DOMAIN known : known[t].seen \in 0 .. today'
    BY <2>1 DEF OutcomesInv
  <2>3. \A t : WorkedBefore(t) => WorkedBefore(t)'
    BY <1>2 DEF TimePasses, WorkedBefore
  <2> QED
    BY <1>2, <2>1, <2>2, <2>3 DEF TimePasses, OutcomesInv
<1>3. CASE UNCHANGED outcomeVars
  BY <1>3 DEF outcomeVars, OutcomesInv, WorkedBefore
<1> QED
  BY <1>1, <1>2, <1>3 DEF OutcomesNext

LEMMA OutcomesGiveKnown == OutcomesInv => KnownTools
<1> SUFFICES ASSUME OutcomesInv, NEW t \in Rated, Capability[t] # NoCapability, WorkedBefore(t), Remains[today - known[t].seen] >= 30,
                    NEW found \in FindToolsForCapability(Capability[t], 30), t \notin found
             PROVE  Cardinality(found) = FindLimit /\ \A u \in found : WorkedBefore(u) /\ known[u].seen >= known[t].seen
  BY DEF KnownTools
<1>1. PICK i \in DOMAIN outcomes : outcomes[i].tool = t /\ outcomes[i].success
  BY DEF WorkedBefore
<1>2. t \in DOMAIN known /\ known[t].trust = 100 /\ known[t].seen \in 0 .. today /\ today \in 0 .. 70 * MaxAges
  BY <1>1 DEF OutcomesInv
<1> DEFINE r == Remains[today - known[t].seen]
<1>3. r \in 0 .. 100
  <2>1. today - known[t].seen \in 0 .. 70 * MaxAges
    BY <1>2, ToolOutcomesAssumption
  <2> QED
    BY <2>1, ToolOutcomesAssumption
<1>4. r >= 30 /\ Decayed(t) = (100 * r) \div 100
  BY <1>2 DEF Decayed
<1> HIDE DEF r
<1>5. (100 * r) \div 100 = r
  BY <1>3
<1>6. Decayed(t) >= 30
  BY <1>4, <1>5
<1> DEFINE trusted == {u \in DOMAIN known : Capability[u] = Capability[t] /\ Decayed(u) >= 30}
<1>7. t \in trusted
  BY <1>2, <1>6
<1>8. /\ found \subseteq trusted
      /\ found # trusted => Cardinality(found) = FindLimit /\ \A x \in trusted \ found, u \in found : ~Above(x, u)
  BY DEF FindToolsForCapability
<1>9. Cardinality(found) = FindLimit /\ \A u \in found : u \in DOMAIN known /\ ~Above(t, u)
  <2>1. \A u \in found : u \in DOMAIN known
    BY <1>8
  <2> HIDE DEF trusted
  <2> QED
    BY <1>7, <1>8, <2>1
<1>10. ASSUME NEW u \in found PROVE WorkedBefore(u) /\ known[u].seen >= known[t].seen
  <2>1. known[u].trust \in {30, 100} /\ known[u].seen \in 0 .. today /\ (known[u].trust = 100 => WorkedBefore(u))
    BY <1>9 DEF OutcomesInv
  <2>2. ~(known[t].trust > known[u].trust) /\ ~(known[t].trust = known[u].trust /\ known[t].seen > known[u].seen)
    BY <1>9 DEF Above
  <2>3. known[u].trust = 100
    BY <1>2, <2>1, <2>2
  <2> QED
    BY <1>2, <2>1, <2>2, <2>3
<1> QED
  BY <1>9, <1>10

\* The window is the commands of the last outcomes.
LEMMA OutcomesGiveWindow == OutcomesInv => window \in Seq(Commands) /\ LatestCommands = window
<1> SUFFICES ASSUME OutcomesInv PROVE window \in Seq(Commands) /\ LatestCommands = window
  OBVIOUS
<1> DEFINE l == Latest(outcomes, Window)
           m == Len(window)
<1>1. /\ window \in Seq(Commands) /\ m = IF Len(outcomes) > Window THEN Window ELSE Len(outcomes)
      /\ \A i \in 1 .. m : window[i] = outcomes[Len(outcomes) - m + i].command
  BY DEF OutcomesInv, WindowOf
<1>2. outcomes \in Seq(OutcomeShapes) /\ Window \in Nat /\ Len(outcomes) \in Nat /\ m \in Nat
  BY <1>1, ToolOutcomesAssumption DEF OutcomesInv
<1>3. /\ l \in Seq(OutcomeShapes) /\ Len(l) = m
      /\ Len(outcomes) > Window => \A i \in 1 .. Window : l[i] = outcomes[Len(outcomes) - Window + i]
  BY <1>1, <1>2, LatestFits
<1>4. ~(Len(outcomes) > Window) => l = outcomes
  BY DEF Latest
<1> HIDE DEF l, m
<1>5. ASSUME NEW i \in 1 .. m PROVE l[i].command = window[i]
  <2>1. window[i] = outcomes[Len(outcomes) - m + i].command
    BY <1>1
  <2>2. CASE Len(outcomes) > Window
    <3>1. m = Window
      BY <1>1, <2>2
    <3> QED
      BY <1>3, <2>1, <2>2, <3>1
  <2>3. CASE ~(Len(outcomes) > Window)
    <3>1. m = Len(outcomes) /\ Len(outcomes) - m + i = i
      BY <1>1, <1>2, <2>3
    <3> QED
      BY <1>4, <2>1, <2>3, <3>1
  <2> QED
    BY <2>2, <2>3
<1>6. DOMAIN l = 1 .. m /\ window = [i \in 1 .. m |-> window[i]]
  BY <1>1, <1>3 DEF m
<1>7. LatestCommands = [i \in DOMAIN l |-> l[i].command]
  BY DEF LatestCommands, l
<1> QED
  BY <1>1, <1>5, <1>6, <1>7

\* What the scan counts from the end.
LEMMA TrailingFits ==
    ASSUME NEW w \in Seq(Commands), Len(w) >= 4
    PROVE  Trailing(w) >= 4 <=> \A i \in (Len(w) - 3) .. Len(w) : w[i] = w[Len(w)]
<1> DEFINE n == Len(w)
           T == {k \in 0 .. n : \A i \in (n - k + 1) .. n : w[i] = w[n]}
<1>1. n \in Nat /\ n >= 4
  OBVIOUS
<1>2. Trailing(w) = Max(T)
  BY DEF Trailing, Last
<1> HIDE DEF n
<1>3. T \subseteq 0 .. n /\ 0 \in T
  BY <1>1
<1>4. \A k \in 0 .. n : k \in T <=> \A i \in (n - k + 1) .. n : w[i] = w[n]
  OBVIOUS
<1> HIDE DEF T
<1>5. PICK x \in T : \A y \in T : y <= x
  BY <1>1, <1>3, LargestNumber
<1>6. Max(T) \in T /\ \A y \in T : Max(T) >= y
  <2>1. \A y \in T : x >= y
    BY <1>1, <1>3, <1>5
  <2> QED
    BY <2>1 DEF Max
<1> DEFINE k == Max(T)
<1> HIDE DEF k
<1>7. k \in 0 .. n /\ \A i \in (n - k + 1) .. n : w[i] = w[n]
  BY <1>3, <1>4, <1>6 DEF k
<1>8. ASSUME k >= 4, NEW i \in (n - 3) .. n PROVE w[i] = w[n]
  <2>1. i \in (n - k + 1) .. n
    BY <1>1, <1>7, <1>8
  <2> QED
    BY <1>7, <2>1
<1>9. ASSUME \A i \in (n - 3) .. n : w[i] = w[n] PROVE k >= 4
  <2>1. 4 \in 0 .. n /\ n - 4 + 1 = n - 3
    BY <1>1
  <2>2. 4 \in T
    BY <1>4, <1>9, <2>1
  <2> QED
    BY <1>6, <2>2 DEF k
<1> QED
  BY <1>2, <1>8, <1>9 DEF k, n

LEMMA VersionsFit ==
    ASSUME NEW w \in Seq(Commands), VersionRoulette(w)
    PROVE  Cardinality({i \in DOMAIN w : w[i].installs}) >= 3
<1> DEFINE P == {i \in DOMAIN w : w[i].installs}
           T == {w[i].version : i \in P}
           f == [i \in P |-> w[i].version]
<1>1. PICK c \in ToSet(w) : Cardinality(VersionsTried(w, c.base)) >= 3
  BY DEF VersionRoulette
<1> DEFINE V == VersionsTried(w, c.base)
<1>2. V \in SUBSET T
  BY DEF VersionsTried, ToSet
<1>3. IsFiniteSet(P)
  <2>1. P \in SUBSET (1 .. Len(w)) /\ Len(w) \in Nat
    OBVIOUS
  <2>2. IsFiniteSet(1 .. Len(w))
    BY <2>1, CountTo
  <2> HIDE DEF P
  <2> QED
    BY <2>1, <2>2, FS_Subset
<1>4. f \in Surjection(P, T)
  BY DEF Surjection
<1> HIDE DEF V, P, T, f
<1>5. IsFiniteSet(T) /\ Cardinality(T) <= Cardinality(P)
  BY <1>3, <1>4, FS_Surjection
<1>6. IsFiniteSet(V) /\ Cardinality(V) <= Cardinality(T)
  BY <1>2, <1>5, FS_Subset
<1>7. Cardinality(V) \in Nat /\ Cardinality(T) \in Nat /\ Cardinality(P) \in Nat
  BY <1>3, <1>5, <1>6, FS_CardinalityType
<1> QED
  BY <1>1, <1>5, <1>6, <1>7 DEF V, P

LEMMA OutcomesGiveAlerts == OutcomesInv => AlertsTimely
<1> SUFFICES ASSUME OutcomesInv PROVE AlertsTimely
  OBVIOUS
<1> DEFINE n == Len(window)
<1>1. window \in Seq(Commands) /\ LatestCommands = window /\ DOMAIN window = 1 .. n
  BY OutcomesGiveWindow
<1>2. "retry" \in Alerts(window) <=> (n >= 4 /\ \A i \in (n - 3) .. n : window[i] = window[n])
  <2>1. "retry" \in Alerts(window) <=> InfiniteRetry(window)
    BY DEF Alerts
  <2>2. n >= 4 => (Trailing(window) >= 4 <=> \A i \in (n - 3) .. n : window[i] = window[n])
    BY <1>1, TrailingFits
  <2> QED
    BY <2>1, <2>2 DEF InfiniteRetry
<1>3. "versions" \in Alerts(window) => Cardinality({i \in 1 .. n : window[i].installs}) >= 3
  <2>1. "versions" \in Alerts(window) => VersionRoulette(window)
    BY DEF Alerts
  <2> QED
    BY <1>1, <2>1, VersionsFit
<1>4. "installs" \in Alerts(window) => Cardinality({i \in 1 .. n : window[i].installs}) >= 5
  <2>1. "installs" \in Alerts(window) => BruteForceInstall(window)
    BY DEF Alerts
  <2> QED
    BY <1>1, <2>1 DEF BruteForceInstall
<1> QED
  BY <1>1, <1>2, <1>3, <1>4 DEF AlertsTimely

LEMMA OutcomesGiveFair == OutcomesInv => RankFair
<1> SUFFICES ASSUME OutcomesInv, NEW t \in Rated, NEW u \in Rated, history[t] = history[u], t \in Affine, u \notin Affine
             PROVE  Rank(<<u, t>>) = <<t, u>>
  BY DEF RankFair
<1> DEFINE h == history[t]
           success == IF h.total = 0 THEN 50 ELSE (100 * h.wins) \div h.total
           speed == IF h.total = 0 THEN 50 ELSE 100 - (100 * h.slow) \div h.total
           recency == IF h.total = 0 THEN 0 ELSE (100 * h.total) \div MostCalls
           other == 40 * success + 20 * speed + 15 * 50 + 10 * recency
<1>1. h \in Counts
  BY DEF OutcomesInv
<1>2. h.total # 0 => MostCalls \in Nat /\ MostCalls > 0
  <2> DEFINE T == {history[x].total : x \in Rated}
  <2>1. Len(outcomes) \in Nat /\ T \subseteq 0 .. Len(outcomes) /\ h.total \in T
    <3>1. Len(outcomes) \in Nat
      BY DEF OutcomesInv
    <3>2. ASSUME NEW x \in Rated PROVE history[x].total \in 0 .. Len(outcomes)
      <4>1. history[x] \in Counts /\ history[x].total <= Len(outcomes)
        BY DEF OutcomesInv
      <4> QED
        BY <3>1, <4>1 DEF Counts
    <3> QED
      BY <3>1, <3>2
  <2> HIDE DEF T
  <2>2. PICK x \in T : \A y \in T : y <= x
    BY <2>1, LargestNumber
  <2>3. Max(T) \in T /\ \A y \in T : Max(T) >= y
    <3>1. \A y \in T : x >= y
      BY <2>1, <2>2
    <3> QED
      BY <3>1 DEF Max
  <2>4. MostCalls = Max(T)
    BY DEF MostCalls, T
  <2> DEFINE top == Max(T)
  <2> HIDE DEF h, top
  <2>5. top \in T /\ \A y \in T : top >= y
    BY <2>3 DEF top
  <2>6. top \in Nat /\ top >= h.total
    <3>1. top \in 0 .. Len(outcomes) /\ Len(outcomes) \in Nat
      BY <2>1, <2>5
    <3>2. h.total \in T
      BY <2>1
    <3>3. top >= h.total
      BY <2>5, <3>2, Zenon
    <3>4. top \in Nat
      BY <3>1
    <3> QED
      BY <3>3, <3>4
  <2>7. h.total \in Nat /\ MostCalls = top
    BY <1>1, <2>4 DEF Counts, top
  <2> QED
    BY <2>6, <2>7
<1>3. ScoreOf(t) = 40 * success + 20 * speed + 15 * 100 + 15 * 50 + 10 * recency
  BY DEF ScoreOf
<1>4. ScoreOf(u) = 40 * success + 20 * speed + 15 * 50 + 15 * 50 + 10 * recency
  BY DEF ScoreOf
<1>5. success \in Int /\ speed \in Int /\ recency \in Int
  BY <1>1, <1>2 DEF Counts
<1> HIDE DEF success, speed, recency
<1>6. ScoreOf(t) \in Int /\ ScoreOf(u) \in Int /\ ScoreOf(t) > ScoreOf(u)
  BY <1>3, <1>4, <1>5
<1> DEFINE s == <<u, t>>
           key == [i \in DOMAIN s |-> ScoreOf(s[i])]
           b == SortedBy(s, key)
<1>7. s \in Seq(Rated) /\ Len(s) = 2 /\ DOMAIN s = 1 .. 2 /\ s[1] = u /\ s[2] = t
  OBVIOUS
<1> DEFINE l == Len(s)
<1> HIDE DEF s, l
<1>8. key \in [DOMAIN s -> Int] /\ key[1] = ScoreOf(u) /\ key[2] = ScoreOf(t)
  <2>1. \A i \in 1 .. 2 : ScoreOf(s[i]) \in Int
    BY <1>6, <1>7
  <2> QED
    BY <1>7, <2>1
<1>9. Rank(s) = b
  BY DEF Rank
<1> HIDE DEF key, b
<1>10. PICK p \in [1 .. l -> 1 .. l] :
         /\ \A i, j \in 1 .. l : p[i] = p[j] => i = j
         /\ \A i \in 1 .. l : b[i] = s[p[i]]
         /\ \A i, j \in 1 .. l : i < j => key[p[i]] > key[p[j]] \/ (key[p[i]] = key[p[j]] /\ p[i] < p[j])
  <2>1. \E p \in [1..Len(s) -> 1..Len(s)] :
          /\ \A i, j \in 1..Len(s) : p[i] = p[j] => i = j
          /\ \A i \in 1..Len(s) : SortedBy(s, key)[i] = s[p[i]]
          /\ \A i, j \in 1..Len(s) : i < j => key[p[i]] > key[p[j]] \/ (key[p[i]] = key[p[j]] /\ p[i] < p[j])
    BY <1>7, <1>8, SortedByFits, Zenon
  <2> QED
    BY <2>1, Zenon DEF b, l
<1>11. b \in Seq(Rated) /\ Len(b) = 2
  <2>1. SortedBy(s, key) \in [1..Len(s) -> Rated]
    BY <1>7, <1>8, SortedByFits, Zenon
  <2>2. b \in [1 .. 2 -> Rated] /\ 2 \in Nat
    BY <1>7, <2>1, Zenon DEF b
  <2> QED
    BY <2>2, ListOf
<1>0. l = 2
  BY <1>7 DEF l
<1>12. p[1] = 2 /\ p[2] = 1
  <2>1. 1 \in 1 .. 2 /\ 2 \in 1 .. 2 /\ 1 < 2 /\ p[1] \in 1 .. 2 /\ p[2] \in 1 .. 2
    BY <1>0, <1>10
  <2>2. p[1] # p[2] /\ (key[p[1]] > key[p[2]] \/ (key[p[1]] = key[p[2]] /\ p[1] < p[2]))
    BY <1>0, <1>10, <2>1
  <2>3. key[1] \in Int /\ key[2] \in Int /\ key[2] > key[1]
    BY <1>6, <1>8
  <2> QED
    BY <2>1, <2>2, <2>3
<1>13. b[1] = t /\ b[2] = u
  BY <1>0, <1>7, <1>10, <1>12
<1>14. b = <<t, u>>
  BY <1>11, <1>13
<1> QED
  BY <1>9, <1>14 DEF s

\* The alerts are about the last calls and none is missed, a tool that worked once is
\* found until it was not used for long, and of two that did equally well the one
\* known to be good on the platform comes first (learning_loop.py and what it feeds).
THEOREM ToolOutcomesSoundHolds == OutcomesSpec => []ToolOutcomesSound
<1>1. OutcomesInv => ToolOutcomesSound
  BY OutcomesGiveAlerts, OutcomesGiveKnown, OutcomesGiveFair DEF ToolOutcomesSound
<1> QED
  BY <1>1, OutcomesInitially, OutcomesNextKeeps, PTL DEF OutcomesSpec

-----------------------------------------------------------------------------
(* Serving: together. *)

\* Whatever serves the runs of agents does so soundly (config_service.py, llm_client.py,
\* tools.py, long_term_memory.py, learning_loop.py and what belongs to them).
THEOREM ServingSoundHolds == ServingSpec => []ServingSound
<1>1. SettingsSound /\ ModelCallsSound /\ ToolHostSound /\ KnowledgeSound /\ ToolOutcomesSound => ServingSound
  BY DEF ServingSound
<1> QED
  BY <1>1, SettingsSoundHolds, ModelCallsSoundHolds, ToolHostSoundHolds, KnowledgeSoundHolds, ToolOutcomesSoundHolds,
     PTL DEF ServingSpec
==============================================================================

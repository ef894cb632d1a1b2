--------------------------- MODULE ToolOutcomes ---------------------------
(***************************************************************************)
(* What is learnt from the outcomes of tool calls (learning_loop.py): the  *)
(* scores that rank tools (adaptive_tool_selector.py), the knowledge of    *)
(* which tool serves which capability (tool_knowledge_base.py), and the    *)
(* watch for patterns in the last calls (execution_pattern_detector.py).   *)
(* A command is what the patterns tell apart: what it installs, in which   *)
(* version, whether it escalates or destroys.  Scores are in percent of a  *)
(* percent.  Left out: install hints, which no caller gives.               *)
(***************************************************************************)
EXTENDS Lists, SequencesExt

CONSTANTS
    Rated,        \* tools
    CallsMade,    \* [tool, command, success, slow, pitfall] of calls; a command is
                  \* [base, version, installs, sudo, destroys]
    Capability,   \* [tool -> capability, or NoCapability]
    NoCapability,
    Affine,       \* tools known to be good on the platform
    Window,       \* length of the detector's window
    Remains,      \* [days -> percent of the trust that is left]: exp(-0.01 * days)
    FindLimit,    \* tools that a search returns at most; its caller asks for 5
    MaxOutcomes,  \* bound: calls
    MaxAges       \* bound: spans of seventy days

ASSUME ToolOutcomesAssumption ==
    /\ Window \in Nat \ {0} /\ FindLimit \in Nat \ {0} /\ MaxOutcomes \in Nat /\ MaxAges \in Nat
    /\ Remains \in [0 .. 70 * MaxAges -> 0 .. 100]
    /\ Affine \subseteq Rated
    /\ \A c \in CallsMade : c.tool \in Rated /\ c.success \in BOOLEAN /\ c.slow \in BOOLEAN

VARIABLES
    history,   \* [tool -> [total, wins, slow]]: calls, successes, slow calls
    known,     \* [tool -> [trust, pitfall, seen]] of tools with a capability
    window,    \* the last commands, oldest first
    today,
    outcomes   \* history: every outcome, oldest first
outcomeVars == <<history, known, window, today, outcomes>>

OutcomesInit ==
    /\ history = [t \in Rated |-> [total |-> 0, wins |-> 0, slow |-> 0]]
    /\ known = [t \in {} |-> NoCapability] /\ window = <<>> /\ today = 0 /\ outcomes = <<>>

(* record_outcome *)
Recorded(t, success, slow) ==
    [history EXCEPT ![t] = [total |-> @.total + 1, wins |-> @.wins + (IF success THEN 1 ELSE 0),
                            slow |-> @.slow + (IF slow THEN 1 ELSE 0)]]

(* learn_from_outcome: trust only grows, a pitfall is only replaced by
   another, and every outcome, also a failure, makes the entry fresh. *)
Learnt(t, success, pitfall) ==
    LET old == IF t \in DOMAIN known THEN known[t] ELSE [trust |-> 0, pitfall |-> "none", seen |-> today]
        trust == IF success THEN 100 ELSE 30
    IN [u \in DOMAIN known \union {t} |->
          IF u = t THEN [trust |-> Max({trust, old.trust}), seen |-> today,
                         pitfall |-> IF pitfall = "none" \/ success THEN old.pitfall ELSE pitfall]
          ELSE known[u]]

(* observe *)
Observed(c) == Latest(Append(window, c), Window)

(* on_tool_outcome *)
OnToolOutcome(t, c, success, slow, pitfall) ==
    /\ Len(outcomes) < MaxOutcomes
    /\ history' = Recorded(t, success, slow)
    /\ known' = IF Capability[t] = NoCapability THEN known ELSE Learnt(t, success, pitfall)
    /\ window' = Observed(c)
    /\ outcomes' = Append(outcomes, [tool |-> t, command |-> c, success |-> success])
    /\ UNCHANGED today
TimePasses == today + 70 <= 70 * MaxAges /\ today' = today + 70 /\ UNCHANGED <<history, known, window, outcomes>>

OutcomesNext ==
    \/ \E c \in CallsMade : OnToolOutcome(c.tool, c.command, c.success, c.slow, c.pitfall)
    \/ TimePasses
OutcomesSpec == OutcomesInit /\ [][OutcomesNext]_outcomeVars

-----------------------------------------------------------------------------
(* rank: the share of successes, the speed, the platform, the user's wish
   (here: none) and "recency", which is the tool's share of the most calls
   any tool had: the counter of calls is kept per tool. *)
MostCalls == Max({history[t].total : t \in Rated})
ScoreOf(t) ==
    LET h == history[t]
        success == IF h.total = 0 THEN 50 ELSE (100 * h.wins) \div h.total
        speed == IF h.total = 0 THEN 50 ELSE 100 - (100 * h.slow) \div h.total
        platform == IF t \in Affine THEN 100 ELSE 50
        recency == IF h.total = 0 THEN 0 ELSE (100 * h.total) \div MostCalls
    IN 40 * success + 20 * speed + 15 * platform + 15 * 50 + 10 * recency
Rank(candidates) == SortedBy(candidates, [i \in DOMAIN candidates |-> ScoreOf(candidates[i])])

(* find_tools_for_capability: the rows are read by trust and, of equal ones,
   by when they were last seen; those whose trust has decayed too far are
   skipped, and the scan ends once there are enough. The results, of which
   there are several when rows of one day tie. *)
Decayed(t) == (known[t].trust * Remains[today - known[t].seen]) \div 100
Above(t, u) ==
    known[t].trust > known[u].trust \/ (known[t].trust = known[u].trust /\ known[t].seen > known[u].seen)
FindToolsForCapability(cap, least) ==
    LET trusted == {t \in DOMAIN known : Capability[t] = cap /\ Decayed(t) >= least}
    IN {found \in SUBSET trusted :
          /\ Cardinality(found) <= FindLimit
          /\ found # trusted =>
                Cardinality(found) = FindLimit /\ \A t \in trusted \ found, u \in found : ~Above(t, u)}

-----------------------------------------------------------------------------
(* check: the alerts of the window. *)

Trailing(w) == Max({k \in 0..Len(w) : \A i \in (Len(w) - k + 1)..Len(w) : w[i] = Last(w)})
InfiniteRetry(w) == Len(w) >= 4 /\ Trailing(w) >= 4
VersionsTried(w, base) == {c.version : c \in {d \in ToSet(w) : d.installs /\ d.base = base}} \ {"none"}
VersionRoulette(w) == \E c \in ToSet(w) : Cardinality(VersionsTried(w, c.base)) >= 3
BruteForceInstall(w) == Cardinality({i \in DOMAIN w : w[i].installs}) >= 5
SudoEscalation(w) == \E c \in ToSet(w) : c.sudo
DestructiveSequence(w) == \E c \in ToSet(w) : c.destroys
Alerts(w) ==
    {a \in {"retry", "versions", "installs", "sudo", "destroys"} :
        \/ a = "retry" /\ InfiniteRetry(w)
        \/ a = "versions" /\ VersionRoulette(w)
        \/ a = "installs" /\ BruteForceInstall(w)
        \/ a = "sudo" /\ SudoEscalation(w)
        \/ a = "destroys" /\ DestructiveSequence(w)}

(* The alerts are about the last calls made, and none is missed: what the
   scan counts back from the end is four same commands in a row. *)
LatestCommands == LET last == Latest(outcomes, Window) IN [i \in DOMAIN last |-> last[i].command]
AlertsTimely ==
    LET last == LatestCommands
        n == Len(last)
    IN /\ ("retry" \in Alerts(window)) <=> (n >= 4 /\ \A i \in (n - 3)..n : last[i] = last[n])
       /\ "versions" \in Alerts(window) => Cardinality({i \in 1..n : last[i].installs}) >= 3
       /\ "installs" \in Alerts(window) => Cardinality({i \in 1..n : last[i].installs}) >= 5
(* A tool that worked once is found for its capability until it was not used
   for so long that less than 30 percent of the trust in it remains, unless
   enough others that worked, and were used no longer ago, are found in its
   place; later failures count against none of them
   (tool_knowledge_base.py find_tools_for_capability). *)
WorkedBefore(t) == \E i \in DOMAIN outcomes : outcomes[i].tool = t /\ outcomes[i].success
KnownTools ==
    \A t \in Rated : Capability[t] # NoCapability /\ WorkedBefore(t) /\ Remains[today - known[t].seen] >= 30 =>
        \A found \in FindToolsForCapability(Capability[t], 30) :
            t \notin found => /\ Cardinality(found) = FindLimit
                             /\ \A u \in found : WorkedBefore(u) /\ known[u].seen >= known[t].seen
(* Two tools that did equally well on equally many calls rank as the
   platform has it; nothing else tells them apart. *)
RankFair ==
    \A t, u \in Rated : history[t] = history[u] /\ t \in Affine /\ u \notin Affine => Rank(<<u, t>>) = <<t, u>>

ToolOutcomesSound == AlertsTimely /\ KnownTools /\ RankFair
=============================================================================

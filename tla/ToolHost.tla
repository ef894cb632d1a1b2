------------------------------ MODULE ToolHost ------------------------------
(***************************************************************************)
(* The tools that reach outside the process (tools.py): commands and their *)
(* allowlist, background jobs, fetches from the web (url_validator.py) and *)
(* the one-shot sandbox for code (code_sandbox.py).  Calls of several      *)
(* sessions run in threads and share one AgentTooling.  Left out: the text *)
(* patterns themselves (a command is "safe" or not), output and paths.     *)
(***************************************************************************)
EXTENDS Integers, FiniteSets, FiniteSetsExt, SequencesExt

-----------------------------------------------------------------------------
(* Commands and background jobs.                                           *)

CONSTANTS
    Calls2,             \* calls of run_command and start_background_command
    Leaders, Listed,    \* names of programs, and those of the allowlist
    MaxJobs,            \* _bg_max_concurrent_jobs
    MaxUses             \* bound: approvals of a leader

ASSUME ToolHostAssumption ==
    IsFiniteSet(Calls2) /\ Listed \subseteq Leaders /\ MaxJobs \in Nat \ {0} /\ MaxUses \in Nat

VARIABLES
    cmd,        \* [call -> [kind, leader, safe, at, retried]]
    overrides,  \* leaders allowed for a single use
    proc,       \* [call -> its background process]
    jobs,       \* calls whose job is in the table
    approved,   \* history: [leader -> approvals given]
    used,       \* history: [leader -> times an unlisted one was run]
    crowded     \* history: two starts were between count and entry at once
commandVars == <<cmd, overrides, proc, jobs, approved, used, crowded>>

NoCall == [kind |-> "run", leader |-> "none", safe |-> TRUE, at |-> "new", retried |-> FALSE]
CommandInit ==
    /\ cmd = [c \in Calls2 |-> NoCall] /\ overrides = {}
    /\ proc = [c \in Calls2 |-> "none"] /\ jobs = {}
    /\ approved = [l \in Leaders |-> 0] /\ used = approved /\ crowded = FALSE

IsAt(c, place) == cmd[c].at = place
CmdGoes(c, place) == cmd' = [cmd EXCEPT ![c].at = place]
Active == {c \in jobs : proc[c] = "running"}

CallCommand(c, kind, leader, safe) ==
    /\ IsAt(c, "new")
    /\ cmd' = [cmd EXCEPT ![c] = [kind |-> kind, leader |-> leader, safe |-> safe, at |-> "check", retried |-> FALSE]]
    /\ UNCHANGED <<overrides, proc, jobs, approved, used, crowded>>

(* _enforce_command_allowlist: blocked programs and patterns are refused for
   good; what is merely not listed may be approved, for run_command once. *)
Allowlisted(leader) == leader \in Listed \union overrides
CheckCommand(c) ==
    /\ IsAt(c, "check")
    /\ CmdGoes(c, IF ~cmd[c].safe THEN "refused"
                  ELSE IF Allowlisted(cmd[c].leader) THEN "checked"
                  ELSE IF cmd[c].kind = "run" /\ ~cmd[c].retried THEN "asking" ELSE "refused")
    /\ UNCHANGED <<overrides, proc, jobs, approved, used, crowded>>

(* _consume_temporary_override, a step of its own: the calls are threads. *)
ConsumeOverride(c) ==
    /\ IsAt(c, "checked")
    /\ overrides' = overrides \ {cmd[c].leader}
    /\ used' = IF cmd[c].leader \in Listed THEN used ELSE [used EXCEPT ![cmd[c].leader] = Min({@ + 1, MaxUses + 1})]
    /\ CmdGoes(c, IF cmd[c].kind = "run" THEN "running" ELSE "count")
    /\ UNCHANGED <<proc, jobs, approved, crowded>>

(* agent.py: the user is asked, the leader allowed for one use and the call
   made again. *)
Approve2(c) ==
    /\ IsAt(c, "asking") /\ approved[cmd[c].leader] < MaxUses
    /\ overrides' = overrides \union {cmd[c].leader}
    /\ approved' = [approved EXCEPT ![cmd[c].leader] = @ + 1]
    /\ cmd' = [cmd EXCEPT ![c].at = "check", ![c].retried = TRUE]
    /\ UNCHANGED <<proc, jobs, used, crowded>>
Deny2(c) == IsAt(c, "asking") /\ CmdGoes(c, "refused") /\ UNCHANGED <<overrides, proc, jobs, approved, used, crowded>>
CommandEnds(c) == IsAt(c, "running") /\ CmdGoes(c, "over") /\ UNCHANGED <<overrides, proc, jobs, approved, used, crowded>>

(* The jobs are counted under the lock and the new one is entered under it, but
   in between, while its process is started, the lock is free. *)
AwaitsEntry(c) == IsAt(c, "counted") \/ IsAt(c, "started")
Full == Cardinality(Active) >= MaxJobs
CountJobs(c) ==
    /\ IsAt(c, "count")
    /\ CmdGoes(c, IF Full THEN "refused" ELSE "counted")
    /\ crowded' = (crowded \/ (~Full /\ \E d \in Calls2 \ {c} : AwaitsEntry(d)))
    /\ UNCHANGED <<overrides, proc, jobs, approved, used>>
StartJob(c) ==
    /\ IsAt(c, "counted") /\ CmdGoes(c, "started")
    /\ proc' = [proc EXCEPT ![c] = "running"]
    /\ UNCHANGED <<overrides, jobs, approved, used, crowded>>
EnterJob(c) ==
    /\ IsAt(c, "started") /\ CmdGoes(c, "over")
    /\ jobs' = jobs \union {c}
    /\ UNCHANGED <<overrides, proc, approved, used, crowded>>
StartJobFails(c) == IsAt(c, "counted") /\ CmdGoes(c, "over") /\ UNCHANGED <<overrides, proc, jobs, approved, used, crowded>>
JobEnds(c) == proc[c] = "running" /\ proc' = [proc EXCEPT ![c] = "ended"] /\ UNCHANGED <<cmd, overrides, jobs, approved, used, crowded>>

(* kill_background_process: the entry goes once the process has ended; one
   that cannot be killed in time stays listed.  No session is recorded for a
   job, so the check of its owner admits every session. *)
KillJob(c) ==
    /\ c \in jobs
    /\ proc' = [proc EXCEPT ![c] = "ended"] /\ jobs' = jobs \ {c}
    /\ UNCHANGED <<cmd, overrides, approved, used, crowded>>

CommandNext ==
    \/ \E c \in Calls2, kind \in {"run", "start"}, l \in Leaders, safe \in BOOLEAN : CallCommand(c, kind, l, safe)
    \/ \E c \in Calls2 : CheckCommand(c) \/ ConsumeOverride(c) \/ Approve2(c) \/ Deny2(c) \/ CommandEnds(c)
                         \/ CountJobs(c) \/ StartJob(c) \/ EnterJob(c) \/ StartJobFails(c) \/ JobEnds(c) \/ KillJob(c)
CommandSpec == CommandInit /\ [][CommandNext]_commandVars

(* An unlisted program runs only after an approval, and an approved command is
   refused only when another call has used the approval up; a running job is
   listed once its start is over; as many jobs run as are allowed, unless starts
   overlap (tools.py). *)
CommandSound ==
    /\ \A l \in Leaders \ Listed : (used[l] > 0 \/ l \in overrides) => approved[l] > 0
    /\ \A c \in Calls2 : (cmd[c].at = "refused" /\ cmd[c].retried) => used[cmd[c].leader] > 0
    /\ \A c \in Calls2 : proc[c] = "running" => c \in jobs \/ IsAt(c, "started")
    /\ ~crowded => Cardinality({c \in Calls2 : proc[c] = "running"}) <= MaxJobs
    /\ \A c \in Calls2 : ~cmd[c].safe => cmd[c].at \in {"check", "refused"}

-----------------------------------------------------------------------------
(* The sandbox: one directory and one process for each execution.          *)

VARIABLE box    \* [flaws, strategy, at, dir, child, container, timedOut, exit, outcome, spoilt]
sandboxVars == <<box>>

Flaws == {"language", "network", "filesystem", "construct"}
BoxInit ==
    \E flaws \in SUBSET Flaws, strategy \in {"process", "docker"} :
      box = [flaws |-> flaws, strategy |-> strategy, at |-> "new", dir |-> FALSE, child |-> "none",
             container |-> FALSE, timedOut |-> FALSE, exit |-> -1, outcome |-> "none",
             spoilt |-> FALSE]  \* history: the script could not be written

(* execute: the checks in their order; the first that fails names the error.
   Docker is looked for before anything is made. *)
FirstFlaw ==
    IF "language" \in box.flaws THEN "unsupported_language"
    ELSE IF "network" \in box.flaws THEN "network_blocked"
    ELSE IF "filesystem" \in box.flaws THEN "filesystem_blocked"
    ELSE IF "construct" \in box.flaws THEN "dangerous_construct_blocked" ELSE "none"
Leaves2(b, outcome) == [b EXCEPT !.at = "over", !.outcome = outcome]
CheckCode ==
    /\ box.at = "new"
    /\ box' = IF FirstFlaw # "none" THEN Leaves2(box, FirstFlaw) ELSE [box EXCEPT !.at = "checked"]
RuntimeMissing ==
    /\ box.at = "checked"
    /\ box' = Leaves2(box, "runtime_unavailable")
(* The directory is made and the script written before the clean-up of the
   finally clause is in force. *)
MakeDirectory == box.at = "checked" /\ box' = [box EXCEPT !.at = "ready", !.dir = TRUE]
WriteFails == box.at = "checked" /\ box' = [Leaves2(box, "raised") EXCEPT !.dir = TRUE, !.spoilt = TRUE]

\* A finally clause that only removes the directory.
ClearedOfFiles(b) == [b EXCEPT !.dir = FALSE]

(* The finally clause: a process that has not ended is killed with its group,
   the directory removed.  Killing the docker client leaves its container. *)
Cleared(b) == [b EXCEPT !.child = IF @ = "running" THEN "killed" ELSE @, !.dir = FALSE]

SpawnFails == box.at = "ready" /\ box' = Cleared(Leaves2(box, "execution_error"))
SpawnBox == box.at = "ready" /\ box' = [box EXCEPT !.at = "waiting", !.child = "running", !.container = box.strategy = "docker"]
Exits(code) ==
    /\ box.at = "waiting" /\ box.child = "running"
    /\ box' = [box EXCEPT !.child = "ended", !.container = FALSE, !.exit = code]
(* The timeout may be noticed only after the process has ended. *)
BoxTimesOut ==
    /\ box.at = "waiting" /\ ~box.timedOut
    /\ box' = [box EXCEPT !.timedOut = TRUE, !.child = IF @ = "running" THEN "killed" ELSE @]
BoxReturns ==
    /\ box.at = "waiting" /\ box.child # "running"
    /\ box' = Cleared(Leaves2(box, IF box.timedOut THEN "timeout" ELSE IF box.exit = 0 THEN "success" ELSE "failed"))
(* The caller's own time limit cancels the execution (agent.py). *)
BoxCancelled == box.at = "waiting" /\ box' = Cleared(Leaves2(box, "cancelled"))

BoxNext ==
    \/ CheckCode \/ RuntimeMissing \/ MakeDirectory \/ WriteFails
    \/ SpawnFails \/ SpawnBox \/ \E code \in {0, 1} : Exits(code)
    \/ BoxTimesOut \/ BoxReturns \/ BoxCancelled
BoxSpec == BoxInit /\ [][BoxNext]_sandboxVars

(* However an execution ends, no process of it runs on but the container of a
   killed docker client, and no directory stays but for a script that could
   not be written; nothing flawed is started; a success ended by itself with
   code 0 (code_sandbox.py). *)
SandboxSound ==
    /\ box.at = "over" => (box.child # "running" /\ (box.dir => box.spoilt))
    /\ (box.at = "over" /\ box.container) => (box.strategy = "docker" /\ box.child = "killed")
    /\ box.child # "none" => box.flaws = {}
    /\ box.outcome = "success" => (box.child = "ended" /\ box.exit = 0 /\ ~box.timedOut)
    /\ (box.outcome \in {"success", "failed"} /\ box.child = "killed") => box.timedOut

-----------------------------------------------------------------------------
(* Fetching from the web: what is contacted was looked up just before.     *)

CONSTANTS
    Hosts,              \* names
    MaxRedirects

ASSUME WebAssumption == MaxRedirects \in Nat

VARIABLES
    dns,        \* [host -> the sort of its addresses: "public", "private" or "mixed"]
    fetch,      \* [host, scheme, at, redirects, pinned, outcome, bytes]
    contacted   \* history: [address, scheme] of every connection
webVars == <<dns, fetch, contacted>>

SizeLimit == 2  \* bound: of a body, in chunks
WebInit ==
    /\ dns = [h \in Hosts |-> "public"] /\ contacted = {}
    /\ \E h \in Hosts, s \in {"http", "https", "other"} :
         fetch = [host |-> h, scheme |-> s, at |-> "checking", redirects |-> 0, pinned |-> "none",
                  outcome |-> "none", bytes |-> 0]
NamesChange(h, sort) == dns' = [dns EXCEPT ![h] = sort] /\ UNCHANGED <<fetch, contacted>>

(* enforce_safe_url: every address must be public; the connection of http is
   pinned to one of them, https is left to its certificate. *)
Verdict(host, scheme) == IF scheme \notin {"http", "https"} \/ dns[host] # "public" THEN "unsafe" ELSE "safe"
FetchOver(outcome) == fetch' = [fetch EXCEPT !.at = "over", !.outcome = outcome] /\ UNCHANGED <<dns, contacted>>
CheckTarget ==
    /\ fetch.at = "checking"
    /\ IF Verdict(fetch.host, fetch.scheme) = "safe"
       THEN fetch' = [fetch EXCEPT !.at = "asking", !.pinned = IF fetch.scheme = "http" THEN "public" ELSE "none"]
            /\ UNCHANGED <<dns, contacted>>
       ELSE FetchOver("error")
(* Names may resolve to something else by now; a pinned address does not. *)
Contact ==
    /\ fetch.at = "asking"
    /\ contacted' = contacted \union
         {[address |-> IF fetch.pinned # "none" THEN fetch.pinned ELSE dns[fetch.host], scheme |-> fetch.scheme]}
    /\ fetch' = [fetch EXCEPT !.at = "answering"] /\ UNCHANGED dns
Redirect(host, scheme) ==
    /\ fetch.at = "answering" /\ fetch.bytes = 0
    /\ IF fetch.redirects + 1 > MaxRedirects THEN FetchOver("error")
       ELSE /\ fetch' = [fetch EXCEPT !.at = "checking", !.redirects = @ + 1, !.host = host, !.scheme = scheme]
            /\ UNCHANGED <<dns, contacted>>
(* Chunks are counted before they are kept. *)
BodyChunk ==
    /\ fetch.at = "answering"
    /\ IF fetch.bytes + 1 > SizeLimit THEN FetchOver("error")
       ELSE fetch' = [fetch EXCEPT !.bytes = @ + 1] /\ UNCHANGED <<dns, contacted>>
BodyEnds == fetch.at = "answering" /\ FetchOver("text")
FetchBreaks == fetch.at \in {"asking", "answering"} /\ FetchOver("error")

WebNext ==
    \/ \E h \in Hosts, sort \in {"public", "private", "mixed"} : NamesChange(h, sort)
    \/ CheckTarget \/ Contact \/ BodyChunk \/ BodyEnds \/ FetchBreaks
    \/ \E h \in Hosts, s \in {"http", "https", "other"} : Redirect(h, s)
WebSpec == WebInit /\ [][WebNext]_webVars

(* Whatever names resolve to meanwhile, http reaches public addresses only,
   also after redirects, and no scheme but the two is used (url_validator.py). *)
WebSound ==
    /\ \A k \in contacted : k.scheme \in {"http", "https"} /\ (k.scheme = "http" => k.address = "public")
    /\ fetch.redirects <= MaxRedirects /\ fetch.bytes <= SizeLimit

-----------------------------------------------------------------------------
ToolHostTypeOK ==
    /\ jobs \subseteq Calls2 /\ overrides \subseteq Leaders
    /\ box.child \in {"none", "running", "ended", "killed"} /\ box.container \in BOOLEAN
    /\ fetch.host \in Hosts

(* The three of them, with the types (tools.py, code_sandbox.py, url_validator.py). *)
ToolHostSound == ToolHostTypeOK /\ CommandSound /\ SandboxSound /\ WebSound
=============================================================================

---------------------------- MODULE ToolContracts ----------------------------
(***************************************************************************)
(* What becomes of a tool call a language model writes.  The calls are     *)
(* described to the model by the schemas of ToolSpecs; two paths receive   *)
(* them.  The manager's path (apply_action_pipeline of                     *)
(* tool_execution_manager.py, _validate_actions and _evaluate_action of    *)
(* agent.py, services/tool_arg_validator.py) normalises the name, checks   *)
(* every argument by a rule of its own and hands on what the rule made of  *)
(* it.  The runner's path (_execute_tool_calls of agent_runner.py,         *)
(* _invoke_tool of agent.py), which serves the live loop, takes name and   *)
(* arguments as they come.  Both ask the user about three tools that the   *)
(* run's policy denies, and what is granted stays granted for the run.     *)
(*                                                                         *)
(* A call is written field by field: the required fields with an ordinary  *)
(* value, then up to MaxOdd fields with any value, left out, or added, or  *)
(* arguments that are no object at all.  Names are strings.                *)
(***************************************************************************)
EXTENDS ToolSpecs

CONSTANTS
    MaxOdd,        \* how many fields of a call are not ordinary
    SwitchedOff,   \* the sets of feature switches that may be off
    Denials        \* the sets of tools that a run's policy and the settings may take away

ASSUME ContractAssumption ==
    MaxOdd \in Nat /\ SwitchedOff \subseteq SUBSET FeatureSwitches /\ Denials \subseteq SUBSET InRegistry

VARIABLES
    written,       \* the call: its name, the path that gets it, its arguments, whether they
                   \* are an object, how many are odd
    off,           \* the feature switches that are off
    denied,        \* the tools the policy takes away
    grants,      \* the tools the user granted
    verdict,       \* "none", "accepted", "refused", "failed" (an error result), "raised" or "cancelled"
    handed         \* the arguments the tool's method is called with

runVars == <<off, denied>>
contractVars == <<written, off, denied, grants, verdict, handed>>

Nothing == <<"nothing", 0>>

-----------------------------------------------------------------------------
(* The rule of a field: what it checks, the words it knows, the numbers it
   allows and the value it writes for a field that was left out. *)
Rule(check, words, lo, hi, default) == [check |-> check, words |-> words, lo |-> lo, hi |-> hi, default |-> default]
Word == Rule("word", {}, 0, 0, Nothing)               \* not blank, within its length
Path == Rule("path", {}, 0, 0, Nothing)               \* and without NUL bytes
Command == Rule("command", {}, 0, 0, Nothing)         \* and not forbidden
Free == Rule("free", {}, 0, 0, Nothing)               \* possibly empty
Num(lo, hi, default) == Rule("num", {}, lo, hi, <<"int", default>>)
Limits(lo, hi) == Rule("num", {}, lo, hi, Nothing)
Pick(words, default) == Rule("pick", words, 0, 0, <<"text", default>>)
Folded(words) == Rule("pick", words, 0, 0, Nothing)
Exactly(words) == Rule("exact", words, 0, 0, Nothing)
Toggle == Rule("toggle", {}, 0, 0, <<"bool", FALSE>>)
Switchable == Rule("toggle", {}, 0, 0, Nothing)
StepList == Rule("list", {}, 1, 20, Nothing)
PolicyRule == Rule("policy", {}, 0, 20, Nothing)
Unchecked == Rule("none", {}, 0, 0, Nothing)

(* _require_str_arg, _require_bool_arg, _optional_int_arg, _validate_optional_enum
   and the bodies for steps and tool_policy: whether a rule refuses a value. *)
InRange(rule, v) == v[2] >= rule.lo /\ v[2] <= rule.hi
StepsIn(v) == CASE v[1] = "joined" -> v[2] [] v \in {<<"text", "empty">>, <<"text", "blank">>} -> 0 [] OTHER -> 1
Refuses(rule, v) ==
    CASE rule.check = "free" -> ~IsText(v) \/ v = <<"text", "long">>
      [] rule.check \in {"word", "path", "command"} ->
            \/ ~IsText(v)
            \/ v[1] = "text" /\ v[2] \in {"empty", "blank", "long"}
            \/ rule.check = "path" /\ v = <<"text", "nul">>
            \/ rule.check = "command" /\ v = <<"text", "banned">>
      [] rule.check = "pick" -> v[1] \notin {"text", "folded"} \/ v[2] \notin rule.words
      [] rule.check = "exact" -> v[1] # "text" \/ v[2] \notin rule.words
      [] rule.check = "num" -> v[1] \notin {"int", "numeral", "fraction"} \/ ~InRange(rule, v)
      [] rule.check = "toggle" -> v[1] \notin {"bool", "word"} /\ ~(v[1] \in {"int", "numeral"} /\ v[2] \in {0, 1})
      [] rule.check = "list" -> IF IsText(v) THEN StepsIn(v) = 0 ELSE v[1] # "list" \/ ~InRange(rule, v)
      [] rule.check = "policy" -> v[1] \in {"blanklists", "mixedlists"} \/ (v[1] = "lists" /\ v[2] > rule.hi)
      [] OTHER -> FALSE

(* What a rule that does not refuse a truth value in another form makes of it. *)
Truth(v) == <<"bool", v \in {<<"int", 1>>, <<"numeral", 1>>, <<"word", TRUE>>}>>

(* Becomes if a number that came as a string stayed one. *)
BecomesAsWritten(rule, v) ==
    CASE rule.check = "pick" -> <<"text", v[2]>>
      [] rule.check = "toggle" /\ v[1] # "bool" -> Truth(v)
      [] rule.check = "list" /\ IsText(v) -> <<"list", StepsIn(v)>>
      [] rule.check = "policy" /\ v[1] # "lists" -> <<"none", 0>>
      [] OTHER -> v

(* What a rule that does not refuse a value writes back. *)
Becomes(rule, v) ==
    CASE rule.check = "pick" -> <<"text", v[2]>>
      [] rule.check = "num" -> <<"int", v[2]>>
      [] rule.check = "toggle" /\ v[1] # "bool" -> Truth(v)
      [] rule.check = "list" /\ IsText(v) -> <<"list", StepsIn(v)>>
      [] rule.check = "policy" /\ v[1] # "lists" -> <<"none", 0>>
      [] OTHER -> v

-----------------------------------------------------------------------------
FileRules == [
    list_dir |-> [path |-> Path],
    read_file |-> [path |-> Path],
    write_file |-> [path |-> Path, content |-> Free],
    run_command |-> [command |-> Command, cwd |-> Word],
    start_background_command |-> [command |-> Command, cwd |-> Word],
    code_execute |-> [code |-> Word, language |-> Pick({"python", "javascript", "js"}, "python"),
        timeout |-> Num(1, 60, 30), max_output_chars |-> Num(500, 20000, 10000),
        strategy |-> Pick({"process", "direct", "docker"}, "process"), persistent |-> Unchecked,
        session_id |-> Unchecked]]

SearchRules == [
    apply_patch |-> [path |-> Path, search |-> Word, replace |-> Free, replace_all |-> Toggle],
    file_search |-> [pattern |-> Word, max_results |-> Num(1, 500, 100)],
    grep_search |-> [query |-> Word, include_pattern |-> Word, is_regexp |-> Toggle,
        max_results |-> Num(1, 500, 100)],
    list_code_usages |-> [symbol |-> Word, include_pattern |-> Word, max_results |-> Num(1, 500, 100)],
    get_background_output |-> [job_id |-> Word, tail_lines |-> Num(1, 1000, 200)],
    kill_background_process |-> [job_id |-> Word],
    get_changed_files |-> NoFields]

WebRules == [
    web_fetch |-> [url |-> Word, max_chars |-> Num(1000, 100000, 12000)],
    web_search |-> [query |-> Word, max_results |-> Num(1, 10, 5)],
    http_request |-> [url |-> Word,
        method |-> Folded({"GET", "POST", "PUT", "PATCH", "DELETE", "HEAD", "OPTIONS"}), headers |-> Free,
        body |-> Free, content_type |-> Word, max_chars |-> Num(1, 100000, 100000)]]

AgentRules == [
    spawn_subrun |-> [message |-> Word, mode |-> Folded({"run", "session"}), agent_id |-> Word, model |-> Word,
        timeout_seconds |-> Num(0, 3600, 0), tool_policy |-> PolicyRule],
    analyze_image |-> [image_path |-> Path, prompt |-> Word],
    emit_visualization |-> [viz_type |-> Exactly({"mermaid", "svg"}), code |-> Word, title |-> Free]]

WorkflowRules == [
    create_workflow |-> [name |-> Word, description |-> Word, steps |-> StepList, base_agent_id |-> Word],
    delete_workflow |-> [workflow_id |-> Word],
    build_workflow |-> [name |-> Word, description |-> Word, steps_description |-> Word,
        execution_mode |-> Word],
    explore_connector |-> [connector_id |-> Word]]

BrowserRules == [
    code_reset |-> [session_id |-> Word],
    browser_screenshot |-> [session_id |-> Word],
    browser_open |-> [url |-> Word, session_id |-> Word],
    browser_click |-> [selector |-> Word, session_id |-> Word],
    browser_type |-> [selector |-> Word, text |-> Free, session_id |-> Word],
    browser_read_dom |-> [selector |-> Word, session_id |-> Word],
    browser_evaluate_js |-> [code |-> Word, session_id |-> Word]]

MediaRules == [
    parse_pdf |-> [path |-> Path],
    transcribe_audio |-> [path |-> Path],
    generate_image |-> [prompt |-> Word, size |-> Word],
    export_pdf |-> [content |-> Word, path |-> Path]]

GitRules == [
    git_log |-> [path |-> Path, max_count |-> Num(1, 100, 20), author |-> Word, since |-> Word,
        format |-> Pick({"oneline", "short", "full"}, "short")],
    git_diff |-> [target |-> Word, base |-> Word, stat_only |-> Switchable],
    git_blame |-> [path |-> Path, start_line |-> Limits(1, 999999), end_line |-> Limits(1, 999999)],
    git_show |-> [ref |-> Word, stat_only |-> Switchable],
    git_stash |-> [action |-> Pick({"save", "pop", "list", "drop"}, "save"), message |-> Word]]

CheckRules == [
    run_tests |-> [runner |-> Pick({"auto", "pytest", "jest", "mocha", "go", "cargo"}, "auto"), path |-> Path,
        filter |-> Word, verbose |-> Switchable],
    lint_check |-> [tool |-> Pick({"auto", "eslint", "ruff", "flake8", "mypy", "pyright", "tsc"}, "auto"),
        path |-> Path, fix |-> Switchable],
    test_coverage |-> [runner |-> Pick({"auto", "pytest", "jest"}, "auto"), path |-> Path],
    dependency_audit |-> [manager |-> Pick({"auto", "npm", "pip"}, "auto"),
        severity |-> Pick({"low", "moderate", "high", "critical"}, "moderate")],
    dependency_outdated |-> [manager |-> Pick({"auto", "npm", "pip"}, "auto")],
    dependency_tree |-> [manager |-> Pick({"auto", "npm", "pip"}, "auto"), package |-> Word],
    parse_errors |-> [error_text |-> Word,
        language |-> Pick({"auto", "python", "javascript", "go", "rust"}, "auto")],
    secrets_scan |-> [path |-> Path, tool |-> Pick({"auto", "gitleaks", "builtin"}, "auto")],
    security_check |-> [tool |-> Pick({"auto", "bandit", "semgrep"}, "auto"), path |-> Path,
        severity |-> Folded({"low", "medium", "high"})]]

(* ToolArgValidator._validators *)
Rules == FileRules @@ SearchRules @@ WebRules @@ AgentRules @@ WorkflowRules @@ BrowserRules
    @@ MediaRules @@ GitRules @@ CheckRules

-----------------------------------------------------------------------------
(* Writing a call. *)
Ordinary(schema) ==
    CASE schema.type = "word" -> <<"text", CHOOSE w \in schema.choices : TRUE>>
      [] schema.type = "items" -> <<"list", 1>>
      [] OTHER -> <<"text", "plain">>

Tried(schema) ==
    {<<"other", 0>>} \cup
    CASE schema.type \in {"text", "line", "short"} ->
            {<<"text", c>> : c \in {"plain", "empty", "blank", "long", "nul", "banned"}}
      [] schema.type = "word" ->
            {<<"text", c>> : c \in schema.choices \cup {"plain", "session"}} \cup {<<"folded", c>> : c \in schema.choices}
      [] schema.type = "int" ->
            {<<"int", n>> : n \in {-1, 0, 1, 999, 1000, 999999, schema.hi - 1, schema.hi, schema.hi + 1, schema.lo - 1, schema.lo}}
            \cup {<<"numeral", 1>>, <<"numeral", 0>>, <<"fraction", 1>>, <<"infinite", 0>>, <<"bool", TRUE>>, <<"text", "plain">>}
      [] schema.type = "flag" ->
            {<<"bool", TRUE>>, <<"word", TRUE>>, <<"word", FALSE>>, <<"int", 1>>, <<"int", 2>>, <<"numeral", 0>>, <<"numeral", 1>>}
      [] schema.type = "items" ->
            {<<"list", n>> : n \in {0, 1, 20, 21}} \cup {<<"joined", n>> : n \in {0, 21}}
            \cup {<<"blanks", 2>>, <<"mixed", 2>>, <<"text", "plain">>, <<"text", "blank">>}
      [] OTHER -> {<<"lists", 1>>, <<"lists", 21>>, <<"blanklists", 1>>, <<"mixedlists", 1>>, <<"none", 0>>, <<"text", "plain">>}

Blank(name, path) == [name |-> name, path |-> path, args |-> NoFields, formed |-> TRUE, odd |-> 0]

(* The model picks a tool the schemas or the prompt name, under one of its
   names; ordinary values for what is required. *)
Write ==
    /\ written.name = "none"
    /\ \E t \in InRegistry \cup Groups.connectors, path \in {"runner", "manager"} :
        \E name \in {t} \cup (IF t \in DOMAIN Aliases THEN Aliases[t] ELSE {}) :
          written' = IF t \in InRegistry
                     THEN [Blank(name, path) EXCEPT !.args = [f \in RequiredArgs(t) |-> Ordinary(Published[t][f])]]
                     ELSE Blank(name, path)
    /\ UNCHANGED <<runVars, grants, verdict, handed>>

(* The result of a call goes back to the model, which may write another. *)
Return ==
    /\ verdict # "none"
    /\ written' = Blank("none", "manager") /\ verdict' = "none" /\ handed' = NoFields
    /\ UNCHANGED <<runVars, grants>>

(* One field gets another value, is left out, or is one the tool does not have. *)
Alter ==
    /\ written.name # "none" /\ verdict = "none" /\ written.odd < MaxOdd /\ Canonical(written.name) \in InRegistry
    /\ LET fields == Published[Canonical(written.name)] IN
       \/ \E f \in DOMAIN fields : \E v \in Tried(fields[f]) :
             written' = [written EXCEPT !.args = (f :> v) @@ @, !.odd = @ + 1]
       \/ \E f \in DOMAIN written.args :
             written' = [written EXCEPT !.args = [g \in DOMAIN @ \ {f} |-> @[g]], !.odd = @ + 1]
       \/ written' = [written EXCEPT !.args = ("unknown" :> <<"text", "plain">>) @@ @, !.odd = @ + 1]
       \/ /\ written.path = "manager"
          /\ written' = [written EXCEPT !.formed = FALSE, !.odd = @ + 1]
    /\ UNCHANGED <<runVars, grants, verdict, handed>>

-----------------------------------------------------------------------------
(* _resolve_effective_allowed_tools starts from the active set and from the
   registry, which holds every specification whatever the switches say; what
   the policy takes away then is "denied". *)
Catalog(switches) == ActiveTools(switches) \cup InRegistry
Allowed(granted) == (Catalog(off) \ denied) \cup granted

(* The tools a user is asked about, and the argument shown to him. *)
Resource == [run_command |-> "command", code_execute |-> "code", spawn_subrun |-> "message"]

(* collect_policy_override_candidates: the manager asks only where there is
   something to show; blank code is shown as "(empty code)". *)
Candidate(t) ==
    /\ t \in DOMAIN Resource \ Allowed(grants) /\ written.formed /\ Resource[t] \in DOMAIN written.args
    /\ LET shown == written.args[Resource[t]] IN
       IsText(shown) /\ (t = "code_execute" \/ shown \notin {<<"text", "empty">>, <<"text", "blank">>})
(* The runner asks about any call of the three. *)
Approvable(t) == t \in DOMAIN Resource \ Allowed(grants)

AskUser(asks, t) ==
    IF asks THEN \E grant \in SUBSET {t} : grants' = grants \cup grant ELSE UNCHANGED grants

(* The user cancels the run instead of answering. *)
Cancel ==
    /\ written.name # "none" /\ verdict = "none"
    /\ IF written.path = "manager" THEN Candidate(Canonical(written.name)) ELSE Approvable(written.name)
    /\ verdict' = "cancelled"
    /\ UNCHANGED <<written, runVars, grants, handed>>

-----------------------------------------------------------------------------
(* _validate_actions, of an action whose name is a string. *)
Dropped(t, permitted) == t \notin permitted \/ ~written.formed

(* _evaluate_action.  Where several arguments are bad, which of them ends the
   validation is left open. *)
Lacking(t) == RequiredArgs(t) \ DOMAIN written.args
Strangers(t) == DOMAIN written.args \ DOMAIN Published[t]
Infinite(t) == {f \in DOMAIN written.args : Rules[t][f].check = "num" /\ written.args[f] = <<"infinite", 0>>}
RefusedArgs(t) == {f \in DOMAIN written.args : Refuses(Rules[t][f], written.args[f])}
Validated(t) ==
    [f \in DOMAIN written.args \cup {g \in DOMAIN Rules[t] : Rules[t][g].default # Nothing} |->
        IF f \in DOMAIN written.args THEN Becomes(Rules[t][f], written.args[f]) ELSE Rules[t][f].default]

Evaluate ==
    /\ written.name # "none" /\ verdict = "none" /\ written.path = "manager"
    /\ LET t == Canonical(written.name) IN
       /\ AskUser(Candidate(t), t)
       /\ IF Dropped(t, Allowed(grants')) \/ t \notin InRegistry
          THEN verdict' = "refused" /\ UNCHANGED handed
          ELSE IF Strangers(t) # {} \/ Lacking(t) # {}
          THEN verdict' = "refused" /\ UNCHANGED handed
          ELSE \/ RefusedArgs(t) \ Infinite(t) # {} /\ verdict' = "refused" /\ UNCHANGED handed
               \/ Infinite(t) # {} /\ verdict' = "raised" /\ UNCHANGED handed
               \/ RefusedArgs(t) = {} /\ verdict' = "accepted" /\ handed' = Validated(t)
    /\ UNCHANGED <<written, runVars>>

(* _execute_tool_calls, _runner_execute_tool and _invoke_tool: the name is
   looked up as it was written, the arguments the specification names are
   passed on, and spawn_subrun is refused outright. *)
Invoke ==
    /\ written.name # "none" /\ verdict = "none" /\ written.path = "runner"
    /\ LET t == written.name IN
       /\ AskUser(Approvable(t), t)
       /\ IF t \notin Allowed(grants')
          THEN verdict' = "refused" /\ UNCHANGED handed
          ELSE IF t = "spawn_subrun" \/ t \notin InRegistry
          THEN verdict' = "failed" /\ UNCHANGED handed
          ELSE IF Lacking(t) # {}
          THEN verdict' = "failed" /\ UNCHANGED handed
          ELSE /\ verdict' = "accepted"
               /\ handed' = [f \in DOMAIN written.args \cap DOMAIN Published[t] |-> written.args[f]]
    /\ UNCHANGED <<written, runVars>>

ContractInit ==
    /\ written = Blank("none", "manager") /\ off \in SwitchedOff /\ denied \in Denials /\ grants = {}
    /\ verdict = "none" /\ handed = NoFields

ContractNext == Write \/ Alter \/ Cancel \/ Evaluate \/ Invoke \/ Return

ContractSpec == ContractInit /\ [][ContractNext]_contractVars
-----------------------------------------------------------------------------
Tool == Canonical(written.name)
FitsSchema ==
    /\ Tool \in InRegistry /\ written.formed /\ Lacking(Tool) = {} /\ Strangers(Tool) = {}
    /\ \A f \in DOMAIN written.args : Conforms(Published[Tool][f], written.args[f])

(* Where the schemas say less than the rules: a look of strings they have no
   word for, an optional string that is empty, and numbers and lists they do
   not bound. *)
Unsaid(schema, rule, v) ==
    \/ IsText(v) /\ v[2] \in {"empty", "blank", "long", "nul", "banned"}
    \/ v[1] = "int" /\ v[2] > rule.hi /\ schema.hi = NoMax
    \/ v[1] = "int" /\ v[2] < rule.lo /\ schema.lo = NoMin
    \/ v[1] \in {"list", "lists"} /\ v[2] > rule.hi
    \/ v[1] \in {"blanks", "blanklists"}
(* And where the two contradict each other: the mode "wait"
   (tool_registry.py:720, tool_arg_validator.py:424) and the least length of
   a fetched page (tool_registry.py:516, tool_arg_validator.py:342). *)
Contradicts(t, f, v) ==
    \/ t = "spawn_subrun" /\ f = "mode" /\ v = <<"text", "wait">>
    \/ t = "web_fetch" /\ f = "max_chars" /\ v[2] < 1000

(* What the published schema admits, the validator accepts, but for what a
   schema leaves unsaid and the two contradictions. *)
PublishedAccepted ==
    (verdict \in {"refused", "raised"} /\ written.path = "manager" /\ Tool \in Allowed(grants) /\ FitsSchema) =>
        \E f \in DOMAIN written.args :
            \/ Unsaid(Published[Tool][f], Rules[Tool][f], written.args[f])
            \/ Contradicts(Tool, f, written.args[f])

(* Fields whose rule is laxer than their schema. *)
Lenient == {<<"code_execute", "persistent">>, <<"code_execute", "session_id">>,
            <<"build_workflow", "execution_mode">>, <<"spawn_subrun", "mode">>,
            <<"spawn_subrun", "timeout_seconds">>, <<"spawn_subrun", "tool_policy">>}

(* A tool is called with all its required arguments and none it does not
   know, and, where the policy denies it, only if it is one the user may
   grant and was granted; and what the validator hands on, however it was
   written, is what the schema promised the tool. *)
HandedSound ==
    verdict = "accepted" =>
        /\ Tool \in denied => Tool \in DOMAIN Resource /\ Tool \in grants
        /\ RequiredArgs(Tool) \subseteq DOMAIN handed /\ DOMAIN handed \subseteq DOMAIN Published[Tool]
        /\ written.path = "manager" =>
             \A f \in DOMAIN handed :
                <<Tool, f>> \in Lenient \/ Conforms(Published[Tool][f], handed[f])

ContractsSound == PublishedAccepted /\ HandedSound

(* A delegation the model writes by the published schema is carried out by
   the live loop (the prompt's "You can delegate tasks to specialist agents
   using the `spawn_subrun` tool.", main.py:319). *)
DelegationsRun ==
    (written.path = "runner" /\ written.name = "spawn_subrun" /\ FitsSchema) => verdict # "failed"
=============================================================================

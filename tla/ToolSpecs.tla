------------------------------ MODULE ToolSpecs ------------------------------
(***************************************************************************)
(* The tools as they are published to the language model                   *)
(* (services/tool_registry.py): for every tool the fields of its arguments *)
(* and what the JSON schema of each field admits; the groups of tools that *)
(* feature switches remove and the other spellings of their names          *)
(* (tool_catalog.py).                                                      *)
(*                                                                         *)
(* An argument is a pair of what it is and its content:                    *)
(*   <<"text", c>>      a string, by its look: "plain", "blank", "empty",  *)
(*                      "long" (longer than any limit), "nul" (with a NUL  *)
(*                      byte), "banned" (a forbidden command), or one of   *)
(*                      the words a field asks for                         *)
(*   <<"folded", c>>    that word in another case or with spaces around it *)
(*   <<"numeral", n>>, <<"word", b>>  a string that reads as a number, as  *)
(*                      a truth value                                      *)
(*   <<"joined", n>>    a string of n parts separated by commas            *)
(*   <<"int", n>>, <<"fraction", n>>, <<"infinite", 0>>  numbers: n, n and *)
(*                      a half, and the Infinity json.loads accepts        *)
(*   <<"bool", b>>      a truth value                                      *)
(*   <<"list", n>>, <<"blanks", n>>, <<"mixed", n>>  a list of n strings,  *)
(*                      with a blank one, with something that is no string *)
(*   <<"lists", n>>, <<"blanklists", n>>, <<"mixedlists", n>>  an object   *)
(*                      of such lists, or of what is no list               *)
(*   <<"none", 0>>, <<"other", 0>>  null, and anything else                *)
(***************************************************************************)
EXTENDS Integers, FiniteSets, TLC

NoMin == -1                    \* below every number tried
NoMax == 2000000               \* above every number tried
NoFields == <<>>

(* What the schema of a field admits, and whether the field is required. *)
Schema(type, choices, lo, hi) == [type |-> type, choices |-> choices, lo |-> lo, hi |-> hi, need |-> FALSE]
Need(schema) == [schema EXCEPT !.need = TRUE]
Text == Schema("text", {}, NoMin, NoMax)
Line == Schema("line", {}, NoMin, NoMax)          \* minLength 1
Short == Schema("short", {}, NoMin, NoMax)        \* and a maxLength
Of(words) == Schema("word", words, NoMin, NoMax)
Within(lo, hi) == Schema("int", {}, lo, hi)
AtLeast(lo) == Within(lo, NoMax)
Flag == Schema("flag", {}, NoMin, NoMax)
ItemList == Schema("items", {}, 1, NoMax)            \* minItems 1
Policy == Schema("policy", {}, 0, NoMax)

IsText(v) == v[1] \in {"text", "folded", "numeral", "word", "joined"}
Conforms(schema, v) ==
    CASE schema.type = "text" -> IsText(v)
      [] schema.type = "line" -> IsText(v) /\ v # <<"text", "empty">>
      [] schema.type = "short" -> IsText(v) /\ v \notin {<<"text", "empty">>, <<"text", "long">>}
      [] schema.type = "word" -> v[1] = "text" /\ v[2] \in schema.choices
      [] schema.type = "int" -> v[1] = "int" /\ v[2] >= schema.lo /\ v[2] <= schema.hi
      [] schema.type = "flag" -> v[1] = "bool"
      [] schema.type = "items" -> v[1] \in {"list", "blanks"} /\ v[2] >= schema.lo
      [] OTHER -> v[1] \in {"lists", "blanklists"}

-----------------------------------------------------------------------------
FileSpecs == [
    list_dir |-> [path |-> Line],
    read_file |-> [path |-> Need(Line)],
    write_file |-> [path |-> Need(Line), content |-> Need(Text)],
    run_command |-> [command |-> Need(Line), cwd |-> Line],
    code_execute |-> [code |-> Need(Line), language |-> Of({"python", "javascript", "js"}),
        timeout |-> Within(1, 60), max_output_chars |-> Within(500, 20000),
        strategy |-> Of({"process", "direct", "docker"}), persistent |-> Flag, session_id |-> Line]]

SearchSpecs == [
    apply_patch |-> [path |-> Need(Line), search |-> Need(Line), replace |-> Need(Text), replace_all |-> Flag],
    file_search |-> [pattern |-> Need(Line), max_results |-> AtLeast(1)],
    grep_search |-> [query |-> Need(Line), include_pattern |-> Line, is_regexp |-> Flag,
        max_results |-> AtLeast(1)],
    list_code_usages |-> [symbol |-> Need(Line), include_pattern |-> Line, max_results |-> AtLeast(1)],
    get_changed_files |-> NoFields]

WebSpecs == [
    start_background_command |-> [command |-> Need(Line), cwd |-> Line],
    get_background_output |-> [job_id |-> Need(Line), tail_lines |-> AtLeast(1)],
    kill_background_process |-> [job_id |-> Need(Line)],
    web_fetch |-> [url |-> Need(Line), max_chars |-> AtLeast(1)],
    web_search |-> [query |-> Need(Line), max_results |-> Within(1, 10)],
    http_request |-> [url |-> Need(Line),
        method |-> Of({"GET", "POST", "PUT", "PATCH", "DELETE", "HEAD", "OPTIONS"}), headers |-> Text,
        body |-> Text, content_type |-> Text, max_chars |-> AtLeast(1)]]

MediaSpecs == [
    analyze_image |-> [image_path |-> Need(Line), prompt |-> Text],
    parse_pdf |-> [path |-> Need(Line)],
    transcribe_audio |-> [path |-> Need(Line)],
    generate_image |-> [prompt |-> Need(Short), size |-> Text],
    export_pdf |-> [content |-> Need(Line), path |-> Text]]

AgentSpecs == [
    spawn_subrun |-> [message |-> Need(Line), mode |-> Of({"run", "wait"}), agent_id |-> Line, model |-> Line,
        timeout_seconds |-> AtLeast(1), tool_policy |-> Policy],
    create_workflow |-> [name |-> Need(Line), description |-> Need(Line), steps |-> Need(ItemList),
        base_agent_id |-> Line],
    delete_workflow |-> [workflow_id |-> Need(Line)],
    build_workflow |-> [name |-> Need(Line), description |-> Text, steps_description |-> Need(Line),
        execution_mode |-> Of({"parallel", "sequential"})],
    explore_connector |-> [connector_id |-> Need(Line)]]

BrowserSpecs == [
    code_reset |-> [session_id |-> Line],
    browser_open |-> [url |-> Need(Line), session_id |-> Line],
    browser_click |-> [selector |-> Need(Line), session_id |-> Line],
    browser_type |-> [selector |-> Need(Line), text |-> Need(Text), session_id |-> Line],
    browser_screenshot |-> [session_id |-> Line],
    browser_read_dom |-> [selector |-> Line, session_id |-> Line],
    browser_evaluate_js |-> [code |-> Need(Line), session_id |-> Line]]

GitSpecs == [
    emit_visualization |-> [viz_type |-> Need(Of({"mermaid", "svg"})), code |-> Need(Line), title |-> Text],
    git_log |-> [path |-> Text, max_count |-> Within(NoMin, 100), author |-> Text, since |-> Text,
        format |-> Of({"oneline", "short", "full"})],
    git_diff |-> [target |-> Text, base |-> Text, stat_only |-> Flag],
    git_blame |-> [path |-> Need(Line), start_line |-> Within(NoMin, NoMax), end_line |-> Within(NoMin, NoMax)],
    git_show |-> [ref |-> Need(Line), stat_only |-> Flag],
    git_stash |-> [action |-> Need(Of({"save", "pop", "list", "drop"})), message |-> Text]]

TestSpecs == [
    run_tests |-> [runner |-> Of({"auto", "pytest", "jest", "mocha", "go", "cargo"}), path |-> Text,
        filter |-> Text, verbose |-> Flag],
    test_coverage |-> [runner |-> Of({"auto", "pytest", "jest"}), path |-> Text],
    lint_check |-> [tool |-> Of({"auto", "eslint", "ruff", "flake8", "mypy", "pyright", "tsc"}), path |-> Text,
        fix |-> Flag],
    dependency_audit |-> [manager |-> Of({"auto", "npm", "pip"}),
        severity |-> Of({"low", "moderate", "high", "critical"})],
    dependency_outdated |-> [manager |-> Of({"auto", "npm", "pip"})],
    dependency_tree |-> [manager |-> Of({"auto", "npm", "pip"}), package |-> Text]]

ScanSpecs == [
    parse_errors |-> [error_text |-> Need(Line),
        language |-> Of({"auto", "python", "javascript", "go", "rust"})],
    secrets_scan |-> [path |-> Text, tool |-> Of({"auto", "gitleaks", "builtin"})],
    security_check |-> [tool |-> Of({"auto", "bandit", "semgrep"}), path |-> Text,
        severity |-> Of({"low", "medium", "high"})]]

(* function_parameters: the fields of every registered tool.  The registry of
   an agent holds all of them; the connector tools api_call, api_auth and
   api_list_connectors have a name and a group, but no specification. *)
Published == FileSpecs @@ SearchSpecs @@ WebSpecs @@ MediaSpecs @@ AgentSpecs
    @@ BrowserSpecs @@ GitSpecs @@ TestSpecs @@ ScanSpecs
InRegistry == DOMAIN Published
RequiredArgs(t) == {f \in DOMAIN Published[t] : Published[t][f].need}

-----------------------------------------------------------------------------
(* The groups of tools that feature switches take away; "devops" takes all
   of the last six. *)
Groups == [
    browser |-> DOMAIN BrowserSpecs \ {"code_reset"},
    repl |-> {"code_execute", "code_reset"},
    connectors |-> {"api_call", "api_list_connectors", "api_auth"},
    multimodal |-> {"parse_pdf", "transcribe_audio", "generate_image", "export_pdf"},
    git |-> DOMAIN GitSpecs \ {"emit_visualization"},
    testing |-> {"run_tests", "test_coverage"},
    lint |-> {"lint_check"},
    dependency |-> {"dependency_audit", "dependency_outdated", "dependency_tree"},
    security |-> {"secrets_scan", "security_check"},
    debug |-> {"parse_errors"}]
DevOps == {"git", "testing", "lint", "dependency", "security", "debug"}
FeatureSwitches == DOMAIN Groups \cup {"devops"}
ActiveTools(off) ==
    (InRegistry \cup Groups.connectors)
        \ UNION {Groups[g] : g \in {h \in DOMAIN Groups : h \in off \/ (h \in DevOps /\ "devops" \in off)}}

(* TOOL_NAME_ALIASES and _normalize_tool_name: the spellings that stand for a
   tool; any other name stands for itself. *)
Aliases == [
    write_file |-> {"createfile", "writefile"}, read_file |-> {"readfile"}, list_dir |-> {"listdir"},
    run_command |-> {"runcommand"}, code_execute |-> {"codeexecute"},
    code_reset |-> {"codereset", "code_interpreter_reset"}, apply_patch |-> {"applypatch"},
    file_search |-> {"filesearch"}, grep_search |-> {"grepsearch"}, list_code_usages |-> {"listcodeusages"},
    get_changed_files |-> {"getchangedfiles"}, start_background_command |-> {"startbackgroundcommand"},
    get_background_output |-> {"getbackgroundoutput"}, kill_background_process |-> {"killbackgroundprocess"},
    web_search |-> {"websearch", "search_web", "search"}, web_fetch |-> {"webfetch"},
    http_request |-> {"httprequest", "http_request_tool"},
    analyze_image |-> {"analyzeimage", "vision", "image_analysis"},
    emit_visualization |-> {"emitvisualization", "render_diagram", "mermaid", "visualize"},
    spawn_subrun |-> {"spawnsubrun"}, create_workflow |-> {"createworkflow"},
    delete_workflow |-> {"deleteworkflow"}, browser_open |-> {"browseropen", "open_browser"},
    browser_click |-> {"browserclick"}, browser_type |-> {"browsertype"},
    browser_screenshot |-> {"browserscreenshot", "screenshot"},
    browser_read_dom |-> {"browserreaddom", "browser_dom"},
    browser_evaluate_js |-> {"browserevaluatejs", "browser_js", "browser_eval"},
    api_call |-> {"apicall", "api_request"}, api_list_connectors |-> {"list_connectors", "apilistconnectors"},
    api_auth |-> {"apiauth", "api_authenticate"}, git_log |-> {"gitlog", "git_history"},
    git_diff |-> {"gitdiff"}, git_blame |-> {"gitblame"}, git_show |-> {"gitshow"}, git_stash |-> {"gitstash"},
    run_tests |-> {"runtests", "test"}, lint_check |-> {"lintcheck", "lint"},
    test_coverage |-> {"testcoverage", "coverage"}, dependency_audit |-> {"dependencyaudit", "dep_audit"},
    dependency_outdated |-> {"dependencyoutdated", "dep_outdated"},
    dependency_tree |-> {"dependencytree", "dep_tree"}, parse_errors |-> {"parseerrors", "parse_stacktrace"},
    secrets_scan |-> {"secretsscan"}, security_check |-> {"securitycheck"},
    parse_pdf |-> {"parsepdf", "pdf_parse", "read_pdf"},
    transcribe_audio |-> {"transcribeaudio", "speech_to_text"},
    generate_image |-> {"generateimage", "create_image", "dall_e"},
    export_pdf |-> {"exportpdf", "markdown_to_pdf"}]
Canonical(name) ==
    IF \E t \in DOMAIN Aliases : name \in Aliases[t] THEN CHOOSE t \in DOMAIN Aliases : name \in Aliases[t] ELSE name
=============================================================================

SPECIFICATION FairSpec
CONSTANTS
    Parts = {"tools", "recovery", "supervisor", "router", "ballot", "policy", "invoke", "register", "mcp", "browser"}
    \* BrowserPool
    Users = {"u1", "u2", "u3"}
    PoolKeys = {"default", "s1", "s2"}
    DefaultKey = "default"
    MaxContexts = 2
    Contexts = {"x1", "x2", "x3"}
    \* ToolLoop
    Selections <- SomeSelections
    AllowedNames = {"read", "web", "write", "ghost"}
    Grantable = {"shell"}
    KnownNames = {"read", "web", "write", "shell"}
    ReadOnlyNames = {"read", "web"}
    WebName = "web"
    Augmented <- Extra
    ParallelModes = {TRUE, FALSE}
    CallCap = 4
    CriticalAt = 3
    BreakerAt = 4
    PollAt = 2
    \* Recovery
    Candidates <- Route
    Score <- Scores
    CostOf <- Costs
    RouteRuntimes = {"api"}
    Configured <- SomeOrders
    Failures = {"context_overflow", "truncation_required", "timeout"}
    Retryable = {"timeout"}
    Signals = {"slow", "none"}
    Budget <- Budgets
    FeedbackOn = TRUE
    MetricsOn = TRUE
    FlipAt = 2
    MinSamples = 1
    WindowSize = 1
    CallBudget = 3
    MessageSize = 3
    MaxRuns = 2
    MayDisturb = TRUE
    \* Coordination
    AgentOrder <- Team
    Delegatable = {"coder", "general"}
    Reviewers = {"reviewer"}
    Skill <- Skills
    HighTier = {"general"}
    Threshold = 60
    Room <- Rooms
    Jobs = {"t1", "t2"}
    Runners = {"coder"}
    Panel = {"coder", "reviewer"}
    Marks = {20, 55, 90}
    MaxRedelegations = 1
    BoardHistory = 2
    RecordLength = 2
    Answers = {"yes", "no"}
    MaxReports <- Reports
    BallotSize = 3
    \* ToolInvoke
    NoList = NoList
    Catalog = {"read_file", "run_command", "spawn_subrun", "analyze_image", "mcp_tool"}
    Vision = "analyze_image"
    Nameable = {"read_file", "run_command", "spawn_subrun", "analyze_image"}
    Wishes = {{}, {"ghost"}, {"read_file", "spawn_subrun"}}
    Denials = {{}, {"run_command"}, {"analyze_image", "ghost"}}
    Overrides <- SomeOverrides
    Agents <- SomeAgents
    ConfigAllow = {"read_file", "run_command", "spawn_subrun"}
    ConfigDeny = {"mcp_tool"}
    Kinds <- SomeKinds
    Servers <- TwoServers
    Requests = {"q1", "q2", "q3"}
    McpCalls = {"c1", "c2"}
    MaxLinks = 2
CHECK_DEADLOCK FALSE
INVARIANTS
    ToolsSound
    BrowserPoolSound
    RecoverySound
    CoordinationSound
PROPERTIES
    SupportSettles

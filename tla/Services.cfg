SPECIFICATION FairSpec
CONSTANTS
    Parts = {"approval", "ws", "run", "workflow", "loop", "bus", "fan", "repl"}
    \* PolicyApproval
    Calls = {"a", "b"}
    KeyOf <- Asks
    Ids = {i1, i2}
    Subruns = {"a"}
    UserDecisions = {"allow_session", "allow_always", "deny"}
    RuleScopes = {"session_tool"}
    PersistFails = TRUE
    MaxRestarts = 1
    NoId = NoId
    \* WsSession
    w1 = w1
    f1 = f1
    f2 = f2
    c1 = c1
    d1 = d1
    u1 = u1
    x1 = x1
    Messages = {w1, f1, f2, c1, d1, u1, x1}
    KindOf <- Kinds
    OutcomesOf <- Endings
    MaxQueue = 3
    MaxDeferrals = 1
    MayExpire = TRUE
    SendsHardFail = TRUE
    NoRun = NoRun
    \* RunControl
    q1 = q1
    q2 = q2
    Requests = {q1, q2}
    KeyOfRequest <- RunKeys
    PrintOf <- RunPrints
    StageStates = {"tool_loop", "synthesis", "failed"}
    HardFail = TRUE
    StoreFails = TRUE
    RegistryCap = 1
    EventBound = 2
    RestartBound = 1
    NoKey = NoKey
    NoReply = NoReply
    Conflict = Conflict
    \* Workflow
    e1 = e1
    e3 = e3
    s1 = s1
    s2 = s2
    s3 = s3
    s4 = s4
    Executions = {e1, e3}
    WfKeyOf <- WfKeys
    WfPrintOf <- WfPrints
    ModeOf <- Modes
    Steps = {s1, s2, s3, s4}
    EntryStep = s1
    NoStep = NoStep
    MissingStep = MissingStep
    TypeOf <- StepTypes
    NextOf <- NextSteps
    BranchesOf <- Branches
    SpawnCap = 2
    WfRegistryCap = 1
    SaveFails = TRUE
    MayCrash = TRUE
    NoAnswer = NoAnswer
    WfConflict = WfConflict
    \* AgentLoop
    Batches <- SomeBatches
    AllowedTools = {"write", "spawn"}
    Approvable = {"shell"}
    Evidence = {"write", "shell"}
    SpawnTools = {"spawn"}
    NeedsEvidence = TRUE
    MaxIterations = 2
    MaxToolCalls = 1
    LoopThreshold = 2
    TailKeep = 2
    PlanSize = 2
    MaxReplans = 1
    MaxReflections = 1
    ToolRetry = TRUE
    RetryCalls = 2
    \* AgentBus
    Agents = {"a", "b"}
    Handlers = {"b"}
    Sends = {"s1", "s2"}
    Kind <- Kinds2
    Sender <- Senders
    Recipient <- Recipients
    Priority <- Priorities
    Waits = {"w"}
    WaitFor <- WaitsFor
    MailboxSize = 2
    Epochs = 1
    ReplyBound = 1
    \* FanOut
    FanModes = {"all", "race", "quorum", "dag"}
    Tasks = {"p", "q", "r", "s"}
    DependsOn <- Dependencies
    Values = {"v1", "v2"}
    Confidence <- Surety
    MaxConcurrent = 2
    QuorumThreshold = 2
    NoTask = NoTask
    \* ReplPool
    ReplCalls = {"a1", "a2", "a3", "b1", "ar", "ac"}
    SessionOf <- Owners
    Resets = {"ar"}
    Closes = {"ac"}
    Repls = {"r1", "r2", "r3", "r4"}
    MaxSessions = 1
    Cuttable = {"a1", "b1", "ar", "ac"}
    NoCall = "nocall"
    NoRepl = "norepl"
CHECK_DEADLOCK FALSE
INVARIANTS
    PermissionsGiven
    InboxSound
    RunsAccounted
    ExecutionSound
    RunSound
    MailSound
    ResultsSound
    ReplSound
PROPERTIES
    DecisionFinal
    ClosedRunsStay
    ClosedDocsStay
    ServicesSettle

SPECIFICATION FairSpec
CONSTANTS
    Parts = {"memory", "sessions", "catalog", "inquiry", "settings", "toolconfig", "runtime", "llm", "health", "limiter", "commands", "sandbox", "web", "knowledge", "verdicts", "outcomes", "contracts"}
    \* SessionStore
    RawIds = {"s1", "s/1"}
    KeyOfRaw <- Cleaned
    Items <- SomeItems
    MemoryLimit = 4
    MaxMishaps = 1
    RunIds = {"r1", "r2"}
    NamedSessions = {"s1"}
    Keys = {"k1", "none"}
    NoKeyGiven = "none"
    Texts = {"a"}
    MetaKeys = {"m"}
    KeyCap = 1
    \* AgentCatalog
    BuiltinIds = {"head-agent", "security-agent"}
    CustomIds = {"mine", "Mine", "Security-Agent"}
    Key <- Spelt
    Place <- Listing
    PrimaryId = "head-agent"
    Protected = {"head-agent"}
    FactoryDeny <- Floor
    FactoryReadOnly = {"security-agent"}
    DenyLists = {{"shell"}}
    ConfiguredDelegators = {"head-agent"}
    MaxVersions = 5
    Topics = {"review", "code", "docs"}
    CapsOfTopic <- Required2
    Delegable = {"code_reasoning", "review_analysis", "documentation"}
    Specialties <- Order
    SpecialistOf <- Specialists
    AgentCaps <- Offers
    Registries <- Orders
    \* Settings
    Fields = {"limit", "secret", "model"}
    Sections = {"core", "llm"}
    SectionOf <- Section2
    Sensitive = {"secret"}
    Values = {1, 2, 3}
    Acceptable <- Accepts
    Coerced <- Reads
    Env <- FromEnv
    Unset = 0
    MaxSaveFailures = 1
    ToolNames = {"run_command", "web_fetch"}
    ToolFields = {"enabled", "timeout"}
    ToolValues = {1, 2}
    Defaults <- Factory2
    Patterns = {"p", "("}
    BadPatterns = {"("}
    MaxPatterns = 2
    \* RuntimeSwitch
    Jobs = {"j1", "j2"}
    AgentOf <- AgentOfJob
    Switches = {"s1", "s2"}
    LocalModel = "qwen-instruct"
    ApiModel = "cloud"
    Alias = "qwen"
    Flags = {"f", "g"}
    MaxTrouble = 2
    \* ModelCalls
    MaxTries = 3
    Indices = {0, 1}
    MaxChunks = 3
    HealthModels <- TwoModels
    RingSize = 3
    MinSamples = 2
    StaticScore <- Static2
    Clients = {"c1", "c2"}
    Burst = 2
    Rate = 1
    IdleTime = 2
    MaxNow = 4
    \* ToolHost
    Calls2 = {"c1", "c2", "c3"}
    Leaders = {"ls", "make"}
    Listed = {"ls"}
    MaxJobs = 1
    MaxUses = 2
    Hosts = {"h1", "h2"}
    MaxRedirects = 2
    \* Knowledge
    Terms = {"alpha", "beta"}
    ShortWords = {"of"}
    FactKeys = {"k1"}
    Asks = {"r1", "r2"}
    TaskTypes = {"research", "general"}
    Threshold <- Strictness
    Results <- ToolResults
    HardMin = 40
    MaxWrites = 3
    \* ToolOutcomes
    Rated = {"t1", "t2", "t3"}
    CallsMade <- SomeOutcomes
    Capability <- Provides
    NoCapability = "none"
    Affine = {"t1"}
    Window = 5
    Remains <- Decay
    FindLimit = 1
    MaxOutcomes = 6
    MaxAges = 2
    \* ToolContracts
    MaxOdd = 1
    SwitchedOff = {{"repl", "lint", "connectors"}}
    Denials = {{"run_command", "git_log"}}
CHECK_DEADLOCK FALSE
INVARIANTS
    SessionStoreSound
    AgentCatalogSound
    ServingSound
    RuntimeSound
    ContractsSound
PROPERTIES
    PlatformSettles

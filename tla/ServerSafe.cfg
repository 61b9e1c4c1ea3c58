SPECIFICATION ServerSpec
CONSTANTS
    Absent = Absent
    a1 = a1
    a2 = a2
    n1 = n1
    t1 = t1
    r1 = r1
    r2 = r2
    r3 = r3
    r4 = r4
    Actor = {a1, a2}
    Name = {n1}
    Token = {t1}
    Request = {r1, r2, r3, r4}
    Wants <- MCWants
    Queue = 1
    PerWindow = 1
    Window = 2
    TTL = {1, 2}
    MaxTime = 3
    Admins = {x1, x2}
    KeyNames = {"k1", "k2"}
    MaxKeys = 3
    MaxCommands = 3
    Loggers = {r3, r4}
    MaxEvents = 2
    RetentionDays = 1
    LastDay = 2
    MaxRotations = 2
    Runners = {r3, r4}
    SafeHours = {2}
    LastHour = 2
    MaxCalls = 2
    KeptEvents = 1
    s1 = s1
    s2 = s2
    Servers = {s1, s2}
    Searchers = {c1}
    Serves <- MCServes
    MaxVersions = 2
    Hookers = {r3, r4}
    WarningNames = {"fatal", "dated"}
    MaxWarnings = 2
    MaxLogged = 3
    MaxHooks = 3
    Aggregators = {r3, r4}
    LastDirection = 2
    Rows <- MCRows
    MaxRows = 2
    PipeHolds = 2
    MinExperiments = 1
    Threshold = 20
    Providers <- MCProviders
    Answers <- MCAnswers
    Replies <- MCReplies
    KeyPipe = 1
    KeyTimeout = 1
    Tables <- MCTables
    Home = "home"
    OpenTasks = {"t1", "t2"}
    OpenLimit = 2
    Limit = 1
    MaxOthers = 2
    MaxAsks = 1
SYMMETRY Alike
INVARIANTS TypeOK L0NeedsLiveToken BurstIsBounded PermitsAreCounted FilesAreKept  ResearchIsHonest 
PROPERTY BackgroundIsHonest
CHECK_DEADLOCK FALSE

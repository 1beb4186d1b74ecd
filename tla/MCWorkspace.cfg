SPECIFICATION WorkspaceSpec
CONSTANTS
    Drafts = {d1, d2}
    Workers = {w1, w2}
    None = None
    Lease = 1
    Delay <- Delays
    MaxAttempts = 2
    DailyLimit = 1
    MaxNow = 1
    MaxClaims = 2
    Contacts = {c1}
    Positions = {0, 1}
    NeedsApproval = {0}
    StepDelay = 0
    Events = {v1}
    Editors = {r1}
    AnyDraft = d1
    Tokens = {t1, t2, t3}
    Families = {f1, f2}
    Requests = {q1, q2}
    Links = {l1, l2}
    NoToken = NoToken
    NoFamily = NoFamily
    NoLink = NoLink
    Agents = {a1, a2}
    Chats = {h1}
    Callers = {p1, p2, p3}
    MaxMessages = 2
    NoAgent = NoAgent
    NoConversation = NoConversation
    Leads = {lead1}
    Deals = {deal1, deal2}
    Pipelines = {pipe1, pipe2}
    Stages = {s1, s2}
    Clerks = {k1, k2}
    Statuses = {"engaged", "qualified", "lost"}
    MaxEdits = 3
    Nothing = Nothing
    Readers = {g1, g2}
    Writers = {x1, x2}
    MaxWrites = 2
    NoView = NoView
    Projects = {1, 2, 3}
    Tasks = {1, 2}
    Names = {1, 2}
    Clients = {u1, u2}
    MaxWork = 3
    NoProject = NoProject
    NoTask = NoTask
    NoName = NoName
    Nobody = Nobody
    TaskItems = {1, 2}
    CrmItems = {3}
    Jobs = {j1, j2}
    Window = 1
    MaxRecords = 2
    NoMigration = NoMigration
    MaxClock = 1
    MaxDeletes = 1
    Papers = {o1, o2}
    Visitors = {u1}
    NoPaper = NoPaper
    ExecutionKeys = {n1, n2}
    Signals = {i1, i2}
    Gates = {g1, g2}
    NoDecision = NoDecision
    MaxSwitches = 1
    Grants = {y1, y2}
    Credentials = {e1, e2}
    GraphCalls = {m1, m2}
    NoCredential = NoCredential
    MaxCodes = 2
    MaxTokens = 3
    Applicants = {b1, b2}
    Addresses = {x1, x2}
    Assistants = {y1, y2}
    HourlyLimit = 2
    LastHour = 1
    MaxArrivals = 3
    NoAddress = NoAddress
    NoAssistant = NoAssistant
INVARIANTS OutreachSafe SessionsSafe ConversationsSafe CrmSafe CachesSafe RecordsSafe SchemaSafe
PROPERTIES LaunchedStepsStay ImplementsSendItem
CHECK_DEADLOCK FALSE

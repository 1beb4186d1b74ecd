SPECIFICATION CallsSpec
CONSTANTS
    c1 = c1
    c2 = c2
    Executions = {e1, e2}
    Correlations = {c1, c2}
    Asked <- JobRequests
    NoRow = NoRow
    NoGrant = NoGrant
    MaximumAttempts = 2
    Plans <- SomePlans
    Calls <- SomeCalls
    ApprovedCalls = {"a", "b"}
    GuardedCalls = {"a"}
    MaximumRetries = 1
    MaximumRounds = 2
    MaxCalls = 1
    NoText = NoText
    Envelopes <- SomeEnvelopes
    Deliveries = {d1, d2}
    Users = {u1, u2}
    NoMessage = NoMessage
    NoIdentity = NoIdentity
    NoUser = NoUser
    Configurations <- SomeProviders
    Instruments = {i1, i2}
    Wanted = i1
    StaleAfter = 1
    MaxClock = 2
    NoQuote = NoQuote
INVARIANTS JobsSafe OrchestrationSafe TelegramSafe QuotesSafe
PROPERTIES EveryRequestEnds AcceptedUpdatesEnd
CHECK_DEADLOCK FALSE

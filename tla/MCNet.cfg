SPECIFICATION Spec
CONSTANTS
    Inputs <- MCInputs
    Plans <- MCPlans
    Responses <- MCResponses
    BuffSize = 30
    Keepalive = TRUE
    Servlets <- MCServlets
    GlobServlets <- MCGlobServlets
    MaxReads = 2
    ResponseBuffSize = 28
    Callers = {k1, k2}
    Connections = {c1, c2, c3}
    NoConnection = NoConnection
    MaxRequests = 2
INVARIANTS NetTypeOK PartsAsWritten PromiseKeptButAtPort NullWhenRefused RequestAsSent
    LostOnlyWhenPipelined ResponseAsSent EndIsKnown OwnAnswer
PROPERTY EveryRequestAnswered
CHECK_DEADLOCK FALSE

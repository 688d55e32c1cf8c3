SPECIFICATION SessionSpec
CONSTANTS
    Plans <- MCPlans
    BuffSize = 30
    Keepalive = TRUE
    Servlets <- MCServlets
    GlobServlets <- MCGlobServlets
    MaxReads = 2
INVARIANT RequestInAnyPieces
CHECK_DEADLOCK FALSE

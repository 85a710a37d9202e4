SPECIFICATION FairSpec
CONSTANTS
    Client = {c1}
    Limit = 2
    Window = 1
    Correction <- Corrections
    MaxTime = 3
    Slot = {r1, r2}
    Deployment <- Settings
    Requests <- MCRequests
    NoRequest = NoRequest
INVARIANTS TypeOK RateBound AnsweredIsAudited ExecutionIsGated CredentialsStayCovered
PROPERTIES WindowSpec RequestIsAnswered
CHECK_DEADLOCK FALSE

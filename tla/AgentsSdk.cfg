SPECIFICATION FairSpec
CONSTANTS
    Run = {r1, r2}
    NoRun = NoRun
    Deployment <- Settings
    Requests <- MCRequests
    Outputs <- MCOutputs
    ToolCalls <- MCToolCalls
    MaxEvents = 4
INVARIANTS TypeOK TraceIsComplete RecordMatchesAnswer FlaggedNeverRuns SdkRunsAreConfined
PROPERTIES RunIsAnswered
CHECK_DEADLOCK FALSE

SPECIFICATION FairSpec
CONSTANTS
    Run = {r1, r2}
    Deployment <- MCDeployment
    Requests <- MCRequests
    Answers <- MCAnswers
    MaxFaults = 1
    MaxHidden = 2
INVARIANTS TypeOK OneAgentPerName ConsensusIsEarned
PROPERTY OmegaIsAnswered
CHECK_DEADLOCK FALSE

SPECIFICATION FairSpec
CONSTANTS
    Word = {"voice", "private", "code"}
    Enabled <- Deployments
    Wish <- Wishes
    MaxFaults = 1
INVARIANTS TypeOK VerdictIsAboutOutput CompletedIsBacked VerifierStaysLocal LocalCodingFirst
PROPERTY GoalIsAnswered

SPECIFICATION Spec
CONSTANTS
    Word = {"private"}
    Enabled <- CloudAndOllama
    Wish <- Wishes
    MaxFaults = 0
INVARIANT PrivateStaysLocal

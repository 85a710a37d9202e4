SPECIFICATION Spec
CONSTANTS
    Rec = {a, b, c}
    Content = {x, y}
    None = None
    ClientSends <- Plain
    MaxFaults = 0
    MaxStarts = 0
INVARIANT RecallAnswers

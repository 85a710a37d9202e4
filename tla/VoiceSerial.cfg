SPECIFICATION FairSpec
CONSTANTS
    Turn = {t1}
    Record = {r1, r2, r3}
    NoRecord = NoRecord
    Window = 5
    MaxStarts = 2
    MaxFaults = 0
INVARIANT AtMostOnce
PROPERTIES GateSpec StartedIsResolved

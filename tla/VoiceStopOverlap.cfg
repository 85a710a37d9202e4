SPECIFICATION Spec
CONSTANTS
    Turn = {t1, t2}
    Record = {r1}
    NoRecord = NoRecord
    Window = 5
    MaxStarts = 1
    MaxFaults = 0
INVARIANT StoppedDidNotRun

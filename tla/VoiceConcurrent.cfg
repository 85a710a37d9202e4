SPECIFICATION Spec
CONSTANTS
    Turn = {t1, t2}
    Record = {r1, r2, r3}
    NoRecord = NoRecord
    Window = 2
    MaxStarts = 2
    MaxFaults = 1
SYMMETRY Symmetry
INVARIANTS TypeOK StatusHasCause
PROPERTY StopIsFinal

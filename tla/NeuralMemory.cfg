SPECIFICATION Spec
CONSTANTS
    Rec = {a, b, c}
    Content = {x, y}
    None = None
    ClientSends <- Plain
    MaxFaults = 1
    MaxStarts = 1
SYMMETRY Symmetry
INVARIANTS TypeOK   LinksSymmetric
PROPERTY LinksAreKept

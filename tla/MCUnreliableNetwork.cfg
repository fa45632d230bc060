\* Three segments, a window of two, at most three copies in flight.
SPECIFICATION Spec
CONSTANTS
    NumSegs = 3
    Window = 2
    MaxWire = 3
    NoSeg = NoSeg
    EmptySeg = EmptySeg
INVARIANT
    TypeOK
PROPERTIES
    TableSpec

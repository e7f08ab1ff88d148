SPECIFICATION Spec
CONSTANTS
    Terminals = {t1, t2}
    MaxDetectors = 2
    Budget = 3
    Enough = 2
    MaxOps <- MCMaxOps
    None = None
SYMMETRY MCSymmetry
INVARIANTS
    TypeOK
    DetectorSound
    PinKept
CHECK_DEADLOCK FALSE

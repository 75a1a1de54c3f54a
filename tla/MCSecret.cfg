SPECIFICATION Spec
CONSTANTS
    Starts = {s1, s2, s3, s4}
    Absent = Absent
    Blank = Blank
SYMMETRY MCSymmetry
INVARIANTS
    TypeOK
    OneSecret
    CreatedSecretStays
PROPERTIES
    RefusesOnlyUnfinished
    ImplementsRegister

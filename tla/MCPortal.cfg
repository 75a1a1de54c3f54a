CONSTANTS
    Browsers = {b1, b2}
    Handlers = {h1, h2}
    None = None
    Ids <- MCIds
    MacDigits = 2
    Lifetime = 1
    MaxVisits = 2
    MaxCopies = 2
    MaxAttempts = 1
    MaxTime = 1
SPECIFICATION Spec
SYMMETRY MCSymmetry
INVARIANTS
    TypeOK
    UsedOnce
    PresentedInTime
    OneNamePerDevice

SPECIFICATION Spec
CONSTANTS
    Handlers = {h1}
    Sites = {s1, s2}
    Certs = {c1, c2}
    Public = {c1}
    None = None
    Window = 1
    MaxFailures = 2
    PageLimit = 2
    MaxGuesses = 5
    MaxSites = 2
    MaxChanges = 1
    MaxTime = 4
SYMMETRY MCSymmetry
INVARIANTS
    TypeOK
    GuessesBounded
    RefusalsJustified
    SettingsWork
    DiscoveryComplete

SPECIFICATION Spec
CONSTANTS
    g1 = g1
    g2 = g2
    e1 = e1
    e2 = e2
    None = None
    Browsers = {b1, b2}
    Handlers = {r1, r2}
    Identities = {g1, g2}
    Emails = {e1, e2}
    EmailOf <- MCEmailOf
    MaxUsers = 2
    MaxAttempts = 2
    MaxSessions = 2
    MaxResets = 1
SYMMETRY MCSymmetry
INVARIANTS
    TypeOK
    AdminRemains
    SessionsHaveUsers
    HistoryIsKept
    AttemptOnce
PROPERTIES
    BindingPermanent

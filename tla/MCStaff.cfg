SPECIFICATION Spec
CONSTANTS
    u1 = u1
    d1 = d1
    d2 = d2
    d3 = d3
    None = None
    Coupons = {}
    Unlimited <- MCNone
    CouponLimit <- MCNoCoupons
    CouponExpiry <- MCNoCoupons
    Users = {u1}
    StaffLimit <- MCTwoDevices
    StaffMinutes = 2
    Devices = {d1, d2, d3}
    Portal = {1}
    Admins = {1}
    ReservationTTL = 1
    MaxRows = 3
    MaxRevokes = 1
    MaxTime = 2
    MaxLate = 0
    MaxDelay = 1
    Minute = 1
    Forever = 100
    Prompt = TRUE
    SerialStaff = TRUE
SYMMETRY MCSymmetry
INVARIANTS
    StaffWithinLimit
    OnlineIsAccounted
PROPERTIES
    StatusMovesForward

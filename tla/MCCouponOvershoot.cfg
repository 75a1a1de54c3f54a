SPECIFICATION Spec
CONSTANTS
    c1 = c1
    d1 = d1
    d2 = d2
    r1 = r1
    r2 = r2
    None = None
    Coupons = {c1}
    Unlimited <- MCNoUnlimited
    CouponLimit <- MCCouponLimit
    CouponExpiry <- MCCouponExpiry
    Users = {}
    StaffLimit <- MCNoStaff
    StaffMinutes = 1
    Devices = {d1, d2}
    Portal = {r1, r2}
    Admins = {1}
    ReservationTTL = 1
    MaxRows = 3
    MaxRevokes = 1
    MaxTime = 3
    MaxLate = 1
    MaxDelay = 1
    Minute = 2
    Forever = 100
    Prompt = TRUE
    SerialStaff = TRUE
SYMMETRY MCSymmetry
INVARIANTS
    OnlineWithinLimit

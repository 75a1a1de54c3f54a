SPECIFICATION Spec
CONSTANTS
    c1 = c1
    u1 = u1
    d1 = d1
    r1 = r1
    r2 = r2
    None = None
    Coupons = {c1}
    Unlimited = {}
    CouponLimit <- MCCouponLimit
    CouponExpiry <- MCCouponExpiry
    Users = {u1}
    StaffLimit <- MCStaffLimit
    StaffMinutes = 1
    Devices = {d1}
    Portal = {r1, r2}
    Admins = {1}
    ReservationTTL = 1
    MaxRows = 2
    MaxRevokes = 1
    MaxTime = 2
    MaxLate = 1
    MaxDelay = 1
    Minute = 2
    Forever = 100
    Prompt = TRUE
    SerialStaff = TRUE
SYMMETRY MCSymmetry
INVARIANTS
    OnlineIsAccounted
    AccessEnds
    AuditCountsGrants

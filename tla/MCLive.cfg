SPECIFICATION FairSpec
CONSTANTS
    c1 = c1
    u1 = u1
    None = None
    Coupons = {c1}
    Unlimited = {}
    CouponLimit <- MCCouponLimit
    CouponExpiry <- MCCouponExpiry
    Users = {u1}
    StaffLimit <- MCStaffLimit
    StaffMinutes = 1
    Devices = {1}
    Portal = {1}
    Admins = {}
    ReservationTTL = 1
    MaxRows = 2
    MaxRevokes = 0
    MaxTime = 3
    MaxLate = 0
    MaxDelay = 0
    Minute = 1
    Forever = 100
    Prompt = FALSE
    SerialStaff = TRUE
PROPERTIES
    ReservationsSettle
    ExpiredAreRevoked
    RevokedStays

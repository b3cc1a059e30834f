SPECIFICATION TwoSessionsSpec
CONSTANTS
    NoToken = NoToken
    NoFamily = NoFamily
    f1 = f1
    f2 = f2
    d1 = d1
    d2 = d2
    Token = {t1, t2, t3, t4}
    Few = {t1}
    Family <- TwoFamilies
    Proc = {p1}
    Device <- Devices
    DeviceOf <- TwoLabels
    RollingTTL = 2
    AbsoluteTTL = 3
    Grace = 1
    MaxNow = 2
    Ops = {"logoutAll"}
SYMMETRY TokensAlike
INVARIANT SignOutEverywhere

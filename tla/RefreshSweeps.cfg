SPECIFICATION MCSpec
CONSTANTS
    Token = {t1, t2, t3, t4, t5}
    Few = {t1, t2, t3}
    Proc = {p1, p2}
    f1 = f1
    f2 = f2
    d1 = d1
    d2 = d2
    NoToken = NoToken
    NoFamily = NoFamily
    Family <- OneFamily
    Device <- Devices
    DeviceOf <- Label
    RollingTTL = 2
    AbsoluteTTL = 3
    Grace = 1
    MaxNow = 3
    Ops = {"refresh", "abort"}
SYMMETRY Interchangeable
INVARIANT EveryIssueIsJustified
INVARIANT NoTokenOutlivesFamily
INVARIANT SessionsAreSound
PROPERTY DeadStaysDead
PROPERTY SweepsAreComplete
\* Past the bounds of the clock and of tokens a rotated family has nothing left to do.
CHECK_DEADLOCK FALSE

SPECIFICATION MCSpec
CONSTANTS
    Tries = {p1, p2}
    Threshold = 2
    BaseDelay = 1
    MaxDelay = 4
    Lookback = 3
    Limit = 4
    LastInstant = 4
    Faults = {"lost", "lag"}
    Requests = {p1, p2}
    NoUser = NoUser
    NoAddress = NoAddress
    NoPassword = NoPassword
    NoLink = NoLink
    NoSession = NoSession
    User = {u1}
    Address = {a1, a2}
    Password = {w1, w2}
    Link = {l1, l2}
    Family = {s1}
    AccountOps = {"register", "login", "rehash", "change", "verify_email", "reset_password", "change_email", "abort"}
    Grant = {g1}
    Command = {c1, c2}
    Nobody = Nobody
    NoCall = NoCall
    Proc = {p1, p2}
    Thread = {}
    Grace = 1
    SessionTTL = 2
    AccessTTL = 1
    CacheTTL = 0
    MaxNow = 3
    MaxGen = 3
    Ops = {"login", "timeout", "logout", "revoke"}
SYMMETRY Alike
INVARIANT PassedOnlyIfOvertaken
INVARIANT AccountsHold
INVARIANT TurnsAreTaken
PROPERTY RefusalsNeverExtend
PROPERTY KeepsTheStreak
\* Past the bound of the clock no row has a stamp left to take, and the ids of
\* links and sessions run out.
CHECK_DEADLOCK FALSE

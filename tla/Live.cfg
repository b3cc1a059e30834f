SPECIFICATION LiveSpec
CONSTANTS
    Token = {1, 2, 3, 4}
    Proc = {p1, p2}
    f1 = f1
    d1 = d1
    d2 = d2
    NoToken = NoToken
    NoFamily = NoFamily
    Family <- OneFamily
    Device <- Devices
    DeviceOf <- Label
    RollingTTL = 1
    AbsoluteTTL = 1
    Grace = 0
    MaxNow = 2
    Ops = {"refresh", "deactivate"}
    Grant = {g1}
    Command = {c1, c2}
    Nobody = Nobody
    NoCall = NoCall
    StreamItems = {i1}
    EventNames = {"MODIFY", "REMOVE"}
    WantedNames = {"REMOVE"}
    FirstSequence = 8
    MaxRecords = 3
    MaxRaises = 2
PROPERTY EveryRequestEnds
PROPERTY SettledRowsDie
PROPERTY RefusedFamilyDies
PROPERTY WorkIsTakenToItsEnd
\* A user who is gone presents nothing, and past the bound of the clock or of
\* rotations no command has anything left to do.
CHECK_DEADLOCK FALSE

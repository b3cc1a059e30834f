SPECIFICATION Spec
CONSTANTS
    Nothing = Nothing
    Device = {d1, d2}
    UserCode = {c1}
    Scope = {s1}
    User = {u1}
    Tab = {b1, b2}
    Proc = {p1, p2}
    Grant = {g1, g2}
    CodeTTL = 2
    Interval = 1
    MaxNow = 3
    MaxInterval = 1
    Ops = {"scopes", "sweep"}
SYMMETRY Interchangeable
INVARIANT CodesAreCollectedOnce
INVARIANT DenialsStand
INVARIANT ApprovedAsShown
PROPERTY PaceIsKept
\* Device codes run out and the clock stops.
CHECK_DEADLOCK FALSE

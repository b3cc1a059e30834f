SPECIFICATION Spec
CONSTANTS
    Nobody = Nobody
    Grant = {g1}
    Proc = {p1, p2}
    Thread = {t1}
    Grace = 1
    SessionTTL = 3
    CacheTTL = 1
    MaxNow = 3
    MaxGen = 3
    Ops = {"barred", "revoke", "resource"}
SYMMETRY Interchangeable
INVARIANT ReuseIsOutsideTheWindow
INVARIANT RevocationBitesSoon
PROPERTY EndedGrantsStand

SPECIFICATION Spec
CONSTANTS
    Nobody = Nobody
    Grant = {g1}
    Proc = {p1, p2}
    Thread = {}
    Grace = 1
    SessionTTL = 4
    CacheTTL = 1
    MaxNow = 4
    MaxGen = 3
    Ops = {}
SYMMETRY Interchangeable
INVARIANT LostRacesAreForgiven

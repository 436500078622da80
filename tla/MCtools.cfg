CONSTANTS
    Session = {s1}
    Gen = {g1, g2}
    Worker = {w1, w2}
    Tool = {t1}
    NoSession = NoSession
    NoTool = NoTool
    MaxSeq = 2
    Failures = {"setup", "io"}
SPECIFICATION Spec
SYMMETRY PoolSymmetry
INVARIANTS
    ReservationAccounted
    SoleHolder
    ClaimsAccounted
    EpochInv
PROPERTIES
    ReservationNotStolen

CONSTANTS
    Session = {s1}
    Gen = {g1, g2}
    Worker = {w1}
    Tool = {t1, t2}
    NoSession = NoSession
    NoTool = NoTool
    MaxSeq = 1
    Failures = {"thread", "io"}
SPECIFICATION Spec
SYMMETRY PoolSymmetry
INVARIANTS
    ReservationAccounted
    ClaimsInv
CHECK_DEADLOCK FALSE

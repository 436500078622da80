CONSTANTS
    Session = {s1}
    Gen = {g1, g2}
    Worker = {w1}
    Tool = {t1}
    NoSession = NoSession
    NoTool = NoTool
    MaxSeq = 1
    Failures = {}
SPECIFICATION Spec
SYMMETRY PoolSymmetry
PROPERTIES
    FastToolContinues

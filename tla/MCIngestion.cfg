CONSTANTS
    p = p  q = q  v1 = v1  v2 = v2  v3 = v3
    None = None
    Worker = {w1}
    Event = {e1}
    Policy = {p, q}
    Version = {v1, v2}
    PolicySeverity = {"MEDIUM", "HIGH"}
    Plugin <- TwoFamilies
    Deployed <- TwoFamilies
SPECIFICATION Spec
INVARIANTS StatusMatchesFindings ShadowsObserveOnly
PROPERTIES WholeVerdict

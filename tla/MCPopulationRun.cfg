CONSTANTS
    r1 = r1  r2 = r2  e1 = e1  a1 = a1  a2 = a2  v1 = v1  k1 = k1  k2 = k2
    None = None
    Runner = {r1, r2}
    Event = {e1}
    Attribute = {a1, a2}
    Policy = {p}
    Parameter = {x}
    Version = {v1, v2}
    Deployed = {v1}
    LastDay = 1
    SigningKey = {k1, k2}
    KeyOf <- MCKeyOf
    SpellingOf <- MCSpellingOf
SPECIFICATION Spec
SYMMETRY Symm
INVARIANTS OneSnapshot ExitZeroMeansComputed FindingsVerify ChangedFindingLocated
PROPERTIES FindingsStand

CONSTANTS
    w1 = w1  w2 = w2  a1 = a1  a2 = a2  e1 = e1  e2 = e2  s1 = s1  k1 = k1  k2 = k2
    None = None
    Worker = {w1, w2}
    Admin = {a1}
    Event = {e1, e2}
    System = {s1}
    Domain = {d1}
    NoDomain = NoDomain
    Status <- MCStatus
    Reviewable = {}
    SystemOf <- MCSystemOf
    Key = {k1}
    KeyOf <- MCOneKey
    MaxSeq = 2
SPECIFICATION LiveSpec
INVARIANTS ChainLinked OneRecordPerEvent RulesApplied
PROPERTIES LedgerSpec RequestsEnd

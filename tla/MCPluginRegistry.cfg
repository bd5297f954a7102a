CONSTANTS
    v1 = v1  v2 = v2  v3 = v3  t1 = t1  t2 = t2  t3 = t3
    None = None
    Version = {v1, v2, v3}
    Tx = {t1, t2}
SPECIFICATION LiveSpec
INVARIANTS OneProduction
PROPERTIES ProductionKept LifecycleSpec RequestsEnd

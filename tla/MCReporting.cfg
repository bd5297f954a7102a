CONSTANTS
    e1 = e1  f1 = f1
    None = None
    Event = {e1}
    PopulationFinding = {f1}
    LastDay = 3
    ClockStops <- MCClockStops
    Requested <- MCRequested
    Retention <- MCRetention
SPECIFICATION Spec
INVARIANTS ReportClosed MetricsAgree
PROPERTIES RegenerationAddsLateOnly PurgeIsExact

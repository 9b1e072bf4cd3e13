\* One caller at a time, every operation and every option.
SPECIFICATION SerialSpec
CONSTANTS
    a1 = a1  a2 = a2  p1 = p1  p2 = p2  s1 = s1  s2 = s2  f1 = f1
    None = None
    Actors = {a1}
    Services = {s1}
    Procs = {p1}
    Flows = {f1}
    ProcOf <- OneProcess
    FlowsOf <- SharedFlow
    Calls <- AllCalls
    HasDiscovery = TRUE
    HasLogs = TRUE
    HasTraces = TRUE
    SaveMayFail = TRUE
    MaxTime = 2
    MaxEvents = 3
CHECK_DEADLOCK FALSE
PROPERTIES ImplementsJournal

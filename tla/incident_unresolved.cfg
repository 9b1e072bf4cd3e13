\* A command that adds a note while another resolves the incident.
SPECIFICATION Spec
CONSTANTS
    a1 = a1  a2 = a2  p1 = p1  p2 = p2  s1 = s1  s2 = s2  f1 = f1
    None = None
    Actors = {a1, a2}
    Services = {s1}
    Procs = {p1, p2}
    Flows = {f1}
    ProcOf <- TwoProcesses
    FlowsOf <- SharedFlow
    Calls = {"Start", "Note", "ResolveWithAnalysis"}
    HasDiscovery = FALSE
    HasLogs = FALSE
    HasTraces = FALSE
    SaveMayFail = FALSE
    MaxTime = 1
    MaxEvents = 3
CHECK_DEADLOCK FALSE
PROPERTIES ResolvedIsFinal

\* Two processes: commands that start, annotate, view and resolve.
SPECIFICATION Spec
CONSTANTS
    a1 = a1  a2 = a2  p1 = p1  p2 = p2  s1 = s1  s2 = s2  f1 = f1
    None = None
    Actors = {a1, a2}
    Services = {s1}
    Procs = {p1, p2}
    Flows = {f1}
    ProcOf <- TwoProcesses
    FlowsOf <- SharedFlow
    Calls = {"Start", "ResolveWithAnalysis", "Note", "View"}
    HasDiscovery = FALSE
    HasLogs = FALSE
    HasTraces = TRUE
    SaveMayFail = FALSE
    MaxTime = 1
    MaxEvents = 2
CHECK_DEADLOCK FALSE
INVARIANTS FilesConsistent
PROPERTIES SettledIsFinal

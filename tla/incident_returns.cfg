\* Incidents of two services created in the same seconds, under fair scheduling.
SPECIFICATION FairSpec
CONSTANTS
    a1 = a1  a2 = a2  p1 = p1  p2 = p2  s1 = s1  s2 = s2  f1 = f1
    None = None
    Actors = {a1, a2}
    Services = {s1, s2}
    Procs = {p1}
    Flows = {f1}
    ProcOf <- OneProcess
    FlowsOf <- PartFlow
    Calls = {"Suggest"}
    HasDiscovery = FALSE
    HasLogs = FALSE
    HasTraces = FALSE
    SaveMayFail = TRUE
    MaxTime = 3
    MaxEvents = 1
CHECK_DEADLOCK FALSE
INVARIANTS TypeOK
PROPERTIES IdentityKept CallsReturn

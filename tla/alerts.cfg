\* Two workers, a reload, repeated deliveries, failing calls, and people who
\* promote and resolve meanwhile.
SPECIFICATION Spec
CONSTANTS
    s1 = s1  s2 = s2  f1 = f1  k1 = k1  k2 = k2
    None = None
    Workers = {w1, w2}
    Services = {s1, s2}
    Flow <- OneFlow
    Keys = {k1, k2}
    Alerts <- MCAlerts
    RuleSets <- MCRuleSets
    Stored <- OneSuggested
    Ttl = 1
    Fresh = 1
    MaxSends = 2
    MaxTime = 2
    MaxFailed = 1
CHECK_DEADLOCK FALSE
SYMMETRY WorkerSymmetry
INVARIANTS TypeOK ReloadTakesEffect IncidentsAccounted
PROPERTIES Consolidated

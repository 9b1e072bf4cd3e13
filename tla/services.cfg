\* The cache of flows, the notifiers, the monitor of objectives, the telemetry of
\* incidents, the first set-up, the reports, the client of Prometheus and the
\* analyses, one at a time, with the fairness of each.
SPECIFICATION FairSpec
CONSTANTS
    Subjects = {"Catalog", "Notify", "Monitor", "Recorder", "Setup", "Score", "Toil", "Client", "Latency", "Apm"}
    SloKinds = {"ratio", "query"}
    None = None
    Slos = {"a"}
    MaxRequests = 2
    Offered = {"prometheus", "loki", "grafana", "trace"}
    Profiles = {"p", "q"}
    Kinds <- MCKinds
    Toils = {1}
    FlowsOf <- MCFlowsOf
    Created <- MCCreated
    Capacity = 0
    ToilTarget = 20
    MonthLength = 2
    CacheTtl = 1
    MaxIncidents = 2
    MaxItems = 1
    MaxReports = 1
    ToilServices = {1, 2}
    Categories = {"c", "d"}
    Minutes = {0, 2}
    Sources = {"nothing", "pattern"}
    RateOf <- MCRateOf
    Fallback = 1
    Top = 1
    ToilTime = 1
    Window = 1
    Loaders = {"a", "b"}
    NoOnce = 0
    MaxVersion = 2
    Callers = {"c1", "c2"}
    Threshold = 2
    MaxRetries = 1
    SlackRetries = 3
    PdAttempts = 5
    Ids = {"i1", "i2"}
    Services = {"a", "b"}
    ServiceOf <- MCServiceOf
    Size = 2
    MaxTime = 2
    NoId = "none"
    Goroutines = {"g1", "g2"}
    ClientRetries = 2
    Interval = 1
    Backoffs <- MCBackoffs
    MaxCalls = 1
    Latencies <- MCLatencies
    Requests <- MCRequests
    Form <- MCForm
    Hint <- MCHint
    Fallbacks <- MCFallbacks
    RouteLabels <- MCRouteLabels
    ServiceLabels <- MCServiceLabels
    ErrorLabels <- MCErrorLabels
    Worlds <- MCWorlds
    Configs <- MCConfigs
    BaselineOf <- MCBaselineOf
    SlowLimit = 3
    Metrics <- MCMetrics
    SourceNames <- MCSourceNames
    DestNames <- MCDestNames
    RouteNames <- MCRouteNames
    Many = 3
    Graphs <- MCGraphs
    ApmConfigs <- MCApmConfigs
CHECK_DEADLOCK FALSE
INVARIANTS TypeOK SavingsWithinCost NamesFetchedOnce DiscoveryFits HighIsCompared
PROPERTIES FreshUnlessRaced TripsOnFailures Recovers FiringSettles OnlySeedIsForeign SeedReachesLifecycle WorseIsNoBetter DiscoveryEnds CallsEnd

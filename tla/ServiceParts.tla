----------------------------- MODULE ServiceParts -----------------------------
(***************************************************************************)
(* The parts of the tool that run unattended, or only read: the cache of   *)
(* flows, the notifiers, the monitor of objectives, the telemetry of       *)
(* incidents, the first set-up with its discovery in the background, the   *)
(* scorecard, the report of toil, the client of Prometheus, and the        *)
(* analyses of latency and of dependencies. Each is an instance with       *)
(* variables of its own; what they promise is stated here for TLC and the  *)
(* proofs alike.                                                           *)
(***************************************************************************)

CONSTANTS
    Loaders, NoOnce, MaxVersion,
    Callers, Threshold, MaxRetries, SlackRetries, PdAttempts,
    Slos, SloKinds, MaxRequests,
    Ids, Services, ServiceOf, Size, MaxTime, NoId,
    Offered,
    Profiles, Kinds, Toils, FlowsOf, Created, Capacity, ToilTarget, MonthLength, CacheTtl,
    MaxIncidents, MaxItems, MaxReports,
    ToilServices, Categories, Minutes, Sources, RateOf, Fallback, Top, ToilTime, Window,
    Goroutines, ClientRetries, Interval, Backoffs, MaxCalls, None,
    Latencies, Requests, Form, Hint, Fallbacks, RouteLabels, ServiceLabels,
    ErrorLabels, Worlds, Configs, BaselineOf,
    SlowLimit,          \* for the P95
    Metrics, SourceNames, DestNames, RouteNames, Many, Graphs, ApmConfigs

VARIABLES
    subject,            \* the part whose steps a run explores
    disk, manifest, polled, once, done, cached, mine, read, loaderPc, base, raced,
    kind, up, breaker, failCount, cooled, notifyPc, round, attempt, expired, failed,
    kindOf, requests, failures, reachable, monitorTodo, results, handling, firing,
    now, window, daemon, running, latest, checked, todo, state, recorderPc, buffer,
    seed, lifecycle, kept,
    step, backends, urls, creds, infra, testing, result, tests, discovery,
    scoreNow, incidents, items, active, cache, shown, reports,
    toilNow, toilIncidents, toilShown,
    server, rest, clientPc, asked, wait, clientAttempt, answer, calls, names, series,
    lock,
    world, latencyUp, steady, named, latencyKnown, cfg, latencyPc, toScore, scored,
    routeForRps, analysis, report,
    graph, online, asks, apmStep, metric, labels, seen, edges, suspect

Catalog == INSTANCE FlowCatalog WITH pc <- loaderPc
Notify == INSTANCE Notifier WITH pc <- notifyPc
Monitor == INSTANCE SloMonitor WITH Kinds <- SloKinds, todo <- monitorTodo
Recorder == INSTANCE Telemetry WITH pc <- recorderPc
Setup == INSTANCE SetupWizard
Score == INSTANCE ScorecardReport WITH now <- scoreNow
Toil == INSTANCE ToilReport WITH
    Services <- ToilServices, MaxTime <- ToilTime, now <- toilNow,
    incidents <- toilIncidents, shown <- toilShown
Client == INSTANCE PromClient WITH
    Callers <- Goroutines, MaxRetries <- ClientRetries, pc <- clientPc,
    attempt <- clientAttempt
Latency == INSTANCE ApiLatency WITH
    Threshold <- SlowLimit, up <- latencyUp, known <- latencyKnown, pc <- latencyPc,
    result <- analysis
Apm == INSTANCE ApmGraph WITH step <- apmStep

\* What the proofs assume of the constants.
ASSUME CatalogAssumption == Catalog!ConstantsAssumption
ASSUME NotifyAssumption == Notify!ConstantsAssumption
ASSUME MonitorAssumption == Monitor!ConstantsAssumption
ASSUME RecorderAssumption == Recorder!ConstantsAssumption
ASSUME SetupAssumption == Setup!ConstantsAssumption
ASSUME ScoreAssumption == Score!ConstantsAssumption
ASSUME ToilAssumption == Toil!ConstantsAssumption
ASSUME ClientAssumption == Client!ConstantsAssumption
ASSUME LatencyAssumption == Latency!ConstantsAssumption
ASSUME ApmAssumption == Apm!ConstantsAssumption

\* ------------------------------ properties -------------------------------

\* Every variable of the part that is at work has its type, whichever it is.
TypeOK ==
    /\ subject = "Catalog" => Catalog!TypeOK
    /\ subject = "Notify" => Notify!TypeOK
    /\ subject = "Monitor" => Monitor!TypeOK
    /\ subject = "Recorder" => Recorder!TypeOK
    /\ subject = "Setup" => Setup!TypeOK
    /\ subject = "Score" => Score!TypeOK
    /\ subject = "Toil" => Toil!TypeOK
    /\ subject = "Client" => Client!TypeOK
    /\ subject = "Latency" => Latency!TypeOK
    /\ subject = "Apm" => Apm!TypeOK

\* A load of the flows that met no other one returns what the files held at the
\* last invalidation or later (flow/loader.go).
FreshUnlessRaced == Catalog!FreshUnlessRaced

\* The circuit breaker opens on as many failures as configured since it last
\* closed (slack/resilience.go).
TripsOnFailures == Notify!TripsOnFailures

\* Snapshots of other incidents come from the seed only (incident/service.go).
OnlySeedIsForeign == Recorder!OnlySeedIsForeign

\* The seed of an incident is in its lifecycle (ml/lifecycle_recorder.go).
SeedReachesLifecycle == Recorder!SeedReachesLifecycle

\* The names of the metrics are fetched once (analyse/prometheus).
NamesFetchedOnce == Client!NamesFetchedOnce

\* What is discovered has data, and labels that are there (analyse/api_latency).
DiscoveryFits == Latency!DiscoveryFits

\* What could be saved was spent (incident/toil_analytics.go).
SavingsWithinCost == Toil!SavingsWithinCost

\* An incident makes no score better (scorecard/service.go).
WorseIsNoBetter == Score!WorseIsNoBetter

\* High confidence has a baseline (analyse/apm).
HighIsCompared == Apm!HighIsCompared

=============================================================================

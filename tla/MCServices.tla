----------------------------- MODULE MCServices -----------------------------
(***************************************************************************)
(* The parts of ServiceParts for TLC. They have nothing in common: each    *)
(* behaviour is of one of them, the subject, and the others stay in their  *)
(* initial state.                                                          *)
(***************************************************************************)
EXTENDS ServiceParts, Naturals, Sequences, TLC

CONSTANTS Subjects

catalog == <<disk, manifest, polled, once, done, cached, mine, read, loaderPc, base,
             raced>>
notify == <<kind, up, breaker, failCount, cooled, notifyPc, round, attempt, expired,
            failed>>
monitor == <<kindOf, requests, failures, reachable, monitorTodo, results, handling, firing>>
recorder == <<now, window, daemon, running, latest, checked, todo, state,
              recorderPc, buffer, seed, lifecycle, kept>>
setup == <<step, backends, urls, creds, infra, testing, result, tests, discovery>>
score == <<scoreNow, incidents, items, active, cache, shown, reports>>
toil == <<toilNow, toilIncidents, toilShown>>
client == <<server, rest, clientPc, asked, wait, clientAttempt, answer, calls, names,
            series, lock>>
latency == <<world, latencyUp, steady, named, latencyKnown, cfg, latencyPc, toScore, scored,
             routeForRps, analysis, report>>
apm == <<graph, online, asks, apmStep, metric, labels, seen, edges, suspect>>

Kind(p, s, v) == [profile |-> p, service |-> s, severity |-> v]

MCKinds == {Kind("p", "a", "P1"), Kind("q", "b", "P3")}
MCFlowsOf == [p \in {"p", "q"} |-> {<<"a">>}]
MCCreated == [p \in {"p", "q"} |-> IF p = "p" THEN 0 ELSE 1]
MCRateOf == [p \in {"p", "q"} |-> IF p = "p" THEN 2 ELSE 0]

MCServiceOf == [i \in {"i1", "i2"} |-> "a"]

MCBackoffs == <<1, 2>>

MCLatencies == <<"h", "q">>
MCRequests == <<"r", "t">>
MCFallbacks == <<"h">>
MCRouteLabels == <<"path">>
MCServiceLabels == <<"service">>
MCErrorLabels == <<"status", "code">>
MCBaselineOf == <<2, 4, 4>>

MCMetrics == <<"m", "n">>
MCSourceNames == <<"src">>
MCDestNames == <<"dst">>
MCRouteNames == <<"route", "dst">>

\* Metrics of the analysis of latency: a histogram h, a summary q, and counters r
\* and t. A rate and a P95 are of four windows.
Counter(tags, rate) == [tags |-> tags, rate |-> rate, p95 |-> <<0, 0, 0, 0>>]
Timer(tags, rate, p95) == [tags |-> tags, rate |-> rate, p95 |-> p95]
Busy == <<2, 2, 2, 2>>
Idle == <<None, 2, 2, 2>>
Slow == <<6, 2, 2, 2>>
AtX == [service |-> "a", path |-> "x"]
Served(status, rate) == Counter([service |-> "a", path |-> "x", status |-> status], rate)
World(h, q, r, t, strict, alerts) ==
    [metrics |-> [h |-> h, q |-> q, r |-> r, t |-> t], strict |-> strict, alerts |-> alerts]

\* A spike with errors; a summary and a counter of routes without a service; two
\* services that were idle of late; traffic by route; traffic alone.
MCWorlds ==
    {World({Timer(AtX, Busy, Slow)}, {}, {Served("ok", Busy), Served("5xx", <<6, 2, 2, 2>>)}, {},
           strict, FALSE) : strict \in BOOLEAN}
    \cup
    {World({}, {Timer([service |-> "a"], Busy, Slow)}, {},
           {Counter([path |-> "x", code |-> "5xx"], Busy), Counter([path |-> "y"], Busy)}, TRUE, FALSE),
     World({Timer(AtX, Idle, Busy), Timer([service |-> "b", path |-> "y"], Idle, Busy)},
           {Timer([service |-> "a"], Busy, <<4, 2, 2, 2>>)},
           {Served("5xx", Idle), Served("ok", <<None, 4, 4, 4>>)},
           {Counter([service |-> "b", status |-> "ok"], Busy)}, TRUE, TRUE),
     World({Timer([path |-> "x"], Busy, Busy)}, {}, {Served("ok", Busy)},
           {Counter([path |-> "x"], Busy), Counter([path |-> "y"], Busy)}, FALSE, FALSE),
     World({}, {}, {Served("ok", Busy)}, {}, TRUE, FALSE)}

Check(auto, services, service, route, path, limit) ==
    [auto |-> auto, latency |-> IF auto THEN None ELSE "h", requests |-> IF auto THEN None ELSE "r",
     services |-> services, service |-> service, route |-> route, path |-> path, error |-> None,
     routeLimit |-> limit, serviceLimit |-> 2]

\* Everything is discovered, of one service, or with a label of one's own; or
\* nothing is, with one label, two of them, or labels that are not there.
MCConfigs ==
    {Check(TRUE, << >>, None, None, None, 2), Check(TRUE, << >>, "a", None, None, 3),
     Check(TRUE, <<"region">>, None, None, None, 3), Check(FALSE, <<"service">>, "a", "path", None, 2),
     Check(FALSE, <<"service", "app">>, "a", "path", "x", 2),
     Check(FALSE, <<"app">>, None, "url", None, 2)}

MCForm == [m \in {"h", "q"} |-> IF m = "h" THEN "histogram" ELSE "summary"]
MCHint == [m \in {"h", "q", "r", "t"} |-> IF m = "h" THEN 15 ELSE 0]

Series(tags, p95, before, rps) == [tags |-> tags, p95 |-> p95, base |-> before, rps |-> rps]
Calls(from, to) == [src |-> from, dst |-> to]

\* Two hops, one of them silent; routes without a source, one of them idle; one
\* edge of two routes; nothing.
MCGraphs ==
    {[m |-> {Series(Calls("a", "b"), 14, 2, 12), Series(Calls("b", "c"), 30, 30, 4),
             Series(Calls("a", "c"), 14, 2, 0)}, n |-> {}],
     [m |-> {}, n |-> {Series([dst |-> "b", route |-> "x"], 14, 2, 12),
                       Series([dst |-> "c", route |-> "y"], None, 3, 0)}],
     [m |-> {Series([src |-> "a", dst |-> "b", route |-> "x"], 9, 2, 3),
             Series([src |-> "a", dst |-> "b", route |-> "y"], 1, 2, 3),
             Series([src |-> "b", route |-> "y"], 4, 1, 2)}, n |-> {}],
     [m |-> {}, n |-> {}]}

Ask(given, source, service, path, limit, top, minRps) ==
    [metric |-> given, source |-> source, dest |-> IF source = None THEN None ELSE "dst",
     route |-> None, service |-> service, path |-> path, limit |-> limit, top |-> top,
     minRps |-> minRps]

MCApmConfigs ==
    {Ask(None, None, None, None, 9, 0, 0), Ask(None, None, None, None, 9, 2, 2),
     Ask("m", "src", "a", "x", 3, 2, 2), Ask(None, "src", "a", None, 2, 2, 5),
     Ask(None, "app", None, None, 2, 0, 0)}

\* All others keep still in the first of their initial states.
Init ==
    /\ subject \in Subjects
    /\ Catalog!Init
    /\ Notify!Init
    /\ subject = "Notify" \/ kind = "slack"
    /\ Monitor!Init
    /\ subject = "Monitor" \/ (\A s \in Slos : kindOf[s] = CHOOSE k \in SloKinds : TRUE)
    /\ Recorder!Init
    /\ Setup!Init
    /\ subject = "Setup" \/ infra = {}
    /\ Score!Init
    /\ subject = "Score" \/ active = "p"
    /\ Toil!Init
    /\ Client!Init
    /\ Latency!Init
    /\ subject = "Latency" \/ ((world = CHOOSE w \in Worlds : TRUE) /\ (cfg = CHOOSE c \in Configs : TRUE))
    /\ Apm!Init
    /\ subject = "Apm" \/ ((graph = CHOOSE g \in Graphs : TRUE) /\ (asks = CHOOSE a \in ApmConfigs : TRUE))

Only(name) ==
    /\ UNCHANGED subject
    /\ IF name = "Catalog" THEN TRUE ELSE UNCHANGED catalog
    /\ IF name = "Notify" THEN TRUE ELSE UNCHANGED notify
    /\ IF name = "Monitor" THEN TRUE ELSE UNCHANGED monitor
    /\ IF name = "Recorder" THEN TRUE ELSE UNCHANGED recorder
    /\ IF name = "Setup" THEN TRUE ELSE UNCHANGED setup
    /\ IF name = "Score" THEN TRUE ELSE UNCHANGED score
    /\ IF name = "Toil" THEN TRUE ELSE UNCHANGED toil
    /\ IF name = "Client" THEN TRUE ELSE UNCHANGED client
    /\ IF name = "Latency" THEN TRUE ELSE UNCHANGED latency
    /\ IF name = "Apm" THEN TRUE ELSE UNCHANGED apm

CatalogNext ==
    \/ subject = "Catalog" /\ Catalog!Edit /\ Only("Catalog")
    \/ subject = "Catalog" /\ Catalog!Poll /\ Only("Catalog")
    \/ subject = "Catalog" /\ Catalog!InvalidateCache /\ Only("Catalog")
    \/ \E l \in Loaders : subject = "Catalog" /\ Catalog!Look(l) /\ Only("Catalog")
    \/ \E l \in Loaders : subject = "Catalog" /\ Catalog!Install(l) /\ Only("Catalog")
    \/ \E l \in Loaders : subject = "Catalog" /\ Catalog!ReadFiles(l) /\ Only("Catalog")
    \/ \E l \in Loaders : subject = "Catalog" /\ Catalog!Store(l) /\ Only("Catalog")
    \/ \E l \in Loaders : subject = "Catalog" /\ Catalog!Return(l) /\ Only("Catalog")

NotifyNext ==
    \/ subject = "Notify" /\ Notify!Cool /\ Only("Notify")
    \/ subject = "Notify" /\ Notify!Switch /\ Only("Notify")
    \/ \E c \in Callers : subject = "Notify" /\ Notify!Begin(c) /\ Only("Notify")
    \/ \E c \in Callers : subject = "Notify" /\ Notify!Send(c) /\ Only("Notify")
    \/ \E c \in Callers : subject = "Notify" /\ Notify!Backoff(c) /\ Only("Notify")
    \/ \E c \in Callers : subject = "Notify" /\ Notify!Again(c) /\ Only("Notify")
    \/ \E c \in Callers : subject = "Notify" /\ Notify!Record(c) /\ Only("Notify")
    \/ \E c \in Callers : subject = "Notify" /\ Notify!Expire(c) /\ Only("Notify")

MonitorNext ==
    \/ subject = "Monitor" /\ Monitor!Tick /\ Only("Monitor")
    \/ subject = "Monitor" /\ Monitor!Outage /\ Only("Monitor")
    \/ \E s \in Slos : subject = "Monitor" /\ Monitor!Check(s) /\ Only("Monitor")
    \/ \E s \in Slos : subject = "Monitor" /\ Monitor!Change(s) /\ Only("Monitor")
    \/ \E r \in results : subject = "Monitor" /\ Monitor!Handle(r) /\ Only("Monitor")

RecorderNext ==
    \/ subject = "Recorder" /\ Recorder!StartDaemon /\ Only("Recorder")
    \/ subject = "Recorder" /\ Recorder!StopDaemon /\ Only("Recorder")
    \/ subject = "Recorder" /\ Recorder!Tick /\ Only("Recorder")
    \/ \E s \in Services : subject = "Recorder" /\ Recorder!Scan(s) /\ Only("Recorder")
    \/ \E i \in Ids :
          subject = "Recorder" /\ Recorder!StartIncident(i) /\ Only("Recorder")
    \/ \E i \in Ids :
          subject = "Recorder" /\ Recorder!Lookback(i) /\ Only("Recorder")
    \/ \E i \in Ids :
          subject = "Recorder" /\ Recorder!Resolve(i) /\ Only("Recorder")
    \/ \E i \in Ids :
          subject = "Recorder" /\ Recorder!Collect(i) /\ Only("Recorder")
    \/ \E i \in Ids :
          subject = "Recorder" /\ Recorder!RemoveSeed(i) /\ Only("Recorder")
    \/ \E i \in Ids :
          subject = "Recorder" /\ Recorder!WriteLifecycle(i) /\ Only("Recorder")
    \/ \E i \in Ids : subject = "Recorder" /\ Recorder!Exit(i) /\ Only("Recorder")

SetupNext ==
    \/ subject = "Setup" /\ step.ask # "done" /\ Setup!ProfileName /\ Only("Setup")
    \/ subject = "Setup" /\ step.ask # "done" /\ Setup!ChooseBackends /\ Only("Setup")
    \/ subject = "Setup" /\ step.ask # "done" /\ Setup!AnswerTail /\ Only("Setup")
    \/ \E filled \in BOOLEAN :
          subject = "Setup" /\ step.ask # "done" /\ Setup!AnswerInfra(filled) /\ Only("Setup")
    \/ \E filled \in BOOLEAN :
          subject = "Setup" /\ step.ask # "done" /\ Setup!AnswerUrl(filled) /\ Only("Setup")
    \/ \E filled \in BOOLEAN :
          subject = "Setup" /\ step.ask # "done" /\ Setup!AnswerAuth(filled) /\ Only("Setup")
    \/ subject = "Setup" /\ step.ask # "done" /\ Setup!GiveUp /\ Only("Setup")
    \/ \E b \in tests :
          subject = "Setup" /\ step.ask # "done" /\ Setup!TestReturns(b) /\ Only("Setup")
    \/ subject = "Setup" /\ step.ask # "done" /\ Setup!GlobalMetadata /\ Only("Setup")
    \/ subject = "Setup" /\ step.ask # "done" /\ Setup!ServicesReturn /\ Only("Setup")
    \/ subject = "Setup" /\ step.ask # "done" /\ Setup!DeepDiscovery /\ Only("Setup")

ScoreNext ==
    \/ subject = "Score" /\ Score!Tick /\ Only("Score")
    \/ \E k \in Kinds : subject = "Score" /\ Score!OpenIncident(k) /\ Only("Score")
    \/ \E i \in incidents, h \in Toils :
          subject = "Score" /\ Score!ResolveIncident(i, h) /\ Only("Score")
    \/ \E p \in Profiles, s \in Services :
          subject = "Score" /\ Score!AddItem(p, s) /\ Only("Score")
    \/ \E a \in items : subject = "Score" /\ Score!CompleteItem(a) /\ Only("Score")
    \/ \E p \in Profiles, t \in Services \cup {None}, m \in 0..1 :
          subject = "Score" /\ Score!Report(p, t, m) /\ Only("Score")
    \/ \E m \in 0..1 : subject = "Score" /\ Score!OrgReport(m) /\ Only("Score")

ToilNext ==
    \/ subject = "Toil" /\ Toil!Tick /\ Only("Toil")
    \/ \E p \in Profiles, s \in ToilServices, c \in Categories, m \in Minutes, e \in Sources :
          subject = "Toil" /\ Toil!Resolve(p, s, c, m, e) /\ Only("Toil")
    \/ \E p \in Profiles : subject = "Toil" /\ Toil!ListProfile(p) /\ Only("Toil")
    \/ \E p \in Profiles : subject = "Toil" /\ Toil!ReportAll(p) /\ Only("Toil")
    \/ \E i \in toilIncidents : subject = "Toil" /\ Toil!ListIncident(i) /\ Only("Toil")
    \/ subject = "Toil" /\ Toil!ListAll /\ Only("Toil")

ClientNext ==
    \/ subject = "Client" /\ Client!Tick /\ Only("Client")
    \/ \E s \in {"up", "failing", "refusing"} :
          subject = "Client" /\ Client!Turn(s) /\ Only("Client")
    \/ \E c \in Goroutines : subject = "Client" /\ Client!MetricNames(c) /\ Only("Client")
    \/ \E c \in Goroutines : subject = "Client" /\ Client!Series(c) /\ Only("Client")
    \/ \E c \in Goroutines : subject = "Client" /\ Client!LockNames(c) /\ Only("Client")
    \/ \E c \in Goroutines : subject = "Client" /\ Client!Throttle(c) /\ Only("Client")
    \/ \E c \in Goroutines : subject = "Client" /\ Client!Wake(c) /\ Only("Client")
    \/ \E c \in Goroutines : subject = "Client" /\ Client!Send(c) /\ Only("Client")
    \/ \E c \in Goroutines : subject = "Client" /\ Client!Again(c) /\ Only("Client")
    \/ \E c \in Goroutines : subject = "Client" /\ Client!Store(c) /\ Only("Client")
    \/ \E c \in Goroutines, k \in {"instant", "vector"} :
          subject = "Client" /\ Client!Query(c, k) /\ Only("Client")

LatencyNext ==
    \/ subject = "Latency" /\ Latency!ListLatency /\ Only("Latency")
    \/ subject = "Latency" /\ Latency!ChooseLatency /\ Only("Latency")
    \/ subject = "Latency" /\ Latency!ListRequests /\ Only("Latency")
    \/ subject = "Latency" /\ Latency!ChooseRequests /\ Only("Latency")
    \/ subject = "Latency" /\ Latency!CommonLabels /\ Only("Latency")
    \/ subject = "Latency" /\ Latency!FindErrorLabel /\ Only("Latency")
    \/ subject = "Latency" /\ Latency!PreferRoutes /\ Only("Latency")
    \/ subject = "Latency" /\ Latency!SettleRoute /\ Only("Latency")
    \/ subject = "Latency" /\ Latency!ValidateLabels /\ Only("Latency")
    \/ subject = "Latency" /\ Latency!CheckLabels /\ Only("Latency")
    \/ subject = "Latency" /\ Latency!CheckNames /\ Only("Latency")
    \/ subject = "Latency" /\ Latency!QueryLatency /\ Only("Latency")
    \/ subject = "Latency" /\ Latency!QueryTraffic /\ Only("Latency")
    \/ subject = "Latency" /\ Latency!QueryErrors /\ Only("Latency")
    \/ subject = "Latency" /\ Latency!QueryBaseline /\ Only("Latency")
    \/ subject = "Latency" /\ Latency!QueryTables /\ Only("Latency")
    \/ subject = "Latency" /\ Latency!Conclude /\ Only("Latency")
    \/ subject = "Latency" /\ Latency!Report /\ Only("Latency")
    \/ subject = "Latency" /\ Latency!GiveUp /\ Only("Latency")
    \/ subject = "Latency" /\ Latency!Outage /\ Only("Latency")
    \/ subject = "Latency" /\ Latency!Recovery /\ Only("Latency")
    \/ \E m \in toScore : subject = "Latency" /\ Latency!ScoreLatency(m) /\ Only("Latency")
    \/ \E m \in toScore : subject = "Latency" /\ Latency!ScoreRequests(m) /\ Only("Latency")

ApmNext ==
    \/ subject = "Apm" /\ Apm!Outage /\ Only("Apm")
    \/ subject = "Apm" /\ Apm!Recovery /\ Only("Apm")
    \/ subject = "Apm" /\ Apm!DetectMetric /\ Only("Apm")
    \/ subject = "Apm" /\ Apm!DetectLabels /\ Only("Apm")
    \/ subject = "Apm" /\ Apm!CheckLimit /\ Only("Apm")
    \/ subject = "Apm" /\ Apm!QueryP95 /\ Only("Apm")
    \/ subject = "Apm" /\ Apm!QueryBaseline /\ Only("Apm")
    \/ subject = "Apm" /\ Apm!QueryRps /\ Only("Apm")
    \/ subject = "Apm" /\ Apm!Conclude /\ Only("Apm")

Next ==
    \/ CatalogNext
    \/ NotifyNext
    \/ MonitorNext
    \/ RecorderNext
    \/ SetupNext
    \/ ScoreNext
    \/ ToilNext
    \/ ClientNext
    \/ LatencyNext
    \/ ApmNext

vars == <<subject, catalog, notify, monitor, recorder, setup, score, toil, client, latency, apm>>

Spec == Init /\ [][Next]_vars

\* The fairness of each of them, for the steps of the subject.
Fairness ==
    /\ WF_notify(subject = "Notify" /\ Notify!Cool)
    /\ \A c \in Callers :
          WF_notify(subject = "Notify" /\ (Notify!Send(c) \/ Notify!Backoff(c)
                                       \/ Notify!Again(c) \/ Notify!Record(c)))
    /\ WF_monitor(subject = "Monitor" /\ Monitor!Work)
    /\ WF_client(subject = "Client" /\ Client!Tick)
    /\ \A c \in Goroutines : SF_client(subject = "Client" /\ Client!Proceed(c))
    /\ WF_setup(subject = "Setup" /\ step.ask # "done" /\ Setup!Returns)

FairSpec == Spec /\ Fairness

\* ------------------------------ properties -------------------------------

\* A provider that answers again is used again (slack/resilience.go).
Recovers == subject = "Notify" => Notify!Recovers

\* An alert follows an objective that stays breached, or met (slo/service.go).
FiringSettles == subject = "Monitor" => Monitor!FiringSettles

\* An objective without traffic is not breached (slo/service.go).
NoTrafficIsNoBreach == subject = "Monitor" => Monitor!NoTrafficIsNoBreach

\* The daemon tags with active incidents only (ml/predictor_daemon.go).
TagsActiveOnly == Recorder!TagsActiveOnly

\* The set-up gets past its discovery (wizard.go).
DiscoveryEnds == subject = "Setup" => Setup!DiscoveryEnds

\* Calls of the client end, whatever Prometheus does (analyse/prometheus).
CallsEnd == subject = "Client" => Client!CallsEnd

=============================================================================

----------------------------- MODULE ApiLatency -----------------------------
(***************************************************************************)
(* The check of API latency (src/internal/checks/api_latency.go) and the   *)
(* analysis it waits for (src/internal/analyse/api_latency): which metrics *)
(* and labels are taken, what is asked of Prometheus, what is reported.    *)
(*                                                                         *)
(* A metric is a set of series with tags; of each window it has a rate, or *)
(* no samples. Window 1 is the one configured, 2 and 3 are the windows     *)
(* that are tried next, 4 is further back. The goroutines that score the   *)
(* candidates answer in any order, and Prometheus may stop answering       *)
(* between any two steps. It rejects what is not PromQL, which the fake of *)
(* the tests does not: that is part of the world, as is what it holds.     *)
(***************************************************************************)
EXTENDS Naturals, Sequences, FiniteSets, FiniteSetsExt

CONSTANTS Latencies, Requests,  \* the names of metrics, in order
          Form,         \* of a latency metric: "histogram" or "summary"
          Hint,         \* what the name of a metric is worth
          Fallbacks,    \* latency metrics that are tried whatever is configured
          RouteLabels, ServiceLabels, ErrorLabels,      \* candidates, in order
          Worlds, Configs,
          BaselineOf,   \* window to compare with
          Threshold,    \* for the P95
          None

VARIABLES world, up,
          steady,       \* Prometheus has answered all along
          named, known, \* what the client has in its caches: the names, and series
          cfg, pc,
          toScore, scored,      \* candidates, and their answers so far
          routeForRps,  \* routeLabelForRPS
          result,
          report        \* of the check: None, "unavailable", or a status

vars == <<world, up, steady, named, known, cfg, pc, toScore, scored, routeForRps, result, report>>
client == <<named, known>>
fixed == <<world, up, steady>>

Names(seq) == {seq[i] : i \in DOMAIN seq}

\* What a name is worth stays below what data is worth. A check that discovers
\* nothing has both metrics, if only the default ones.
ConstantsAssumption ==
    /\ Requests \in Seq(Names(Requests))
    /\ \A i \in DOMAIN Latencies : Hint[Latencies[i]] \in 0..39
    /\ \A m \in Names(Requests) : Hint[m] \in Nat
    /\ \A w \in Worlds, m \in Names(Requests) :
          IsFiniteSet(w.metrics[m]) /\ \A s \in w.metrics[m] : IsFiniteSet(DOMAIN s.tags)
    /\ \A c \in Configs :
          /\ {"auto", "latency", "route", "services", "requests"} \subseteq DOMAIN c
          /\ c.latency \in Names(Latencies) \/ (c.auto /\ c.latency = None)
          /\ c.requests \in Names(Requests) \/ (c.auto /\ c.requests = None)

\* The first of the candidates that is one of the good ones, or None.
First(seq, good) ==
    LET at == {i \in DOMAIN seq : seq[i] \in good} IN IF at = {} THEN None ELSE seq[Min(at)]

\* ------------------------------ Prometheus -------------------------------

\* The series a selector matches: a set of pairs of label and value.
Tags(s) == {<<l, s.tags[l]>> : l \in DOMAIN s.tags}
Selected(m, sel) == {s \in world.metrics[m] : sel \subseteq Tags(s)}

\* sum(rate(m{sel}[w])): nothing where no series has samples.
SumRate(series, w) ==
    LET live == {s \in series : s.rate[w] # None}
    IN IF live = {} THEN None ELSE MapThenSumSet(LAMBDA s : s.rate[w], live)

Positive(n) == n # None /\ n > 0

\* Label lookups go through the series of a metric, which are kept once there.
Readable(m) == (up \/ m \in known) /\ world.metrics[m] # {}
HasLabel(m, l) == Readable(m) /\ \E s \in world.metrics[m] : l \in DOMAIN s.tags
Learn(ms) == known' = known \cup {m \in ms : Readable(m)}
NamesKnown == up \/ named

Values(m, l) == {s.tags[l] : s \in {t \in world.metrics[m] : l \in DOMAIN t.tags}}

\* labelDiversityScore: the most values any label has.
Diversity(m) ==
    IF ~Readable(m) THEN 0
    ELSE LET labels == UNION {DOMAIN s.tags : s \in world.metrics[m]}
         IN IF labels = {} THEN 0 ELSE Max({Cardinality(Values(m, l)) : l \in labels})

Worth(condition, n) == IF condition THEN n ELSE 0

\* ------------------------------- discovery -------------------------------

Fail == pc' = "end" /\ report' = "unavailable"

Go(at) == pc' = at /\ UNCHANGED report

\* discoverLatencyCandidates: histograms by their name, summaries by a label.
ListLatency ==
    /\ pc = "latency names"
    /\ named' = NamesKnown
    /\ Learn({m \in Names(Latencies) : Form[m] = "summary"})
    /\ LET found == {m \in Names(Latencies) : /\ NamesKnown /\ world.metrics[m] # {}
                                              /\ Form[m] = "summary" => Readable(m)}
       IN IF found # {} THEN toScore' = found /\ Go("score latency")
          ELSE /\ UNCHANGED toScore
               /\ IF cfg.latency = None THEN Fail ELSE Go("request names")
    /\ scored' = {}
    /\ UNCHANGED <<fixed, cfg, routeForRps, result>>

\* Of a summary a single series must be left, since it is not aggregated.
HasLatency(m) ==
    /\ up
    /\ IF Form[m] = "summary"
       THEN \E s \in world.metrics[m] : world.metrics[m] = {s} /\ Positive(s.rate[1])
       ELSE Positive(SumRate(world.metrics[m], 1))

DataIsWorth == 50

ScoreLatency(m) ==
    /\ pc = "score latency" /\ m \in toScore
    /\ toScore' = toScore \ {m}
    /\ scored' = scored \cup {[metric |-> m, hasData |-> HasLatency(m),
            score |-> Hint[m] + Worth(HasLatency(m), DataIsWorth) + Worth(Form[m] = "summary", 10)]}
    /\ UNCHANGED <<fixed, client, cfg, pc, routeForRps, result, report>>

\* The order of equal scores is that in which the goroutines answered.
Best == {a \in scored : \A b \in scored : a.score >= b.score}

ChooseLatency ==
    /\ pc = "score latency" /\ toScore = {}
    /\ \E a \in Best :
          /\ cfg' = [cfg EXCEPT !.latency = a.metric]
          /\ result' = [result EXCEPT !.chosen = a.hasData \/ \A b \in scored : ~b.hasData]
    /\ Go("request names")
    /\ UNCHANGED <<fixed, client, toScore, scored, routeForRps>>

\* discoverRequestCandidates: any metric with the name of a request counter.
ListRequests ==
    /\ pc = "request names"
    /\ named' = NamesKnown
    /\ toScore' = {m \in Names(Requests) : NamesKnown /\ world.metrics[m] # {}}
    /\ scored' = {}
    /\ Go("score requests")
    /\ UNCHANGED <<fixed, known, cfg, routeForRps, result>>

HasRequests(m) == up /\ Positive(SumRate(world.metrics[m], 1))
Shared(labels, a, b) == First(labels, {l \in Names(labels) : HasLabel(a, l) /\ HasLabel(b, l)})
FirstOn(labels, m) == First(labels, {l \in Names(labels) : HasLabel(m, l)})

\* Candidates without traffic are dropped, the others are worth their name,
\* their labels, and those they share with the latency metric.
ScoreRequests(m) ==
    /\ pc = "score requests" /\ m \in toScore
    /\ toScore' = toScore \ {m}
    /\ IF HasRequests(m)
       THEN /\ scored' = scored \cup {[metric |-> m, hasData |-> TRUE,
                    score |-> Hint[m] + Diversity(m)
                        + Worth(FirstOn(RouteLabels, m) # None, 15)
                        + Worth(FirstOn(ErrorLabels, m) # None, 8)
                        + Worth(Shared(RouteLabels, cfg.latency, m) # None, 20)
                        + Worth(Shared(ServiceLabels, cfg.latency, m) # None, 10)]}
            /\ Learn({m, cfg.latency})
       ELSE UNCHANGED <<scored, known>>
    /\ UNCHANGED <<fixed, named, cfg, pc, routeForRps, result, report>>

ChooseRequests ==
    /\ pc = "score requests" /\ toScore = {}
    /\ IF scored # {}
       THEN (\E a \in Best : cfg' = [cfg EXCEPT !.requests = a.metric]) /\ Go("common labels")
       ELSE /\ UNCHANGED cfg
            /\ IF cfg.requests = None THEN Fail ELSE Go("common labels")
    /\ UNCHANGED <<fixed, client, toScore, scored, routeForRps, result>>

\* discoverCommonLabels: of labels both metrics have; a single value of one is
\* taken for what was asked for.
Only(asked, m, l) ==
    IF asked = None /\ l # None /\ Cardinality(Values(m, l)) = 1
    THEN CHOOSE v \in Values(m, l) : TRUE ELSE asked

CommonLabels ==
    /\ pc = "common labels"
    /\ LET service == Shared(ServiceLabels, cfg.latency, cfg.requests)
           route == Shared(RouteLabels, cfg.latency, cfg.requests)
           newService == cfg.services = << >> /\ service # None
           newRoute == cfg.route = None /\ route # None
       IN cfg' = [cfg EXCEPT
              !.services = IF newService THEN <<service>> ELSE @,
              !.service = IF newService THEN Only(@, cfg.requests, service) ELSE @,
              !.route = IF newRoute THEN route ELSE @,
              !.path = IF newRoute THEN Only(@, cfg.requests, route) ELSE @]
    /\ Learn({cfg.latency, cfg.requests})
    /\ Go("error label")
    /\ UNCHANGED <<fixed, named, toScore, scored, routeForRps, result>>

FindErrorLabel ==
    /\ pc = "error label"
    /\ cfg' = [cfg EXCEPT !.error = IF @ = None THEN FirstOn(ErrorLabels, cfg.requests) ELSE @]
    /\ Learn({cfg.requests})
    /\ Go("prefer routes")
    /\ UNCHANGED <<fixed, named, toScore, scored, routeForRps, result>>

\* discoverRequestMetricWithRouteLabel: the first of the best with traffic and
\* a route label replaces the metric the labels were chosen for.
PreferRoutes ==
    LET score(m) == Hint[m] + Diversity(m) + Worth(FirstOn(ErrorLabels, m) # None, 5)
        fit == {i \in DOMAIN Requests : /\ NamesKnown /\ HasRequests(Requests[i])
                                        /\ FirstOn(RouteLabels, Requests[i]) # None}
        best == {i \in fit : \A j \in fit : score(Requests[i]) >= score(Requests[j])}
    IN /\ pc = "prefer routes"
       /\ cfg' = IF fit = {} THEN cfg
                 ELSE LET m == Requests[Min(best)]
                      IN [cfg EXCEPT !.requests = m,
                                     !.route = IF @ = None THEN FirstOn(RouteLabels, m) ELSE @]
       /\ Learn({Requests[i] : i \in {j \in DOMAIN Requests : HasRequests(Requests[j])}})
       /\ Go("settle route")
       /\ UNCHANGED <<fixed, named, toScore, scored, routeForRps, result>>

\* discoverRouteLabelOnMetric: without a candidate, the label of most values is
\* taken for the route, whatever it is, and of several any.
Guesses(m) ==
    LET labels == {l \in UNION {DOMAIN s.tags : s \in world.metrics[m]} :
                      HasLabel(m, l) /\ l \notin Names(ErrorLabels)}
    IN IF FirstOn(RouteLabels, m) # None THEN {FirstOn(RouteLabels, m)}
       ELSE IF labels = {} THEN {None}
       ELSE {l \in labels : \A k \in labels : Cardinality(Values(m, l)) >= Cardinality(Values(m, k))}

\* The route label is dropped or found again; the rates keep the one found here.
SettleRoute ==
    LET fits == cfg.route # None /\ HasLabel(cfg.requests, cfg.route)
    IN /\ pc = "settle route"
       /\ \E kept \in (IF fits THEN {cfg.route} ELSE Guesses(cfg.requests)) :
             /\ cfg' = [cfg EXCEPT !.route = kept]
             /\ routeForRps' = kept
       /\ Learn({cfg.requests})
       /\ Go("validate labels")
       /\ UNCHANGED <<fixed, named, toScore, scored, result>>

\* buildLabelSelectors: one selector for each service label.
Selectors(c) ==
    LET labels == IF c.services = << >> THEN <<None>> ELSE c.services
    IN [i \in DOMAIN labels |->
          (IF labels[i] # None /\ c.service # None THEN {<<labels[i], c.service>>} ELSE {})
          \cup (IF c.route # None /\ c.path # None THEN {<<c.route, c.path>>} ELSE {})]

\* Where the selectors are put side by side, more than one is no PromQL.
Asks(sels) == up /\ (Len(sels) = 1 \/ ~world.strict)

\* The labels stay if the histogram has data under them; of a summary there is
\* no histogram.
ValidateLabels ==
    LET sels == Selectors(cfg)
        held == \/ sels = <<{}>>
                \/ /\ Asks(sels) /\ Form[cfg.latency] = "histogram"
                   /\ Positive(SumRate(Selected(cfg.latency, sels[1]), 1))
    IN /\ pc = "validate labels"
       /\ cfg' = IF held THEN cfg
                 ELSE [cfg EXCEPT !.service = None, !.path = None, !.services = << >>, !.route = None]
       /\ Go("check labels")
       /\ UNCHANGED <<fixed, client, toScore, scored, routeForRps, result>>

\* Labels that the request metric lacks are named, and dropped if they were
\* not configured for good.
Reasons(rs) == result' = [result EXCEPT !.reasons = @ \cup rs]
OnRequests(labels) == \E i \in DOMAIN labels : HasLabel(cfg.requests, labels[i])

\* As CheckLabels, with the service label never dropped.
CheckLabelsKeepsService ==
    LET noRoute == cfg.route # None /\ ~HasLabel(cfg.requests, cfg.route)
    IN /\ pc = "check labels"
       /\ cfg' = [cfg EXCEPT !.route = IF noRoute /\ cfg.auto THEN None ELSE @]
       /\ Reasons(IF noRoute THEN {"Route label"} ELSE {})
       /\ Learn({cfg.requests})
       /\ routeForRps' = IF cfg.auto THEN routeForRps ELSE cfg.route
       /\ Go("check names")
       /\ UNCHANGED <<fixed, named, toScore, scored>>

CheckLabels ==
    LET noRoute == cfg.route # None /\ ~HasLabel(cfg.requests, cfg.route)
        noService == cfg.services # << >> /\ ~OnRequests(cfg.services)
    IN /\ pc = "check labels"
       /\ cfg' = [cfg EXCEPT !.route = IF noRoute /\ cfg.auto THEN None ELSE @,
                             !.services = IF noService /\ cfg.auto THEN << >> ELSE @]
       /\ Reasons((IF noRoute THEN {"Route label"} ELSE {})
                     \cup (IF noService THEN {"Service label"} ELSE {}))
       /\ Learn({cfg.requests})
       /\ routeForRps' = IF cfg.auto THEN routeForRps ELSE cfg.route
       /\ Go("check names")
       /\ UNCHANGED <<fixed, named, toScore, scored>>

\* A metric of the configuration that Prometheus does not have is named.
CheckNames ==
    /\ pc = "check names"
    /\ named' = NamesKnown
    /\ LET absent(m) == ~NamesKnown \/ world.metrics[m] = {}
       IN Reasons((IF absent(cfg.latency) THEN {"Latency metric"} ELSE {})
                     \cup (IF absent(cfg.requests) THEN {"Request metric"} ELSE {}))
    /\ Go("latency")
    /\ UNCHANGED <<fixed, known, cfg, toScore, scored, routeForRps>>

\* ------------------------------- the queries -----------------------------

\* All windows, from the one asked for, without repetition.
Tried(w) == IF w = 1 THEN <<1, 2, 3>> ELSE IF w = 2 THEN <<2, 3>>
            ELSE IF w = 3 THEN <<3, 2>> ELSE <<4, 2, 3>>

\* The P95 of one metric in a window. The quantile over histograms is a "by"
\* after a parenthesis, which is no PromQL.
Matches(m, sels) == UNION {Selected(m, sels[i]) : i \in DOMAIN sels}

P95(m, form, sels, w) ==
    LET live == {s \in Matches(m, sels) : Positive(s.rate[w])}
    IN IF Form[m] # form \/ live = {} \/ (form = "histogram" /\ world.strict)
          \/ (form = "summary" /\ Cardinality(live) # 1)
       THEN None ELSE Max({s.p95[w] : s \in live})

\* queryLatencyQuantilesWithFallback: in each window the histogram of the
\* metric and those of other metrics, then the summaries.
Quantile(m, sels, w) ==
    LET tried == <<m>> \o Fallbacks
        of(v, form) == First(tried, {x \in Names(tried) : P95(x, form, sels, v) # None})
        found(v) == IF of(v, "histogram") # None
                    THEN [p95 |-> P95(of(v, "histogram"), "histogram", sels, v), window |-> v]
                    ELSE IF of(v, "summary") # None
                    THEN [p95 |-> P95(of(v, "summary"), "summary", sels, v), window |-> v]
                    ELSE None
        at == First(Tried(w), {v \in Names(Tried(w)) : up /\ found(v) # None})
    IN IF at = None THEN [p95 |-> None, window |-> w] ELSE found(at)

QueryLatency ==
    /\ pc = "latency"
    /\ LET q == Quantile(cfg.latency, Selectors(cfg), 1)
       IN result' = [result EXCEPT !.p95 = q.p95, !.window = q.window,
                        !.reasons = @ \cup (IF q.p95 = None THEN {"Latency samples"} ELSE {}),
                        !.gaps = @ + Worth(q.p95 = None, 2)]
    /\ Go("traffic")
    /\ UNCHANGED <<fixed, client, cfg, toScore, scored, routeForRps>>

\* queryTotalWithFallback: of several selectors the first that matches counts.
Rate(m, sels, w) ==
    LET sums == [i \in DOMAIN sels |-> SumRate(Selected(m, sels[i]), w)]
    IN First(sums, Names(sums) \ {None})

Total(m, sels, w) ==
    LET at == First(Tried(w), {v \in Names(Tried(w)) : up /\ Rate(m, sels, v) # None})
    IN IF at = None THEN None ELSE Rate(m, sels, at)

\* applyStaleDataHint: a metric without samples is named.
Stale(m, sels) == Asks(sels) /\ Matches(m, sels) = {}

\* applyCardinalityHints: a label with too many values is not queried by value.
ManyValues(m, sels, l, limit) ==
    l # None /\ Cardinality({s.tags[l] : s \in {t \in Matches(m, sels) : l \in DOMAIN t.tags}}) >= limit

QueryTraffic ==
    /\ pc = "traffic"
    /\ LET n == Total(cfg.requests, Selectors(cfg), result.window)
           many(l, limit) == Asks(Selectors(cfg)) /\ ManyValues(cfg.requests, Selectors(cfg), l, limit)
           route == IF cfg.route # None THEN cfg.route
                    ELSE IF cfg.auto THEN FirstOn(RouteLabels, cfg.requests) ELSE None
           service == IF Len(cfg.services) = 1 THEN cfg.services[1]
                      ELSE IF cfg.services = << >> /\ cfg.auto THEN "service" ELSE None
       IN result' = [result EXCEPT
              !.total = IF n = None THEN 0 ELSE n,
              !.reasons = @ \cup (IF ~Positive(n) THEN {"Traffic"} ELSE {})
                            \cup (IF Stale(cfg.requests, Selectors(cfg)) THEN {"Stale data"} ELSE {}),
              !.gaps = @ + Worth(~Positive(n), 1),
              !.byRoute = ~(cfg.path = None /\ many(route, cfg.routeLimit)),
              !.byService = ~(cfg.service = None /\ many(service, cfg.serviceLimit))]
    /\ Learn({cfg.requests})
    /\ Go("errors")
    /\ UNCHANGED <<fixed, named, cfg, toScore, scored, routeForRps>>

\* The rate of failed requests, in the window alone; a query that fails, or
\* that several selectors make no PromQL, is no error.
ErrorLabel(m) ==
    IF cfg.error # None THEN cfg.error
    ELSE IF ~HasLabel(m, "status") /\ HasLabel(m, "code") THEN "code" ELSE "status"

Failed(m, sels, w) ==
    IF ~Asks(sels) THEN None
    ELSE SumRate({s \in Matches(m, sels) : <<ErrorLabel(m), "5xx">> \in Tags(s)}, w)

Percent(n, total) == (n * 100) \div total

QueryErrors ==
    /\ pc = "errors"
    /\ LET failed == Failed(cfg.requests, Selectors(cfg), result.window)
       IN result' = [result EXCEPT
              !.errors = IF result.total = 0 THEN None
                         ELSE IF failed = None THEN 0 ELSE Percent(failed, result.total)]
    /\ Learn({cfg.requests})
    /\ Go("baseline")
    /\ UNCHANGED <<fixed, named, cfg, toScore, scored, routeForRps>>

\* The query for the errors of the baseline lacks a parenthesis.
QueryBaseline ==
    /\ pc = "baseline"
    /\ LET w == BaselineOf[result.window]
           sels == Selectors(cfg)
           q == Quantile(cfg.latency, sels, w)
           n == Total(cfg.requests, sels, w)
           failed == Failed(cfg.requests, sels, w)
       IN result' = [result EXCEPT
              !.base = q.p95,
              !.baseTotal = IF n = None THEN 0 ELSE n,
              !.baseErrors = IF q.p95 = None \/ ~Positive(n) \/ failed = None \/ world.strict THEN None
                             ELSE Percent(failed, n),
              !.reasons = @ \cup (IF q.p95 = None THEN {"Baseline"}
                                  ELSE IF n = None THEN {"Baseline traffic"} ELSE {})]
    /\ Learn({cfg.requests})
    /\ Go("tables")
    /\ UNCHANGED <<fixed, named, cfg, toScore, scored, routeForRps>>

\* fetchTopEndpoints, fetchTopEndpointsRPS, fetchTopServicesRPS: what there is
\* by route and by service, if there is one selector. The quantiles by route
\* and their regressions are no PromQL.
Table(label, w) ==
    LET sels == Selectors(cfg)
        m == cfg.requests
    IN IF ~Asks(sels) \/ label = None THEN {}
       ELSE {v \in Values(m, label) :
                SumRate({s \in Matches(m, sels) : <<label, v>> \in Tags(s)}, w) # None}

QueryTables ==
    /\ pc = "tables"
    /\ LET wantRoutes == cfg.path = None
           wantServices == cfg.service = None
           service == IF Len(cfg.services) = 1 THEN cfg.services[1] ELSE None
       IN result' = [result EXCEPT
              !.routes = IF wantRoutes /\ result.byRoute
                         THEN Table(routeForRps, result.window) ELSE {},
              !.services = IF wantServices /\ result.byService
                           THEN Table(service, result.window) ELSE {},
              !.quantiles = IF wantRoutes /\ result.byRoute /\ ~world.strict
                               /\ Form[cfg.latency] = "histogram"
                            THEN Table(cfg.route, result.window) ELSE {},
              !.reasons = @ \cup (IF ~result.byRoute THEN {"Route cardinality"} ELSE {})
                            \cup (IF ~result.byService THEN {"Service cardinality"} ELSE {})
                            \cup (IF wantRoutes /\ result.byRoute /\ cfg.route = None
                                  THEN {"Top Endpoints"} ELSE {})
                            \cup (IF wantServices /\ result.byService /\ cfg.services = << >>
                                  THEN {"Top Services"} ELSE {})]
    /\ Go("conclude")
    /\ UNCHANGED <<fixed, client, cfg, toScore, scored, routeForRps>>

\* ------------------------------ conclusions ------------------------------

\* determineConfidence, for an analysis with an address and both metrics.
Confidence ==
    LET plus == 3 + Worth(result.quantiles # {}, 2) + Worth(result.routes # {}, 2)
                  + Worth(result.services # {}, 1)
    IN IF plus >= 6 + result.gaps THEN "high" ELSE IF plus >= 3 + result.gaps THEN "medium" ELSE "low"

\* detectSpike: twice the latency, or twice the errors, of a baseline above 0.
Spike ==
    /\ result.p95 # None /\ Positive(result.base)
    /\ \/ result.p95 >= 2 * result.base
       \/ /\ result.errors # None /\ Positive(result.baseErrors)
          /\ result.errors >= 2 * result.baseErrors

\* fetchActiveAlerts: a query that fails shows none.
Alerts == up /\ world.alerts

\* buildLokiCorrelationHints, buildDependencyHints: logs and dependencies are
\* pointed at for a spike, errors or an alert only.
Incident == Spike \/ Positive(result.errors) \/ Alerts

\* buildRemediationHints
Hints ==
    {h \in {"gaps", "route cardinality", "service cardinality", "deploys", "errors", "traffic", "alerts"} :
        CASE h = "gaps" -> result.reasons # {}
          [] h = "route cardinality" -> ~result.byRoute
          [] h = "service cardinality" -> ~result.byService
          [] h = "deploys" -> Spike
          [] h = "errors" -> Positive(result.errors)
          [] h = "traffic" -> result.total < result.baseTotal
          [] h = "alerts" -> Alerts}

Conclude ==
    /\ pc = "conclude"
    /\ result' = [result EXCEPT !.confidence = Confidence, !.spike = Spike, !.incident = Incident,
                                  !.hints = Hints]
    /\ Go("report")
    /\ UNCHANGED <<fixed, client, cfg, toScore, scored, routeForRps>>

\* APILatency: a P95 above the threshold is a risk; one that is not known is not.
Report ==
    /\ pc = "report"
    /\ pc' = "end"
    /\ report' = IF report # None THEN report
                 ELSE IF Positive(result.p95) /\ result.p95 > Threshold THEN "RISK" ELSE "SAFE"
    /\ UNCHANGED <<fixed, client, cfg, toScore, scored, routeForRps, result>>

\* After 60 s the check goes without the analysis, which runs on.
GiveUp ==
    /\ pc # "end" /\ report = None
    /\ report' = "unavailable"
    /\ UNCHANGED <<fixed, client, cfg, pc, toScore, scored, routeForRps, result>>

Outage ==
    /\ up /\ up' = FALSE /\ steady' = FALSE
    /\ UNCHANGED <<world, client, cfg, pc, toScore, scored, routeForRps, result, report>>

Recovery ==
    /\ ~up /\ up' = TRUE
    /\ UNCHANGED <<world, steady, client, cfg, pc, toScore, scored, routeForRps, result, report>>

Init ==
    /\ world \in Worlds /\ up = TRUE /\ steady = TRUE
    /\ named = FALSE /\ known = {}
    /\ cfg \in Configs
    /\ pc = IF cfg.auto THEN "latency names" ELSE "check labels"
    /\ toScore = {} /\ scored = {} /\ routeForRps = None /\ report = None
    /\ result = [chosen |-> TRUE, reasons |-> {}, gaps |-> 0, p95 |-> None, window |-> 1,
                 total |-> 0, errors |-> None, base |-> None, baseErrors |-> None,
                 byRoute |-> TRUE, byService |-> TRUE, routes |-> {}, services |-> {},
                 quantiles |-> {}, confidence |-> None, spike |-> FALSE, incident |-> FALSE,
                 baseTotal |-> 0, hints |-> {}]

Discover ==
    \/ ListLatency \/ ChooseLatency \/ ListRequests \/ ChooseRequests
    \/ CommonLabels \/ FindErrorLabel \/ PreferRoutes \/ SettleRoute \/ ValidateLabels

Analyse ==
    \/ CheckLabels \/ CheckNames \/ QueryLatency \/ QueryTraffic \/ QueryErrors
    \/ QueryBaseline \/ QueryTables \/ Conclude \/ Report

Next ==
    \/ Discover
    \/ \E m \in toScore : ScoreLatency(m) \/ ScoreRequests(m)
    \/ Analyse
    \/ GiveUp \/ Outage \/ Recovery

Spec == Init /\ [][Next]_vars

\* ------------------------------ properties -------------------------------

\* In range: reports, percentages and confidences are of the known kinds.
TypeOK ==
    /\ world \in Worlds /\ up \in BOOLEAN /\ steady \in BOOLEAN /\ named \in BOOLEAN
    /\ known \subseteq Names(Latencies) \cup Names(Requests)
    /\ cfg.latency \in Names(Latencies) \cup {None} /\ cfg.requests \in Names(Requests) \cup {None}
    /\ report \in {None, "unavailable", "RISK", "SAFE"}
    /\ result.confidence \in {None, "high", "medium", "low"} /\ result.window \in 1..3

\* Discovery takes a latency metric that has data if any candidate has, in
\* whatever order the candidates are scored and however the names of the others
\* compare (api_latency.go: the scores of a name stay below that of data).
ChosenHasData == steady => result.chosen

\* Once its labels are checked, an analysis that discovers them selects and
\* groups by labels of its request metric only, although that metric, and the
\* value asked for, were chosen in several steps that replace each other's
\* choice (api_latency.go: "not found; ignoring").
LabelsFit ==
    steady /\ cfg.auto /\ pc \in {"latency", "traffic", "errors", "baseline", "tables", "conclude"} =>
        /\ cfg.route # None => HasLabel(cfg.requests, cfg.route)
        /\ cfg.services # << >> => OnRequests(cfg.services)

\* What is discovered can be worked with: data, and labels that are there.
DiscoveryFits == ChosenHasData /\ LabelsFit

=============================================================================

------------------------------ MODULE ApmGraph ------------------------------
(***************************************************************************)
(* The graph of dependencies that the check of API latency adds to its     *)
(* report (src/internal/analyse/apm/apm.go, Collect): which metric and     *)
(* which labels make an edge, the queries for the latency of the edges,    *)
(* their baseline and their traffic, each of which may fail, and the edge  *)
(* that is suspected. Latencies are in tenths of a second.                 *)
(*                                                                         *)
(* The query for errors puts its matcher behind the closed selector, which *)
(* Prometheus rejects: the error rate of an edge is always 0.              *)
(***************************************************************************)
EXTENDS Integers, Sequences, FiniteSets, FiniteSetsExt

CONSTANTS Metrics,      \* candidates for the metric, in order
          SourceNames, DestNames, RouteNames,   \* candidates for the labels, in order
          Many,         \* values that make a label less fit: 50
          Graphs,       \* metric to series, with tags, p95 (None: idle), base, rps
          ApmConfigs,   \* metric, source, dest, route, service, path, limit, top, minRps
          None

VARIABLES graph, online,
          asks,         \* the configuration
          step,
          metric,       \* the one detected
          labels,       \* source, dest and route, or None
          seen,         \* the series of the metric, {} if they could not be read
          edges,        \* answers: latency, baseline and traffic by edge
          suspect       \* what is concluded

vars == <<graph, online, asks, step, metric, labels, seen, edges, suspect>>
given == <<graph, online, asks>>

ConstantsAssumption ==
    /\ None \notin Int \cup {"high"} /\ DOMAIN Metrics \subseteq Nat
    /\ \A a \in ApmConfigs : a.top \in Int
    /\ \A g \in Graphs : \A m \in DOMAIN g : IsFiniteSet(g[m])
    /\ \A g \in Graphs, a \in ApmConfigs :
          {a.metric} \cup {Metrics[i] : i \in DOMAIN Metrics} \subseteq DOMAIN g \cup {None}

First(seq, good) ==
    LET at == {i \in DOMAIN seq : seq[i] \in good} IN IF at = {} THEN None ELSE seq[Min(at)]

Nothing == [reason |-> "nothing", path |-> <<>>, confidence |-> None, edge |-> None]

Init ==
    /\ graph \in Graphs /\ online = TRUE /\ asks \in ApmConfigs
    /\ step = "metric" /\ metric = None /\ seen = {}
    /\ labels = [source |-> asks.source, dest |-> asks.dest, route |-> asks.route]
    /\ edges = [p95 |-> << >>, base |-> << >>, rps |-> << >>]
    /\ suspect = Nothing

Outage == online /\ online' = FALSE
          /\ UNCHANGED <<graph, asks, step, metric, labels, seen, edges, suspect>>

Recovery == ~online /\ online' = TRUE
            /\ UNCHANGED <<graph, asks, step, metric, labels, seen, edges, suspect>>

Stop(why) == step' = "end" /\ suspect' = [Nothing EXCEPT !.reason = why]
Go(to) == step' = to /\ UNCHANGED suspect

\* ------------------------- the metric, the labels ------------------------

\* detectDependencyMetric: the names may have been kept by the client.
DetectMetric ==
    /\ step = "metric"
    /\ \E known \in {TRUE, online} :
          LET has(m) == known /\ graph[m] # {}
              found == IF asks.metric # None
                       THEN IF has(asks.metric) THEN asks.metric ELSE None
                       ELSE First(Metrics, {m \in DOMAIN graph : has(m)})
          IN IF found = None THEN Stop("no metric") /\ UNCHANGED metric
             ELSE metric' = found /\ Go("labels")
    /\ UNCHANGED <<given, labels, seen, edges>>

Values(series, l) == {s.tags[l] : s \in {t \in series : l \in DOMAIN t.tags}}

\* selectBestLabel: the first of those that tell most apart.
BestLabel(names) ==
    LET n(l) == Cardinality(Values(graph[metric], l))
        score(l) == IF n(l) = 1 THEN 2 ELSE IF n(l) < Many THEN 3 ELSE 1
        there == {i \in DOMAIN names : n(names[i]) > 0}
        best == {i \in there : \A j \in there : score(names[i]) >= score(names[j])}
    IN IF best = {} THEN None ELSE names[Min(best)]

Detected(l, names) ==
    IF l # None /\ Values(graph[metric], l) # {} THEN l ELSE BestLabel(names)

\* detectDependencyLabels: without the series, the labels are as configured.
DetectLabels ==
    LET found == IF online
                 THEN [source |-> Detected(labels.source, SourceNames),
                       dest |-> Detected(labels.dest, DestNames),
                       route |-> Detected(labels.route, RouteNames)]
                 ELSE labels
    IN /\ step = "labels"
       /\ labels' = found
       /\ seen' = IF online THEN graph[metric] ELSE {}
       /\ IF found.dest = None THEN Stop("no destination") ELSE Go("limit")
       /\ UNCHANGED <<given, metric, edges>>

\* The series, kept or read now, may show too many destinations.
CheckLimit ==
    /\ step = "limit"
    /\ LET series == IF online THEN graph[metric] ELSE seen
           asked == {s \in series : \/ labels.source = None \/ asks.service = None
                                    \/ /\ labels.source \in DOMAIN s.tags
                                       /\ s.tags[labels.source] = asks.service}
       IN /\ seen' = series
          /\ IF Cardinality(Values(asked, labels.dest)) >= asks.limit
             THEN Stop("too many destinations") ELSE Go("p95")
    /\ UNCHANGED <<given, metric, labels, edges>>

\* ------------------------------- the queries -----------------------------

\* buildDependencySelector
Selected ==
    {s \in graph[metric] :
        /\ labels.source # None /\ asks.service # None =>
              labels.source \in DOMAIN s.tags /\ s.tags[labels.source] = asks.service
        /\ labels.route # None /\ asks.path # None =>
              labels.route \in DOMAIN s.tags /\ s.tags[labels.route] = asks.path}

\* buildGroupLabels, applyCardinalityFallback: the route tells edges apart only
\* if one is asked for, and many values of a label drop it, the destination's too
\* if it is taken for the route.
Grouped ==
    LET all == {labels.source, labels.dest} \ {None}
        routed == IF labels.route # None /\ asks.path # None THEN all \cup {labels.route} ELSE all
    IN IF labels.route # None /\ asks.path = None
             /\ Cardinality(Values(seen, labels.route)) >= asks.limit
       THEN routed \ {labels.route}
       ELSE IF Cardinality(Values(seen, labels.dest)) >= asks.limit THEN {labels.dest} ELSE routed

Tag(s, l) == IF l # None /\ l \in Grouped /\ l \in DOMAIN s.tags THEN s.tags[l] ELSE ""

\* edgeKey of an edge, and the key its baseline and its traffic are kept under
\* (mapEdgeValues): the route is in the latter only if one was asked for.
Key(s) == <<Tag(s, labels.source), Tag(s, labels.dest), Tag(s, labels.route)>>
KeptKey(s) == IF asks.path = None THEN [Key(s) EXCEPT ![3] = ""] ELSE Key(s)

\* Of an edge of several series, the slowest stands for the quantile of all.
Slowest(ps) == IF ps \ {None} = {} THEN None ELSE Max(ps \ {None})

Series == [k \in {Key(s) : s \in Selected} |-> {s \in Selected : Key(s) = k}]
KeptSeries == [k \in {KeptKey(s) : s \in Selected} |-> {s \in Selected : KeptKey(s) = k}]

P95(ss) == Slowest({s.p95 : s \in ss})
Base(ss) == Slowest({s.base : s \in ss})
Rps(ss) == MapThenSumSet(LAMBDA s : s.rps, ss)

QueryP95 ==
    /\ step = "p95"
    /\ IF ~online THEN Stop("error") /\ UNCHANGED edges
       ELSE IF Selected = {} THEN Stop("no data") /\ UNCHANGED edges
       ELSE edges' = [edges EXCEPT !.p95 = [k \in DOMAIN Series |-> P95(Series[k])]] /\ Go("baseline")
    /\ UNCHANGED <<given, metric, labels, seen>>

\* That these fail is not looked at: there are no values then.
QueryBaseline ==
    /\ step = "baseline" /\ Go("rps")
    /\ edges' = 
          IF ~online THEN edges
          ELSE [edges EXCEPT !.base = [k \in DOMAIN KeptSeries |-> Base(KeptSeries[k])]]
    /\ UNCHANGED <<given, metric, labels, seen>>

QueryRps ==
    /\ step = "rps" /\ Go("conclude")
    /\ edges' = 
          IF ~online THEN edges
          ELSE [edges EXCEPT !.rps = [k \in DOMAIN KeptSeries |-> Rps(KeptSeries[k])]]
    /\ UNCHANGED <<given, metric, labels, seen>>

\* ------------------------------ conclusions ------------------------------

\* A value that is not there is 0; an idle edge has no delta.
At(f, k) == IF k \in DOMAIN f THEN f[k] ELSE 0

Edge(k) ==
    LET base == At(edges.base, k)
        p95 == edges.p95[k]
    IN [key |-> k, p95 |-> p95, base |-> base, rps |-> At(edges.rps, k),
        delta |-> IF p95 = None \/ base = None THEN None ELSE p95 - base]

More(a, b) == b = None \/ (a # None /\ a >= b)

\* The edges, the worst first, in any order where they compare equal, and in
\* any at all if one is idle; only the first of them are kept (pruneEdges).
Orders ==
    LET all == {Edge(k) : k \in DOMAIN edges.p95}
        n == Cardinality(all)
        lists == {o \in [1..n -> all] : \A i, j \in 1..n : i # j => o[i] # o[j]}
        worse(a, b) == a.delta > b.delta \/ (a.delta = b.delta /\ a.p95 >= b.p95)
        sorted == IF \E e \in all : e.delta = None THEN lists
                  ELSE {o \in lists : \A i \in 1..(n - 1) : worse(o[i], o[i + 1])}
    IN {IF asks.top <= 0 \/ n <= asks.top THEN o ELSE SubSeq(o, 1, asks.top) : o \in sorted}

\* edgeScore, in tenths: the delta, and up to ten requests a second.
Score(e) ==
    IF e.rps < asks.minRps THEN 0
    ELSE (IF More(e.delta, 1) THEN e.delta ELSE 0) + (IF e.rps < 10 THEN e.rps ELSE 10)

HasBaseline(o) == \E i \in DOMAIN o : More(o[i].base, 1)

\* As ScoreConfidence, without asking for a baseline.
ScoreConfidenceAlways(score, compared) ==
    IF score >= 20 THEN "high" ELSE IF score >= 5 THEN "medium" ELSE "low"

\* confidenceFromScore
ScoreConfidence(score, compared) ==
    IF score >= 20 THEN IF compared THEN "high" ELSE "medium"
    ELSE IF score >= 5 THEN "medium" ELSE "low"

\* formatSuspected: an edge that lacks an end has no path.
Path(e) == IF e.key[1] = "" \/ e.key[2] = "" THEN << >>
           ELSE IF e.key[3] = "" THEN <<e.key[1], e.key[2]>> ELSE e.key

\* scoreEdge: without errors to see, at best "medium".
EdgeConfidence(e) ==
    IF /\ e.rps >= asks.minRps /\ More(e.delta, 1)
       /\ e.delta > 10 \/ (e.base > 0 /\ 5 * e.delta > e.base)
    THEN "medium" ELSE "low"

Worst(es) == {e \in es : \A d \in es : More(e.delta, d.delta)}

\* rankCauses, selectSuspectedEdge, edgeForPath: the edge of best score, found
\* again by its path; otherwise the one of the service, or the first.
Suspects(o, ranked) ==
    LET own == {o[i] : i \in {j \in DOMAIN o : asks.service # None /\ o[j].key[1] = asks.service}}
        named == {i \in DOMAIN o : Path(o[i]) = Path(ranked)}
    IN IF ranked # None THEN {o[Min(named)]} ELSE IF own = {} THEN {o[1]} ELSE Worst(own)

\* selectSecondHop
Hops(o, e) ==
    LET next == {o[i] : i \in {j \in DOMAIN o : e.key[2] # "" /\ o[j].key[1] = e.key[2]}}
    IN IF next = {} THEN {None} ELSE Worst(next)

\* formatSuspectedChain and scoreChain; a second hop without an end is none.
Concluded(o, ranked, e, hop) ==
    LET second == IF hop # None /\ hop.key[2] # "" THEN hop ELSE None
        path == IF second # None THEN <<e.key[1], e.key[2], second.key[2]>> ELSE Path(e)
        byRank == IF ranked = None THEN None ELSE ScoreConfidence(Score(ranked), HasBaseline(o))
    IN IF asks.minRps > 0 /\ e.rps < asks.minRps
       THEN [reason |-> "insufficient traffic", edge |-> None, confidence |-> byRank,
             path |-> IF ranked = None THEN << >> ELSE Path(ranked)]
       ELSE IF path = << >>
       THEN [reason |-> "no path", edge |-> None, confidence |-> byRank, path |-> << >>]
       ELSE [reason |-> "suspect", edge |-> e, path |-> path,
             confidence |-> IF second # None /\ EdgeConfidence(second) = "medium" THEN "medium"
                            ELSE EdgeConfidence(e)]

Conclude ==
    /\ step = "conclude"
    /\ step' = "end"
    /\ \E o \in Orders :
          LET scored == {o[i] : i \in {j \in DOMAIN o : Score(o[j]) > 0}}
              best == {e \in scored : \A d \in scored : Score(e) >= Score(d)}
          IN \E ranked \in (IF best = {} THEN {None} ELSE best) :
                \E e \in Suspects(o, ranked) : \E hop \in Hops(o, e) :
                   suspect' = Concluded(o, ranked, e, hop)
    /\ UNCHANGED <<given, metric, labels, seen, edges>>

Next ==
    \/ Outage \/ Recovery
    \/ DetectMetric \/ DetectLabels \/ CheckLimit
    \/ QueryP95 \/ QueryBaseline \/ QueryRps \/ Conclude

Spec == Init /\ [][Next]_vars

\* ------------------------------ properties -------------------------------

\* In range: what is concluded is of a known kind.
TypeOK ==
    /\ graph \in Graphs /\ online \in BOOLEAN /\ asks \in ApmConfigs
    /\ step \in {"metric", "labels", "limit", "p95", "baseline", "rps", "conclude", "end"}
    /\ suspect.confidence \in {None, "low", "medium", "high"} /\ Len(suspect.path) <= 3

\* High confidence in a cause needs a baseline to compare with: also when the
\* query for it failed, whose error is ignored and whose missing values count as
\* 0, which makes every latency an increase (apm.go: allowHigh).
HighIsCompared ==
    suspect.confidence = "high" => \E k \in DOMAIN edges.base : More(edges.base[k], 1)

=============================================================================

-------------------------- MODULE ScorecardReport --------------------------
(***************************************************************************)
(* The reliability scorecard (src/internal/scorecard/service.go): what a   *)
(* report for a profile, a service or the organization computes from the   *)
(* incidents, the action items and the objectives, and the cache of the    *)
(* results of the objectives that all reports of a month share.            *)
(*                                                                         *)
(* Time is counted in units of which a month has MonthLength, a percentage *)
(* is an integer. Categories, patterns and confidences, which only appear  *)
(* as text, are left out. The result of an objective is left out too: no   *)
(* number of a report depends on it (see Score).                           *)
(***************************************************************************)
EXTENDS Naturals, Sequences, FiniteSets, Functions

CONSTANTS Profiles,
          Services,
          Kinds,        \* incidents that happen: profile, service and severity
          Toils,        \* hours of toil they can take
          FlowsOf,      \* the flows of a profile, sequences of services
          Created,      \* month in which the file of a profile was written
          Capacity,     \* hours of operations the team has in a month, or 0
          ToilTarget,   \* percentage of them
          MonthLength,
          CacheTtl,     \* age up to which results are taken from the cache
          MaxTime, MaxIncidents, MaxItems, MaxReports,   \* bounds
          None

\* There are finitely many profiles and services, and flows are made of these.
ConstantsAssumption ==
    /\ IsFiniteSet(Profiles) /\ IsFiniteSet(Services)
    /\ \A k \in Kinds : k.profile \in Profiles /\ k.service \in Services
    /\ \A p \in Profiles : /\ Created[p] \in Nat
                            /\ \A f \in FlowsOf[p] : \A k \in DOMAIN f : f[k] \in Services
    /\ Toils \subseteq Nat /\ Capacity \in Nat /\ ToilTarget \in Nat
    /\ MonthLength \in Nat \ {0} /\ CacheTtl \in Nat
    /\ MaxTime \in Nat /\ MaxIncidents \in Nat /\ MaxItems \in Nat /\ MaxReports \in Nat

VARIABLES now,
          incidents,    \* all profiles' incidents
          items,        \* their action items
          active,       \* the active profile
          cache,        \* by active profile and month: services, and when asked
          shown,        \* the last report's objectives, and when they were asked
          reports

vars == <<now, incidents, items, active, cache, shown, reports>>

Month(t) == t \div MonthLength
Months == 0..Month(MaxTime)
Targets == Services \cup {None}

Positive(a, b) == IF a > b THEN a - b ELSE 0
Percent(part, whole) == IF whole = 0 THEN 100 ELSE (100 * part) \div whole

\* ------------------------------ the inputs -------------------------------

\* Incidents are listed by the month in their name, that of their creation.
Monthly(p, target, m) ==
    {i \in incidents : /\ i.profile = p /\ Month(i.from) = m
                       /\ target \in {None, i.service}}

FlowsFor(a, target) ==
    {f \in FlowsOf[a] : target = None \/ \E k \in DOMAIN f : f[k] = target}

\* All services of the flows, and what else had incidents.
InFlows(a, target) == UNION {{f[k] : k \in DOMAIN f} : f \in FlowsFor(a, target)}

Listed(p, a, target, m) ==
    InFlows(a, target) \cup {i.service : i \in Monthly(p, target, m)}

\* Why there is nothing to report: the profile, or the data of the service, is
\* younger than the month.
Unavailable(p, target, m) ==
    \/ m < Created[p]
    \/ /\ target # None
       /\ LET own == {i \in incidents : i.profile = p /\ i.service = target}
          IN own # {} /\ \A i \in own : m < Month(i.from)

\* ------------------------------- the score -------------------------------

Until(i) == IF i.to = None THEN now ELSE i.to

Outages(s, incs) == {i \in incs : i.service = s /\ i.severity \in {"P1", "P2"}}

\* As Downtime, overwriting the sum instead of adding to it.
DowntimeOfLast(s, incs) ==
    LET o == Outages(s, incs) IN
    IF o = {} THEN 0
    ELSE LET i == CHOOSE i \in o : \A j \in o : j.id <= i.id IN Until(i) - i.from

\* Outages that overlap count twice.
Downtime(s, incs) == SumFunction([i \in Outages(s, incs) |-> Until(i) - i.from])

Availability(s, incs) == Percent(Positive(MonthLength, Downtime(s, incs)), MonthLength)

Average(f, default) ==
    IF DOMAIN f = {} THEN default
    ELSE SumFunction(f) \div Cardinality(DOMAIN f)

\* Rows of all services: what is open, and what was done since the month began.
Rows(p, m) ==
    {a \in items : a.profile = p /\ (a.done = None \/ a.done > m * MonthLength)}

Completed(rows) == {a \in rows : a.done # None}

\* 40% availability, 40% compliance, 20% action items. Compliance is that of
\* the budgets the report has at this point, which are filled in only later.
Compliance(compliant, budgets) == Percent(Cardinality(compliant), Cardinality(budgets))

ScoreOf(p, a, target, m) ==
    LET incs == Monthly(p, target, m)
        avail == Average([s \in Listed(p, a, target, m) |-> Availability(s, incs)], 100)
        done == Percent(Cardinality(Completed(Rows(p, m))), Cardinality(Rows(p, m)))
    IN (40 * avail + 40 * Compliance({}, {}) + 20 * done) \div 100

\* A report that is not available has no score.
Score(p, a, target, m) == IF Unavailable(p, target, m) THEN 0 ELSE ScoreOf(p, a, target, m)

Worst(p, target, m) ==
    \E i \in Monthly(p, target, m) : i.severity = "P1"

Health(score, p1) ==
    IF score < 80 THEN "Critical" ELSE IF score < 95 \/ p1 THEN "At Risk" ELSE "Healthy"

\* ----------------------------- the summaries -----------------------------

Failures(s, p, m) == Cardinality(Outages(s, Monthly(p, None, m)))

Trend(s, p, m) ==
    LET before == IF m = 0 THEN 0 ELSE Failures(s, p, m - 1) IN
    IF Failures(s, p, m) > before THEN "Degrading"
    ELSE IF Failures(s, p, m) < before THEN "Improving" ELSE "Stable"

MTTR(s, incs) ==
    LET done == {i \in incs : i.service = s /\ i.to # None}
    IN Average([i \in done |-> i.to - i.from], None)

MTBF(s, incs) ==
    IF Outages(s, incs) = {} THEN None
    ELSE Positive(MonthLength, Downtime(s, incs)) \div Cardinality(Outages(s, incs))

Summary(s, p, target, m) ==
    LET incs == Monthly(p, target, m)
        own == {a \in Rows(p, m) : a.service = s}
    IN [availability |-> Availability(s, incs), mttr |-> MTTR(s, incs),
        mtbf |-> MTBF(s, incs), trend |-> Trend(s, p, m),
        done |-> IF own = {} THEN None ELSE Percent(Cardinality(Completed(own)), Cardinality(own))]

\* Toil as a part of the capacity; without one, of the time incidents took.
ToilHours(incs) == SumFunction([i \in incs |-> i.toil])

ToilPercent(incs) ==
    LET spent == SumFunction([i \in {j \in incs : j.to # None} |-> i.to - i.from])
    IN IF Capacity > 0 THEN (100 * ToilHours(incs)) \div Capacity
       ELSE IF ToilHours(incs) = 0 THEN 0 ELSE Percent(ToilHours(incs), ToilHours(incs) + spent)

OverTarget(incs) == ToilPercent(incs) > ToilTarget

\* The other profiles are scored from the same store, for the same service.
Position(p, a, target, m) ==
    1 + Cardinality({o \in Profiles \ {p} :
            /\ ~(m < Created[o])
            /\ ScoreOf(p, a, target, m) > Score(p, a, target, m)})

\* --------------------------- the organization ----------------------------

\* Every profile is reported with the flows of the active one.
Included(m) == {p \in Profiles : ~Unavailable(p, None, m)}
Weight(p, m) == Cardinality(Listed(p, active, None, m))

OrgScore(m) ==
    LET in == Included(m)
        total == SumFunction([p \in in |-> Weight(p, m)])
    IN IF in = {} THEN 0
       ELSE IF total > 0
       THEN SumFunction([p \in in |-> Weight(p, m) * ScoreOf(p, active, None, m)]) \div total
       ELSE Average([p \in in |-> ScoreOf(p, active, None, m)], 0)

OrgIncidents(m) == UNION {Monthly(p, None, m) : p \in Included(m)}

Hotspots(m) ==
    LET P1s(q) == {i \in OrgIncidents(m) :
                      i.profile = q[1] /\ i.service = q[2] /\ i.severity = "P1"}
    IN {[profile |-> q[1], service |-> q[2],
         status |-> IF Cardinality(P1s(q)) > 2 THEN "Critical" ELSE "At Risk"] :
            q \in {r \in Profiles \X Services : P1s(r) # {}}}

\* ------------------------------- behaviour -------------------------------

Init ==
    /\ now = 0
    /\ incidents = {} /\ items = {}
    /\ active \in Profiles
    /\ cache = [p \in Profiles |-> [m \in Months |-> None]]
    /\ shown = None /\ reports = 0

Tick ==
    /\ now < MaxTime
    /\ now' = now + 1
    /\ UNCHANGED <<incidents, items, active, cache, shown, reports>>

\* What the rest of the program does to the stores.
OpenIncident(k) ==
    /\ Cardinality(incidents) < MaxIncidents
    /\ incidents' = incidents \cup
          {[id |-> Cardinality(incidents), profile |-> k.profile, service |-> k.service,
            severity |-> k.severity, from |-> now, to |-> None, toil |-> 0]}
    /\ UNCHANGED <<now, items, active, cache, shown, reports>>

ResolveIncident(i, toil) ==
    /\ i.to = None
    /\ incidents' = (incidents \ {i}) \cup {[i EXCEPT !.to = now, !.toil = toil]}
    /\ UNCHANGED <<now, items, active, cache, shown, reports>>

AddItem(p, s) ==
    /\ \E k \in Kinds : k.profile = p /\ k.service = s
    /\ Cardinality(items) < MaxItems
    /\ items' = items \cup
          {[id |-> Cardinality(items), profile |-> p, service |-> s, done |-> None]}
    /\ UNCHANGED <<now, incidents, active, cache, shown, reports>>

CompleteItem(a) ==
    /\ a.done = None
    /\ items' = (items \ {a}) \cup {[a EXCEPT !.done = now]}
    /\ UNCHANGED <<now, incidents, active, cache, shown, reports>>

\* Results are kept by month, whatever flows they were asked for.
FreshAlways(entry) == entry # None
Fresh(entry) == entry # None /\ now - entry.at < CacheTtl

Asked(a, target) ==
    [services |-> InFlows(a, target), at |-> now]

Budgets(a, target, m) == IF Fresh(cache[a][m]) THEN cache[a][m] ELSE Asked(a, target)

\* The report of the month before, for the trends, asks for that month too.
Caching(a, target, m) ==
    LET asked == {n \in {m, m - 1} \cap Months : TRUE}
    IN cache' = [cache EXCEPT ![a] =
                    [n \in Months |-> IF n \in asked THEN Budgets(a, target, n) ELSE @[n]]]

\* The console makes a profile active before it is reported.
Report(p, target, m) ==
    /\ reports < MaxReports /\ reports' = reports + 1
    /\ m <= Month(now)
    /\ active' = p
    /\ IF Unavailable(p, target, m) THEN shown' = None /\ UNCHANGED cache
       ELSE shown' = [Budgets(p, target, m) EXCEPT !.at = now - @] /\ Caching(p, target, m)
    /\ UNCHANGED <<now, incidents, items>>

\* One entry of the cache serves all profiles.
OrgReport(m) ==
    /\ reports < MaxReports /\ reports' = reports + 1
    /\ m <= Month(now)
    /\ IF Included(m) = {} THEN shown' = None /\ UNCHANGED cache
       ELSE shown' = [Budgets(active, None, m) EXCEPT !.at = now - @] /\ Caching(active, None, m)
    /\ UNCHANGED <<now, incidents, items, active>>

Next ==
    \/ Tick
    \/ \E k \in Kinds : OpenIncident(k)
    \/ \E i \in incidents, h \in Toils : ResolveIncident(i, h)
    \/ \E p \in Profiles, s \in Services : AddItem(p, s)
    \/ \E a \in items : CompleteItem(a)
    \/ \E p \in Profiles, t \in Targets, m \in Months : Report(p, t, m)
    \/ \E m \in Months : OrgReport(m)

Spec == Init /\ [][Next]_vars

\* ------------------------------ properties -------------------------------

\* The last conjuncts bound what the reports compute.
TypeOK ==
    /\ now \in 0..MaxTime /\ reports \in 0..MaxReports /\ active \in Profiles
    /\ Cardinality(incidents) <= MaxIncidents /\ Cardinality(items) <= MaxItems
    /\ shown # None => shown.services \subseteq Services
    /\ \A p \in Profiles, m \in Months : cache[p][m] # None => cache[p][m].at <= now
    /\ \A p \in Profiles, t \in Targets, m \in Months :
          /\ Score(p, p, t, m) \in 0..100
          /\ Position(p, p, t, m) \in 1..Cardinality(Profiles)
          /\ \A s \in Listed(p, p, t, m) :
                Summary(s, p, t, m).availability \in 0..100
    /\ \A m \in Months : /\ OrgScore(m) \in 0..100
                          /\ \A h \in Hotspots(m) : h.profile \in Included(m)
                          /\ OverTarget(OrgIncidents(m)) => OrgIncidents(m) # {}

\* One more incident of a service that is listed already never makes a score
\* better, nor the health: not the profile's, not that of any service.
WorseIsNoBetter ==
    [][\A p \in Profiles, t \in Targets, m \in Months :
          LET new == incidents' \ incidents IN
          /\ Cardinality(incidents') > Cardinality(incidents)
          /\ \A i \in new : i.service \in Listed(p, p, t, m)
          /\ ~Unavailable(p, t, m)
          => /\ Score(p, p, t, m)' <= Score(p, p, t, m)
             /\ Health(Score(p, p, t, m), Worst(p, t, m)) = "At Risk"
                    => Health(Score(p, p, t, m), Worst(p, t, m))' # "Healthy"]_vars

=============================================================================

----------------------------- MODULE ToilReport -----------------------------
(***************************************************************************)
(* The analytics of manual work (src/internal/incident/toil_analytics.go   *)
(* and the commands toil list, compare, verify and report): the minutes    *)
(* incidents took by profile and category, their cost, and the categories  *)
(* whose automation is suggested, with the evidence for it.                *)
(*                                                                         *)
(* Money is minutes times a rate, hours and texts are left out. A log      *)
(* pattern is its source, ranked by the confidence it gives.               *)
(***************************************************************************)
EXTENDS Naturals, Sequences, FiniteSets, Functions

CONSTANTS Profiles,
          Services,     \* in the order of their names: numbers
          Categories,
          Minutes,      \* that an incident can take; 0 where none were given
          Sources,      \* of evidence: what was found for an incident
          RateOf,       \* cost of a minute by profile, 0 where not configured
          Fallback,     \* the rate that is taken then
          Top,          \* how many categories are suggested
          MaxTime, Window,      \* bound on the time, and how far a report looks back
          MaxIncidents,         \* bound on the incidents
          None

\* Minutes and money are numbers: a rate that is not positive is none.
ConstantsAssumption ==
    /\ Minutes \subseteq Nat /\ RateOf \in [Profiles -> Nat] /\ Fallback \in Nat
    /\ Top \in Nat /\ MaxTime \in Nat /\ MaxIncidents \in Nat

VARIABLES now, incidents,
          shown         \* the last report

vars == <<now, incidents, shown>>

Rate(p) == IF RateOf[p] = 0 THEN Fallback ELSE RateOf[p]

Total(incs) == SumFunction([i \in incs |-> i.minutes])

\* Incidents without minutes count for nothing but the evidence.
Counted(incs) == {i \in incs : i.minutes > 0}
Spent(incs) == {i.category : i \in Counted(incs)}
InCategory(incs, c) == Total({i \in incs : i.category = c})

\* ------------------------------ suggestions ------------------------------

\* What one incident is evidence of: a pattern beats a signature, and the logs
\* of its life cycle beat both.
Confidence(source) ==
    CASE source = "logs" -> 4 [] source = "pattern" -> 3
      [] source = "signature" -> 2 [] OTHER -> 1

\* The service that is named: the one with the most incidents of the category,
\* the first of these by name.
Occurrences(incs, c, s) == {i \in incs : i.category = c /\ i.service = s}

Primary(incs, c) ==
    CHOOSE s \in {i.service : i \in {j \in incs : j.category = c}} :
        \A t \in Services :
            LET m == Cardinality(Occurrences(incs, c, s))
                n == Cardinality(Occurrences(incs, c, t))
            IN m > n \/ (m = n /\ s <= t)

\* The last of its incidents that has any evidence says what it is.
Evidence(incs, c) ==
    LET own == {i \in Occurrences(incs, c, Primary(incs, c)) : i.source # "nothing"}
    IN [service |-> Primary(incs, c),
        confidence |-> IF own = {} THEN 1
                       ELSE Confidence((CHOOSE i \in own : \A j \in own : j.id <= i.id).source)]

\* All sets of Top categories that a breakdown can begin with: the most expensive
\* ones when it is sorted, any otherwise.
TopOf(incs, sorted) ==
    {S \in SUBSET Spent(incs) :
        /\ Cardinality(S) = (IF Cardinality(Spent(incs)) < Top THEN Cardinality(Spent(incs))
                             ELSE Top)
        /\ \A c \in S, d \in Spent(incs) \ S :
              sorted => InCategory(incs, c) >= InCategory(incs, d)}

\* As Saved, counting a category once for each service it occurs in.
SavedByService(incs, cats, rate) ==
    SumFunction([c \in cats |-> InCategory(incs, c) * rate
                                   * Cardinality({i.service : i \in {j \in incs : j.category = c}})])

Saved(incs, cats, rate) == SumFunction([c \in cats |-> InCategory(incs, c) * rate])

\* ------------------------------- summaries -------------------------------

\* CalculateToilSummary: all a profile can get for its suggestions.
SummaryOf(p, incs, cats) ==
    [minutes |-> Total(incs), cost |-> Total(incs) * Rate(p),
     breakdown |-> [c \in Spent(incs) |-> InCategory(incs, c)],
     suggested |-> [c \in cats |-> Evidence(incs, c)],
     savings |-> Saved(incs, cats, Rate(p))]

Summaries(p, incs) == {SummaryOf(p, incs, cats) : cats \in TopOf(incs, TRUE)}

\* CalculateOrgToilSummary: what the profiles spend and could save is added up.
\* The categories that are suggested come from a breakdown nobody has sorted.
OrgOf(incs, choice, cats) ==
    LET of(p) == {i \in incs : i.profile = p}
        parts == {i.profile : i \in incs}
    IN [minutes |-> Total(incs),
        cost |-> SumFunction([p \in parts |-> Total(of(p)) * Rate(p)]),
        breakdown |-> [c \in Spent(incs) |-> InCategory(incs, c)],
        suggested |-> [c \in cats |-> Evidence(incs, c)],
        savings |-> SumFunction([p \in parts |-> Saved(of(p), choice[p], Rate(p))])]

\* What may be suggested to each of the profiles.
Choices(incs) ==
    {f \in [Profiles -> SUBSET Categories] :
        \A p \in Profiles : f[p] \in TopOf({i \in incs : i.profile = p}, TRUE)}

OrgSummaries(incs) ==
    UNION {{OrgOf(incs, choice, cats) : cats \in TopOf(incs, FALSE)} : choice \in Choices(incs)}

\* ------------------------------- behaviour -------------------------------

Init == now = 0 /\ incidents = {} /\ shown = None

Tick ==
    /\ now < MaxTime
    /\ now' = now + 1
    /\ UNCHANGED <<incidents, shown>>

\* An incident is resolved, with or without the minutes it took.
Resolve(p, s, c, m, source) ==
    /\ Cardinality(incidents) < MaxIncidents
    /\ incidents' = incidents \cup
          {[id |-> Cardinality(incidents), profile |-> p, service |-> s, category |-> c,
            minutes |-> m, source |-> source, at |-> now]}
    /\ UNCHANGED <<now, shown>>

Recent == {i \in incidents : now - i.at < Window}
Show(scope, incs, summaries) ==
    /\ \E s \in summaries : shown' = [scope |-> scope, of |-> incs, summary |-> s]
    /\ UNCHANGED <<now, incidents>>

\* toil list --profile, and toil compare, which lists all profiles so.
ListProfile(p) ==
    LET incs == {i \in Recent : i.profile = p} IN Show(p, incs, Summaries(p, incs))

\* toil list --id and toil verify look at one incident of any age. Verify
\* panics when no minutes were given.
ListIncident(i) == i.minutes > 0 /\ Show(i.profile, {i}, Summaries(i.profile, {i}))

ListAll == Show("organization", Recent, OrgSummaries(Recent))

\* toil report: the active profile's incidents, of whatever age.
ReportAll(p) ==
    LET incs == {i \in incidents : i.profile = p} IN Show("organization", incs, OrgSummaries(incs))

Next ==
    \/ Tick
    \/ \E p \in Profiles, s \in Services, c \in Categories, m \in Minutes, e \in Sources :
          Resolve(p, s, c, m, e)
    \/ \E p \in Profiles : ListProfile(p) \/ ReportAll(p)
    \/ \E i \in incidents : ListIncident(i)
    \/ ListAll

Spec == Init /\ [][Next]_vars

\* ------------------------------ properties -------------------------------

\* In range: what is spent is of these categories, all suggestions are of them.
TypeOK ==
    /\ now \in 0..MaxTime /\ Cardinality(incidents) <= MaxIncidents
    /\ shown # None =>
          /\ DOMAIN shown.summary.breakdown \subseteq Categories
          /\ DOMAIN shown.summary.suggested \subseteq DOMAIN shown.summary.breakdown
          /\ \A c \in DOMAIN shown.summary.suggested :
                shown.summary.suggested[c].confidence \in 1..4

\* What automation is said to save was spent: the savings of a report do not
\* exceed the cost of the same report, for a profile at its own rate, for an
\* organization whose profiles have different ones; and when no profile has
\* more categories than are suggested, all of the cost could be saved.
SavingsWithinCost ==
    shown # None =>
        /\ shown.summary.savings <= shown.summary.cost
        /\ Cardinality(DOMAIN shown.summary.breakdown) <= Top
              => shown.summary.savings = shown.summary.cost

=============================================================================

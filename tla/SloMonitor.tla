----------------------------- MODULE SloMonitor -----------------------------
(***************************************************************************)
(* The monitor of service level objectives (src/internal/slo/service.go,   *)
(* monitor_handler.go): every tick it queries all objectives, and hands    *)
(* those that are breached to the processor of alerts.                     *)
(*                                                                         *)
(* An objective asks that no more than half of the requests fail, or are   *)
(* slow. The queries of one check see the same moment. Burn rates, budget, *)
(* trend and the risk are left out: a high risk comes with a breach only.  *)
(***************************************************************************)
EXTENDS Naturals

CONSTANTS Slos,
          Kinds,        \* of objectives there are: "ratio", "latency" or "query"
          MaxRequests   \* bound on the requests in a window

VARIABLES kindOf,       \* of each objective
          requests,     \* in the window of each objective, or Absent
          failures,     \* those that failed or were slow, or Absent
          reachable,    \* Prometheus answers
          todo,         \* objectives this tick has yet to check
          results,      \* results of the tick that are not handled
          handling,     \* the checks are over, the callbacks run
          firing        \* objectives whose last result raised an alert

vars == <<kindOf, requests, failures, reachable, todo, results, handling, firing>>
world == <<kindOf, requests, failures, reachable>>

ConstantsAssumption == MaxRequests \in Nat

Absent == MaxRequests + 1       \* no such series
MinRequests == 2
NaN == 2 * MaxRequests          \* 0/0, which compares to nothing

Failing(s) == requests[s] \in 1..MaxRequests /\ failures[s] # Absent
                  /\ 2 * failures[s] > requests[s]

TypeOK ==
    /\ kindOf \in [Slos -> Kinds]
    /\ requests \in [Slos -> 0..Absent] /\ failures \in [Slos -> 0..Absent]
    /\ reachable \in BOOLEAN /\ handling \in BOOLEAN
    /\ todo \subseteq Slos /\ firing \subseteq Slos
    /\ \A r \in results : r.slo \in Slos \ todo

Init ==
    /\ kindOf \in [Slos -> Kinds]
    /\ requests = [s \in Slos |-> Absent] /\ failures = [s \in Slos |-> Absent]
    /\ reachable = TRUE
    /\ todo = {} /\ results = {} /\ handling = FALSE /\ firing = {}

\* A window without failures may or may not have a series of them.
Change(s) ==
    /\ requests' \in {[requests EXCEPT ![s] = n] : n \in 0..Absent}
    /\ failures' \in {[failures EXCEPT ![s] = f] : f \in 0..Absent}
    /\ requests'[s] = Absent => failures'[s] = Absent
    /\ failures'[s] # Absent => failures'[s] <= requests'[s]
    /\ UNCHANGED <<kindOf, reachable, todo, results, handling, firing>>

Outage ==
    /\ reachable' = ~reachable
    /\ UNCHANGED <<kindOf, requests, failures, todo, results, handling, firing>>

\* ------------------------------- CheckSLOs -------------------------------

\* The share of failures in per cent of the objective, as the division has it.
Share(f, n) == IF n = 0 THEN NaN ELSE (2 * f) \div n
Meets(f, n) == Share(f, n) # NaN /\ 2 * f <= n

Ratio(n, f) ==
    CASE n = Absent -> "NO_DATA"
      [] n = 0 -> "NO_TRAFFIC"
      [] n < MinRequests \/ f = Absent -> "NO_DATA"
      [] OTHER -> IF Meets(f, n) THEN "OK" ELSE "BREACHING"

\* A quantile of no requests is not a number.
Latency(n, f) ==
    CASE n = Absent -> "NO_DATA"
      [] n > 0 /\ f = Absent -> "COMPLIANT"
      [] OTHER -> IF Meets(f, n) THEN "COMPLIANT" ELSE "BREACHING"

Query(n, f) ==
    IF n = Absent \/ f = Absent THEN "ERROR"
    ELSE IF Meets(f, n) THEN "COMPLIANT" ELSE "BREACHING"

Compliance(s) ==
    IF ~reachable THEN "ERROR"
    ELSE CASE kindOf[s] = "ratio" -> Ratio(requests[s], failures[s])
           [] kindOf[s] = "latency" -> Latency(requests[s], failures[s])
           [] OTHER -> Query(requests[s], failures[s])

\* -------------------------------- Monitor --------------------------------

Tick ==
    /\ todo = {} /\ ~handling
    /\ todo' = Slos
    /\ UNCHANGED <<world, results, handling, firing>>

\* The result keeps what was measured.
Check(s) ==
    /\ s \in todo /\ todo' = todo \ {s}
    /\ results' = results \cup {[slo |-> s, compliance |-> Compliance(s),
                                 requests |-> requests[s], failing |-> Failing(s)]}
    /\ handling' = (todo' = {})
    /\ UNCHANGED <<world, firing>>

\* As Handle, taking an error for a breach.
HandleErrors(r) ==
    /\ handling /\ r \in results /\ results' = results \ {r}
    /\ firing' = IF r.compliance \in {"BREACHING", "ERROR"} THEN firing \cup {r.slo}
                 ELSE firing \ {r.slo}
    /\ handling' = (results' # {})
    /\ UNCHANGED <<world, todo>>

\* The callback: a breach goes to the processor of alerts.
Handle(r) ==
    /\ handling /\ r \in results /\ results' = results \ {r}
    /\ firing' = IF r.compliance = "BREACHING" THEN firing \cup {r.slo} ELSE firing \ {r.slo}
    /\ handling' = (results' # {})
    /\ UNCHANGED <<world, todo>>

Work == Tick \/ (\E s \in Slos : Check(s)) \/ (\E r \in results : Handle(r))
Next == Work \/ Outage \/ \E s \in Slos : Change(s)

Fairness == WF_vars(Work)

Spec == Init /\ [][Next]_vars /\ Fairness

\* ------------------------------ properties -------------------------------

\* An objective that goes on failing fires, and stops to when it goes on being
\* met, as long as Prometheus answers and there are requests enough.
FiringSettles ==
    \A s \in Slos :
        /\ <>[](reachable /\ Failing(s) /\ requests[s] >= MinRequests) => <>[](s \in firing)
        /\ <>[](reachable /\ ~Failing(s) /\ requests[s] \in 1..MaxRequests) => <>[](s \notin firing)

\* Without traffic no objective is breached.
NoTrafficIsNoBreach ==
    \A r \in results : r.requests = 0 => r.compliance # "BREACHING"

=============================================================================

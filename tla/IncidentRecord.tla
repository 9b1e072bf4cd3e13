--------------------------- MODULE IncidentRecord ---------------------------
(***************************************************************************)
(* The incident record that internal/incident keeps in one JSON file per   *)
(* incident, and the pure operators on it: the transition table of         *)
(* state.go, the constructors and the edits that the operations of         *)
(* service.go apply to an in-memory copy before they save it.              *)
(*                                                                         *)
(* Only the fields the properties tell apart are kept: the state, the      *)
(* event log (type and user of each event), the service, and which of the  *)
(* two writers of the metadata map have left their entries in it.          *)
(***************************************************************************)
EXTENDS Naturals, Sequences

CONSTANTS
    Actors,     \* goroutines that run an operation; also the users of events
    Services    \* service names

State == {"Suggested", "Started", "Acknowledged", "Resolved"}

EventType == {"suggest", "start", "note", "severity", "ack", "resolve"}

\* "alert": entries of the alert handler; "runbook": the runbook suggestion.
Tag == {"alert", "runbook"}

Event == [type: EventType, user: Actors]

Incident == [state: State, events: Seq(Event), service: Services,
             metadata: SUBSET Tag]

-----------------------------------------------------------------------------
(***************************************************************************)
(* state.go: the transitions ValidateTransition accepts between persisted  *)
(* states (the empty state is that of an incident not yet built).          *)
(***************************************************************************)
ValidateTransition(from, to) ==
    \/ from = "Suggested" /\ to \in {"Started", "Resolved"}
    \/ from = "Started" /\ to \in {"Acknowledged", "Resolved"}
    \/ from = "Acknowledged" /\ to = "Resolved"

\* The record Start and StartForServiceFlow build.
StartedIncident(u, s) ==
    [state |-> "Started", events |-> <<[type |-> "start", user |-> u]>>,
     service |-> s, metadata |-> {}]

\* The record Suggest builds.
SuggestedIncident(u, s) ==
    [state |-> "Suggested", events |-> <<[type |-> "suggest", user |-> u]>>,
     service |-> s, metadata |-> {}]

\* inc.Events = append(inc.Events, Event{...}) on a copy.
AddEvent(r, t, u) ==
    [r EXCEPT !.events = Append(@, [type |-> t, user |-> u])]

\* As Transition, with the event forgotten.
SilentTransition(r, to, t, u) == [r EXCEPT !.state = to]

\* A transition sets the state and appends the event that explains it.
Transition(r, to, t, u) == [AddEvent(r, t, u) EXCEPT !.state = to]

IsResolved(r) == r.state = "Resolved"

\* An incident counts as active when neither resolved nor only suggested.
IsActive(r) == r.state \notin {"Resolved", "Suggested"}

-----------------------------------------------------------------------------
(***************************************************************************)
(* What a reader of one record relies on: the event log is the log of a    *)
(* legal life, and the state is the one that life leads to.                *)
(***************************************************************************)
Has(h, t) == \E i \in DOMAIN h : h[i].type = t

OpensOnce(h) ==
    /\ h # <<>>
    /\ h[1].type \in {"suggest", "start"}
    /\ \A i \in DOMAIN h : h[i].type = "suggest" => i = 1

AtMostOnce(h, t) ==
    \A i, j \in DOMAIN h : h[i].type = t /\ h[j].type = t => i = j

\* Once resolved, an incident's log takes notes and severity changes only.
ClosedAfterResolve(h) ==
    \A i, j \in DOMAIN h :
        h[i].type = "resolve" /\ i < j => h[j].type \in {"note", "severity"}

\* An acknowledgement follows the start it acknowledges.
AckAfterStart(h) ==
    \A i \in DOMAIN h :
        h[i].type = "ack" => \E j \in DOMAIN h : j < i /\ h[j].type = "start"

LegalHistory(h) ==
    /\ OpensOnce(h)
    /\ \A t \in {"start", "ack", "resolve"} : AtMostOnce(h, t)
    /\ ClosedAfterResolve(h)
    /\ AckAfterStart(h)

StateAfter(h) ==
    IF Has(h, "resolve") THEN "Resolved"
    ELSE IF Has(h, "ack") THEN "Acknowledged"
    ELSE IF Has(h, "start") THEN "Started"
    ELSE "Suggested"

Consistent(r) == LegalHistory(r.events) /\ r.state = StateAfter(r.events)

\* Two records are versions of one incident: same service, same first event.
SameIncident(r, q) == r.service = q.service /\ r.events[1] = q.events[1]

=============================================================================

-------------------------- MODULE IncidentBrowser --------------------------
(***************************************************************************)
(* The browser of incidents of the console                                 *)
(* (src/internal/tui/incident_browser.go): the list with its filters, its  *)
(* pages and its cursor, and the detail of the incident that was picked.   *)
(* The list is read when the view is opened.                               *)
(***************************************************************************)
EXTENDS Naturals, Sequences, SequencesExt, Selections

CONSTANTS Stores,       \* lists of incidents that may be read
          Severities,   \* severities a filter key exists for
          PageSize      \* incidentPageSize, 10 as it is never set

ConstantsAssumption ==
    PageSize \in Nat \ {0} /\ \A l \in Stores : l \in Seq(ToSet(l))

VARIABLES list,         \* incidentList
          severity,     \* incidentFilterSeverity
          state,        \* incidentFilterState
          filtered,     \* filteredIncidentList
          cursor,       \* incidentSelectedIndex
          page,         \* incidentCurrentPage
          picked        \* selectedIncident while its detail is shown, or <<>>

TypeOK ==
    /\ list \in Stores \cup {<<>>}
    /\ severity \in Severities \cup {"all"} /\ state \in {"all", "active", "resolved"}
    /\ cursor \in Nat /\ page \in Nat
    /\ Len(picked) <= 1 /\ ToSet(filtered \o picked) \subseteq UNION {ToSet(l) : l \in Stores}

vars == <<list, severity, state, filtered, cursor, page, picked>>

Passes(i, sev, st) ==
    /\ sev = "all" \/ i.severity = sev
    /\ CASE st = "all" -> TRUE
         [] st = "active" -> i.state \notin {"resolved", "suggested"}
         [] OTHER -> i.state = st

\* applyIncidentFilters: the cursor goes back to the first incident when it
\* falls off the list; the page is not touched, for the size is not set.
Filter(l, sev, st) ==
    /\ list' = l /\ severity' = sev /\ state' = st
    /\ filtered' = Selected(l, {k \in DOMAIN l : Passes(l[k], sev, st)})
    /\ cursor' = IF cursor >= Len(filtered') THEN 0 ELSE cursor
    /\ UNCHANGED page

Init ==
    /\ list = <<>> /\ filtered = <<>> /\ picked = <<>>
    /\ severity = "all" /\ state = "all"
    /\ cursor = 0 /\ page = 0

\* loadIncidents, each time the view is opened.
Load ==
    /\ \E l \in Stores : Filter(l, severity, state)
    /\ UNCHANGED picked

\* The keys 1 to 4, a, r and x of the list.
PressFilter ==
    /\ picked = <<>>
    /\ \/ \E s \in Severities : Filter(list, s, state)
       \/ \E s \in {"active", "resolved"} : Filter(list, severity, s)
       \/ Filter(list, "all", "all")
    /\ UNCHANGED picked

MoveTo(c, p) ==
    /\ cursor' = c /\ page' = p
    /\ UNCHANGED <<list, severity, state, filtered, picked>>

Up ==
    /\ picked = <<>> /\ cursor > 0
    /\ MoveTo(cursor - 1, IF cursor - 1 < page * PageSize THEN page - 1 ELSE page)

Down ==
    /\ picked = <<>> /\ cursor + 1 < Len(filtered)
    /\ MoveTo(cursor + 1, IF cursor + 1 >= (page + 1) * PageSize THEN page + 1 ELSE page)

PageUp ==
    /\ picked = <<>> /\ page > 0
    /\ MoveTo((page - 1) * PageSize, page - 1)

PageDown ==
    /\ picked = <<>> /\ filtered # <<>>
    /\ page < (Len(filtered) - 1) \div PageSize
    /\ MoveTo((page + 1) * PageSize, page + 1)

Home == picked = <<>> /\ MoveTo(0, 0)

End ==
    /\ picked = <<>> /\ filtered # <<>>
    /\ MoveTo(Len(filtered) - 1, (Len(filtered) - 1) \div PageSize)

Enter ==
    /\ picked = <<>> /\ cursor < Len(filtered)
    /\ picked' = <<filtered[cursor + 1]>>
    /\ UNCHANGED <<list, severity, state, filtered, cursor, page>>

Back ==
    /\ picked # <<>> /\ picked' = <<>>
    /\ UNCHANGED <<list, severity, state, filtered, cursor, page>>

Next ==
    \/ Load \/ PressFilter \/ Enter \/ Back
    \/ Up \/ Down \/ PageUp \/ PageDown \/ Home \/ End

Spec == Init /\ [][Next]_vars

\* The cursor is on the list, and on the page that is shown.
CursorOnPage ==
    /\ cursor \in (page * PageSize)..(page * PageSize + PageSize - 1)
    /\ cursor < Len(filtered) \/ cursor = 0

\* No key takes the cursor off the list or off the page that is shown; only a
\* filter, or another list, may leave it elsewhere (incident_browser.go:59).
KeysKeepPage == [][CursorOnPage /\ filtered' = filtered => CursorOnPage']_vars

=============================================================================

------------------------------ MODULE Console ------------------------------
(***************************************************************************)
(* The full-screen console (src/internal/tui/interactive_tui.go): which    *)
(* views are on, what is drawn and where it is scrolled, the selectors of  *)
(* services and endpoints, the drilldown, and the commands whose answers   *)
(* come back as messages while the user goes on pressing keys.             *)
(*                                                                         *)
(* Update handles one message at a time, so one action is one message.     *)
(* The text of a view is abstracted to its name, the service it is about   *)
(* and its number of lines. The editors "edit" and "auth" and the view     *)
(* "config" are never opened by any key and are left out.                  *)
(***************************************************************************)
EXTENDS Naturals, Sequences, FiniteSets, Functions

CONSTANTS Editors,      \* editors of the configuration, by the name of their flag
          Selectors,    \* "services" and "endpoints"
          Plain,        \* the other views
          Services,     \* services a drilldown can be opened for
          None,         \* no service
          Fleets,       \* lists of services a refresh can report
          Lists,        \* lengths the lists of the selectors can have
          Lines,        \* lines of a drawn view, by its name
          Height,       \* lines of the window that show content
          Window,       \* rows of the drilldown list kept in sight
          MaxScroll,    \* bound on the scroll position
          MaxAsked      \* bound on commands in flight

\* The views keys open; an instance may leave some of them out.
ASSUME ViewsAssumption ==
    /\ Editors \subseteq {"prom", "loki", "grafana", "tempo", "jaeger", "correlation",
                         "backend", "elastic"}
    /\ Selectors \subseteq {"services", "endpoints"}
    /\ Plain \subseteq {"help", "incidents", "flows", "cluster", "drilldown", "logs"}
    /\ {"incidents", "logs"} \subseteq Plain
    /\ Lines \in [Editors \cup Selectors \cup Plain \cup {"main", "detail"} -> Nat]

ASSUME ReportsAssumption ==
    /\ Fleets \subseteq Seq(Services)
    /\ Lists \subseteq Nat
    /\ {Height, Window} \subseteq Nat

VARIABLES shown,        \* views whose show flag is set
          detail,       \* showServiceDrilldownDetail
          content,      \* what was drawn last: view and service
          scroll,       \* scrollY
          fleet,        \* report.AllServices
          at,           \* selected index of the drilldown and the selectors
          picks,        \* lengths of serviceList and endpointList
          selected,     \* selectedDrilldownService
          drill,        \* service of report.ServiceDrilldown
          loading,      \* the loading flags that are set
          asked,        \* commands in flight, counted by kind
          lost,         \* a refresh died since loadingRefresh was last cleared
          running

data == <<fleet, at, picks, selected, drill>>
work == <<loading, asked, lost>>
vars == <<shown, detail, content, scroll, data, work, running>>

Views == Editors \cup Selectors \cup Plain

\* What a command in flight will answer: a refresh carries the drilldown of
\* the service that was selected when it was sent.
Refresh(s) == [kind |-> "refresh", of |-> s]
Fetch(kind) == [kind |-> kind, of |-> None]
Commands == {Refresh(s) : s \in Services \cup {None}} \cup
            {Fetch(k) : k \in Selectors \cup {"filter", "logs"}}

\* ------------------------------ drawing ---------------------------------

\* The order in which renderCurrentView and WindowSizeMsg look for a view.
CurrentOrder == <<"help", "incidents", "flows", "cluster", "drilldown", "services",
    "endpoints", "logs", "loki", "prom", "grafana", "tempo", "jaeger", "correlation",
    "backend", "elastic">>
ResizeOrder == <<"help", "prom", "correlation", "backend", "elastic", "services",
    "endpoints", "logs", "loki", "grafana", "tempo", "jaeger", "incidents", "flows",
    "cluster", "drilldown">>

First(order, views) ==
    IF views = {} THEN "main"
    ELSE order[CHOOSE i \in DOMAIN order :
                  order[i] \in views /\ \A j \in 1..(i - 1) : order[j] \notin views]

\* As Detail, without comparing the drilldown with the selection.
DetailUnchecked(wanted, got) ==
    [view |-> "detail", of |-> got]

\* renderServiceDrilldown: a detail draws signals only when the drilldown at
\* hand is the one of the selected service.
Detail(wanted, got) ==
    [view |-> "detail", of |-> IF got = wanted THEN got ELSE None]

Drawn(view) ==
    IF view = "drilldown" /\ detail' THEN Detail(selected', drill')
    ELSE [view |-> view, of |-> None]

LinesOf(c, f) ==
    CASE c.view = "drilldown" -> Lines["drilldown"] + Len(f)
      [] c.view = "detail" /\ c.of = None -> 1
      [] OTHER -> Lines[c.view]

\* View slices lines[scrollY:end]; a start past the last line panics.
Draw(view) ==
    /\ content' = Drawn(view)
    /\ running' = (scroll' <= LinesOf(content', fleet'))

\* Only the position changes: what was drawn is sliced again.
Slice ==
    /\ content' = content
    /\ running' = (scroll' <= LinesOf(content, fleet))

Ask(c) == asked' = [asked EXCEPT ![c] = @ + 1]
InFlight == SumFunction(asked)
MayAsk == InFlight < MaxAsked

Init ==
    /\ shown \in {{}, {"incidents"}}
    /\ detail = FALSE
    /\ content = [view |-> "main", of |-> None]
    /\ scroll = 0
    /\ fleet \in Fleets
    /\ at = [v \in Selectors \cup {"drilldown"} |-> 0]
    /\ picks = [v \in Selectors |-> 0]
    /\ selected = None
    /\ drill = None
    /\ loading = {"refresh"}
    /\ asked = [c \in Commands |-> IF c = Refresh(None) THEN 1 ELSE 0]
    /\ lost = FALSE
    /\ running = TRUE

\* --------------------------- keys of the views ---------------------------

Over == shown \cap (Editors \cup Selectors) = {}     \* no view captures the keys
Browsed == "incidents" \in shown                     \* the browser takes some keys

\* The flags the toggling keys clear. Only u and p clear cluster and drilldown.
Basic == {"help", "incidents", "flows", "services", "endpoints", "logs", "loki", "grafana"}
Full == Basic \cup {"prom", "tempo", "jaeger", "correlation", "backend", "elastic"}

\* As Hides, with one of the two overviews left on under the other.
HidesLess(view) ==
    CASE view = "cluster" -> Basic
      [] view = "drilldown" -> Basic
      [] view = "help" -> Basic
      [] OTHER -> Full

Hides(view) ==
    CASE view = "cluster" -> Basic \cup {"drilldown"}
      [] view = "drilldown" -> Basic \cup {"cluster"}
      [] view = "help" -> Basic
      [] OTHER -> Full

Toggled(view) ==
    IF view \in shown THEN shown \ (Hides(view) \cup {view})
    ELSE (shown \ Hides(view)) \cup {view}

\* u, p, h, i and f; u needs a report of the infrastructure. The browser of
\* incidents takes r or e for itself in one of its modes, and x in one.
Toggle(view) ==
    /\ Over
    /\ shown' = Toggled(view)
    /\ scroll' = 0
    /\ UNCHANGED <<detail, data, work>>
    /\ Draw(IF view \in shown' THEN view ELSE "main")

\* s and r: the list starts from the last report; when that names nothing but
\* "All services" the names are fetched in the background.
OpenSelector(view) ==
    /\ Over /\ MayAsk
    /\ shown' = Toggled(view)
    /\ scroll' = 0
    /\ at' = [at EXCEPT ![view] = 0]
    /\ \E n \in Lists \cup {1} :
          /\ picks' = [picks EXCEPT ![view] = n]
          /\ IF n <= 1 THEN Ask(Fetch(view)) /\ loading' = loading \cup {view}
             ELSE UNCHANGED <<asked, loading>>
    /\ UNCHANGED <<detail, fleet, selected, drill, lost>>
    /\ Draw(view)

\* c, z, b, e, t, ctrl+j, o and v open an editor; c, o and v also reset the
\* loading flags, whatever is in flight.
OpenEditor(view) ==
    /\ Over
    /\ shown' = (shown \ Full) \cup {view}
    /\ scroll' = 0
    /\ IF view \in {"prom", "loki", "grafana"} THEN loading' = {} /\ lost' = FALSE
       ELSE UNCHANGED <<loading, lost>>
    /\ UNCHANGED <<detail, data, asked>>
    /\ Draw(view)

\* l: nothing is drawn before the lines arrive.
StartLogs ==
    /\ Over /\ MayAsk
    /\ shown' = (shown \ Full) \cup {"logs"}
    /\ scroll' = 0
    /\ Ask(Fetch("logs"))
    /\ content' = content
    /\ UNCHANGED <<detail, data, loading, lost, running>>

\* Esc and q in an editor.
CloseEditor(view) ==
    /\ view \in shown
    /\ shown' = shown \ {view}
    /\ scroll' = 0
    /\ UNCHANGED <<detail, data, work>>
    /\ Draw("main")

CloseSelector(view) ==
    /\ view \in shown
    /\ shown' = shown \ {view}
    /\ loading' = loading \ {view}
    /\ UNCHANGED <<detail, scroll, data, asked, lost>>
    /\ Draw("main")

\* Up, down and enter in a selector; enter on a selection past the end panics.
MoveInSelector(view) ==
    /\ view \in shown
    /\ \E i \in {at[view] - 1, at[view] + 1} \cap (0..picks[view] - 1) :
          at' = [at EXCEPT ![view] = i]
    /\ UNCHANGED <<shown, detail, scroll, fleet, picks, selected, drill, work>>
    /\ Draw(view)

ApplyFilter(view) ==
    /\ view \in shown
    /\ picks[view] > 0 /\ MayAsk
    /\ UNCHANGED <<shown, detail, scroll, data, lost>>
    /\ IF at[view] < picks[view]
       THEN Ask(Fetch("filter")) /\ loading' = loading \cup {view} /\ Draw(view)
       ELSE running' = FALSE /\ UNCHANGED <<content, loading, asked>>

\* ------------------------- keys everywhere else --------------------------

Listing == "drilldown" \in shown /\ ~detail

\* Enter in the list of services opens a detail and asks for its drilldown.
OpenDetail ==
    /\ Over /\ ~Browsed /\ Listing
    /\ fleet # <<>> /\ MayAsk
    /\ IF at["drilldown"] < Len(fleet)
       THEN /\ selected' = fleet[at["drilldown"] + 1]
            /\ detail' = TRUE
            /\ drill' = None
            /\ scroll' = 0
            /\ Ask(Refresh(selected'))
            /\ UNCHANGED <<shown, fleet, at, picks, loading, lost>>
            /\ Draw("drilldown")
       ELSE running' = FALSE /\ UNCHANGED <<shown, detail, content, scroll, data, work>>

\* Esc leaves a detail for the list, and any other view for the main screen.
Escape ==
    /\ Over
    /\ shown # {}
    /\ IF "drilldown" \in shown /\ detail
       THEN detail' = FALSE /\ UNCHANGED <<shown, scroll>>
       ELSE shown' = {} /\ scroll' = 0 /\ UNCHANGED detail
    /\ UNCHANGED <<data, work>>
    /\ Draw(IF shown' = {} THEN "main" ELSE "drilldown")

\* The browser of incidents handles the key and is drawn again.
Browse ==
    /\ Over /\ Browsed
    /\ UNCHANGED <<shown, detail, scroll, data, work>>
    /\ Draw("incidents")

\* E, M, J, D, y and x leave a message on the main screen and draw it, in
\* whatever view they are pressed.
DrawMain ==
    /\ Over
    /\ UNCHANGED <<shown, detail, scroll, data, work>>
    /\ Draw("main")

\* Up and down move the selection of the list of services, or the screen.
MoveInList ==
    /\ Over /\ ~Browsed /\ Listing
    /\ \/ /\ at["drilldown"] > 0
          /\ at' = [at EXCEPT !["drilldown"] = @ - 1]
          /\ scroll' = IF at'["drilldown"] < scroll THEN at'["drilldown"] ELSE scroll
       \/ /\ at["drilldown"] + 1 < Len(fleet)
          /\ at' = [at EXCEPT !["drilldown"] = @ + 1]
          /\ scroll' = IF at'["drilldown"] >= scroll + Window
                       THEN at'["drilldown"] - Window + 1 ELSE scroll
    /\ UNCHANGED <<shown, detail, fleet, picks, selected, drill, work>>
    /\ Draw("drilldown")

\* As Scroll, with the check of the top forgotten.
ScrollPastTop ==
    /\ Over /\ ~Browsed /\ ~Listing
    /\ \/ scroll' = scroll - 1
       \/ scroll < MaxScroll /\ scroll' = scroll + 1
    /\ UNCHANGED <<shown, detail, data, work>>
    /\ Draw(First(CurrentOrder, shown))

Scroll ==
    /\ Over /\ ~Browsed /\ ~Listing
    /\ \/ scroll > 0 /\ scroll' = scroll - 1
       \/ scroll < MaxScroll /\ scroll' = scroll + 1
    /\ UNCHANGED <<shown, detail, data, work>>
    /\ Draw(First(CurrentOrder, shown))

\* Pgup, pgdown, home and end know the end of the content.
Page ==
    /\ Over /\ ~Browsed
    /\ LET step == IF Height < 2 THEN 1 ELSE Height \div 2
           last == LinesOf(content, fleet) - Height
       IN \/ scroll' = IF scroll > step THEN scroll - step ELSE 0
          \/ last > 0 /\ scroll' = IF scroll + step > last THEN last ELSE scroll + step
          \/ scroll' = 0
          \/ last > 0 /\ scroll' = last
    /\ UNCHANGED <<shown, detail, data, work>>
    /\ Slice

Resize ==
    /\ UNCHANGED <<shown, detail, scroll, data, work>>
    /\ Draw(First(ResizeOrder, shown))

Quit ==
    /\ Over
    /\ running' = FALSE
    /\ UNCHANGED <<shown, detail, content, scroll, data, work>>

\* ------------------------------- messages --------------------------------

Answered(c) == asked[c] > 0 /\ asked' = [asked EXCEPT ![c] = @ - 1]

\* refreshTickMsg comes every 30 seconds and is passed over while a refresh
\* is awaited, and in these views.
Still == Editors \cup {"logs", "incidents", "flows"}

RefreshTick ==
    /\ "refresh" \notin loading
    /\ shown \cap Still = {}
    /\ MayAsk
    /\ loading' = loading \cup {"refresh"}
    /\ Ask(Refresh(selected))
    /\ UNCHANGED <<shown, detail, content, scroll, data, lost, running>>

\* refreshAPILatencyCmd recovers from a panic with no message at all: nothing
\* clears the flag. So it is when a refresh never returns, as in the loop of
\* QueryVector.
RefreshDies(s) ==
    /\ Answered(Refresh(s))
    /\ lost' = (lost \/ "refresh" \in loading)
    /\ UNCHANGED <<shown, detail, content, scroll, data, loading, running>>

\* As ApplyRefresh, leaving the flag of the refresh set.
ApplyRefreshStillLoading(s) ==
    /\ Answered(Refresh(s))
    /\ lost' = FALSE /\ UNCHANGED loading
    /\ \E f \in Fleets : fleet' = IF f = <<>> THEN fleet ELSE f
    /\ drill' \in IF s = None THEN {drill} ELSE {drill, s}
    /\ UNCHANGED <<shown, detail, scroll, at, picks, selected>>
    /\ Draw(First(CurrentOrder, shown))

\* apiRefreshMsg: an empty list of services and a missing drilldown keep the
\* old ones; the services may be fewer than before.
ApplyRefresh(s) ==
    /\ Answered(Refresh(s))
    /\ loading' = loading \ {"refresh"} /\ lost' = FALSE
    /\ \E f \in Fleets : fleet' = IF f = <<>> THEN fleet ELSE f
    /\ drill' \in IF s = None THEN {drill} ELSE {drill, s}
    /\ UNCHANGED <<shown, detail, scroll, at, picks, selected>>
    /\ Draw(First(CurrentOrder, shown))

\* serviceListMsg and endpointListMsg count only while the view is open.
ListArrives(view) ==
    /\ Answered(Fetch(view))
    /\ UNCHANGED <<shown, detail, scroll, fleet, at, selected, drill, lost>>
    /\ IF view \in shown
       THEN /\ \E n \in Lists \cup {picks[view]} : picks' = [picks EXCEPT ![view] = n]
            /\ loading' = loading \ {view}
            /\ Draw(view)
       ELSE UNCHANGED <<picks, loading, content, running>>

FilterArrives ==
    /\ Answered(Fetch("filter"))
    /\ loading' = loading \ Selectors
    /\ UNCHANGED <<shown, detail, scroll, data, lost>>
    /\ IF "services" \in shown THEN Draw("services")
       ELSE IF "endpoints" \in shown THEN Draw("endpoints")
       ELSE UNCHANGED <<content, running>>

LogsArrive ==
    /\ Answered(Fetch("logs"))
    /\ UNCHANGED <<shown, detail, scroll, data, loading, lost>>
    /\ IF "logs" \in shown THEN Draw("logs") ELSE UNCHANGED <<content, running>>

Answer ==
    \/ \E s \in Services \cup {None} : ApplyRefresh(s)
    \/ \E v \in Selectors : ListArrives(v)
    \/ FilterArrives
    \/ LogsArrive

Key ==
    \/ \E v \in Plain \ {"logs"} : Toggle(v)
    \/ \E v \in Selectors :
          OpenSelector(v) \/ CloseSelector(v) \/ MoveInSelector(v) \/ ApplyFilter(v)
    \/ \E v \in Editors : OpenEditor(v) \/ CloseEditor(v)
    \/ StartLogs \/ OpenDetail \/ Escape \/ Browse \/ DrawMain \/ MoveInList
    \/ Scroll \/ Page \/ Resize \/ Quit

Dies == \E s \in Services \cup {None} : RefreshDies(s)

Next == running /\ (Key \/ RefreshTick \/ Answer \/ Dies)

\* The ticker keeps ticking, and a command returns, as its requests time out, or
\* is a refresh that dies: that it ever answers is not assumed.
Fairness ==
    /\ WF_vars(running /\ RefreshTick)
    /\ WF_vars(running /\ (Answer \/ Dies))

Spec == Init /\ [][Next]_vars /\ Fairness

\* ------------------------------ properties -------------------------------

\* Every variable stays within its type.
TypeOK ==
    /\ shown \subseteq Views
    /\ detail \in BOOLEAN /\ running \in BOOLEAN
    /\ content \in [view : Views \cup {"main", "detail"}, of : Services \cup {None}]
    /\ scroll \in Nat
    /\ fleet \in Fleets
    /\ at \in [Selectors \cup {"drilldown"} -> Nat]
    /\ picks \in [Selectors -> Lists \cup {0, 1}]
    /\ selected \in Services \cup {None} /\ drill \in Services \cup {None}
    /\ loading \subseteq {"refresh"} \cup Selectors
    /\ asked \in [Commands -> Nat] /\ lost \in BOOLEAN

\* However views are switched, keys reach one view: apart from the cluster
\* and drilldown overviews, which stay on underneath, one view is on, and
\* the two overviews never are together.
OneView ==
    /\ Cardinality(shown \ {"cluster", "drilldown"}) <= 1
    /\ ~({"cluster", "drilldown"} \subseteq shown)

\* The detail of a service never shows the signals of another one, whichever
\* order the answers of refreshes asked for different services come in.
DetailIsOfSelected ==
    (content.view = "detail" /\ content.of # None /\ detail) => content.of = selected

\* While the main screen stays up, the report goes on being refreshed. Only a
\* refresh that dies ends that, for until an answer comes or the user opens one
\* of the editors that clear the flag every tick is passed over.
KeepsRefreshing ==
    <>[](running /\ shown = {}) =>
        \/ []<><<\E s \in Services \cup {None} : ApplyRefresh(s)>>_vars
        \/ <>[]lost

=============================================================================

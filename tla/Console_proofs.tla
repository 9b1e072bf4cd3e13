--------------------------- MODULE Console_proofs ---------------------------
(***************************************************************************)
(* Proofs about Console for any services, reports and lists, however long, *)
(* and for every set of the code's views.                                  *)
(***************************************************************************)
EXTENDS Console, FiniteSetTheorems, WellFoundedInduction, TLAPS

-----------------------------------------------------------------------------
(* The views. *)

Overviews == {"cluster", "drilldown"}

\* Apart from the overviews, which exclude each other, one view is on.
Single(views) ==
    /\ views \subseteq Views
    /\ \A u, v \in views \ Overviews : u = v
    /\ ~(Overviews \subseteq views)

LEMMA SingleCount ==
    ASSUME NEW S, Single(S)
    PROVE  Cardinality(S \ Overviews) <= 1
  <1>1. CASE S \ Overviews = {}
    BY <1>1, FS_EmptySet
  <1>2. CASE S \ Overviews # {}
    <2>1. PICK v \in S \ Overviews : S \ Overviews = {v}
      BY <1>2 DEF Single
    <2> QED
      BY <2>1, FS_Singleton
  <1> QED
    BY <1>1, <1>2

LEMMA SingleFewer ==
    ASSUME NEW S, Single(S), NEW T \in SUBSET S
    PROVE  Single(T)
  BY DEF Single

\* A view that hides the others leaves one overview at most under it.
LEMMA SingleOver ==
    ASSUME NEW S, Single(S), NEW v \in Views, v \notin Overviews
    PROVE  Single((S \ Full) \cup {v})
  <1>1. \A u \in S \ Full : u \in Overviews
    BY ViewsAssumption DEF Single, Views, Full, Basic, Overviews
  <1> QED
    BY <1>1 DEF Single, Overviews

\* u, p, h, i and f leave one view on: no editor is open when they work.
LEMMA SingleToggled ==
    ASSUME Single(shown), Over, NEW v \in Plain \ {"logs"}
    PROVE  Single(Toggled(v)) /\ (v \in Toggled(v) => v \in Views)
  <1>1. v \in Views
    BY DEF Views
  <1>2. CASE v \in shown
    BY <1>1, <1>2, SingleFewer DEF Toggled
  <1>3. CASE v \notin shown /\ v \in {"incidents", "flows"}
    <2>1. Toggled(v) = (shown \ Full) \cup {v}
      BY <1>3 DEF Toggled, Hides
    <2> QED
      BY <1>1, <1>3, <2>1, SingleOver DEF Overviews
  <1>4. \A u \in shown \ Basic : u \in Overviews
    BY ViewsAssumption DEF Single, Over, Views, Basic, Overviews
  <1>5. CASE v \notin shown /\ v = "help"
    <2>1. Toggled(v) = (shown \ Basic) \cup {v}
      BY <1>5 DEF Toggled, Hides
    <2> QED
      BY <1>1, <1>4, <1>5, <2>1 DEF Single, Overviews
  <1>6. CASE v \notin shown /\ v \in Overviews
    <2>1. Toggled(v) = {v}
      <3>1. Hides(v) = Basic \cup (Overviews \ {v})
        BY <1>6 DEF Hides, Overviews
      <3> QED
        BY <1>4, <1>6, <3>1 DEF Toggled, Overviews
    <2> QED
      BY <1>1, <1>6, <2>1 DEF Single, Overviews
  <1> QED
    BY <1>2, <1>3, <1>5, <1>6, ViewsAssumption DEF Overviews

LEMMA SingleSelector ==
    ASSUME Single(shown), Over, NEW v \in Selectors
    PROVE  Single(Toggled(v))
  <1>1. v \in Views /\ v \notin Overviews /\ v \notin shown
    BY ViewsAssumption DEF Views, Overviews, Over
  <1>2. Toggled(v) = (shown \ Full) \cup {v}
    BY <1>1, ViewsAssumption DEF Toggled, Hides, Overviews
  <1> QED
    BY <1>1, <1>2, SingleOver

\* The view found first is one that is on: both orders name every view.
LEMMA LeastExists ==
    ASSUME NEW S \in SUBSET Nat, S # {}
    PROVE  \E x \in S : \A y \in S : x <= y
  <1> DEFINE R == {ss \in Nat \X Nat : ss[1] < ss[2]}
  <1>1. IsWellFoundedOn(R, Nat)
    BY NatLessThanWellFounded DEF OpToRel
  <1>2. PICK x \in S : \A y \in S : ~(<<y, x>> \in R)
    BY <1>1, WFMin
  <1>3. ASSUME NEW y \in S PROVE x <= y
    <2>1. x \in Nat /\ y \in Nat /\ <<y, x>> \notin R
      BY <1>2
    <2> QED
      BY <2>1
  <1> QED
    BY <1>3

LEMMA FirstFound ==
    ASSUME NEW n \in Nat, NEW order, DOMAIN order = 1..n, NEW S,
           \A v \in S : \E i \in 1..n : order[i] = v
    PROVE  First(order, S) \in S \cup {"main"}
  <1>1. CASE S = {}
    BY <1>1 DEF First
  <1>2. CASE S # {}
    <2> DEFINE I == {i \in 1..n : order[i] \in S}
    <2>1. I \in SUBSET Nat /\ I # {}
      BY <1>2
    <2>2. PICK i \in I : \A j \in I : i <= j
      BY <2>1, LeastExists
    <2>3. i \in DOMAIN order /\ order[i] \in S /\ \A j \in 1..(i - 1) : order[j] \notin S
      BY <2>2
    <2>4. \E k \in DOMAIN order : order[k] \in S /\ \A j \in 1..(k - 1) : order[j] \notin S
      BY <2>3
    <2> QED
      BY <1>2, <2>4 DEF First
  <1> QED
    BY <1>1, <1>2

LEMMA CurrentFound == ASSUME Single(shown) PROVE First(CurrentOrder, shown) \in shown \cup {"main"}
  <1>1. DOMAIN CurrentOrder = 1..16
    BY DEF CurrentOrder
  <1>2. ASSUME NEW v \in shown PROVE \E i \in 1..16 : CurrentOrder[i] = v
    <2>1. v \in {"prom", "loki", "grafana", "tempo", "jaeger", "correlation", "backend",
                 "elastic", "services", "endpoints", "help", "incidents", "flows",
                 "cluster", "drilldown", "logs"}
      BY ViewsAssumption DEF Single, Views
    <2> QED
      BY <2>1 DEF CurrentOrder
  <1> QED
    BY <1>1, <1>2, FirstFound

LEMMA ResizeFound == ASSUME Single(shown) PROVE First(ResizeOrder, shown) \in shown \cup {"main"}
  <1>1. DOMAIN ResizeOrder = 1..16
    BY DEF ResizeOrder
  <1>2. ASSUME NEW v \in shown PROVE \E i \in 1..16 : ResizeOrder[i] = v
    <2>1. v \in {"prom", "loki", "grafana", "tempo", "jaeger", "correlation", "backend",
                 "elastic", "services", "endpoints", "help", "incidents", "flows",
                 "cluster", "drilldown", "logs"}
      BY ViewsAssumption DEF Single, Views
    <2> QED
      BY <2>1 DEF ResizeOrder
  <1> QED
    BY <1>1, <1>2, FirstFound

-----------------------------------------------------------------------------
(***************************************************************************)
(* The inductive invariant: types, one view, and the detail drawn.  A      *)
(* message either draws anew or leaves what was drawn and the selection.   *)
(***************************************************************************)
Inv == TypeOK /\ Single(shown) /\ DetailIsOfSelected

Contents == [view : Views \cup {"main", "detail"}, of : Services \cup {None}]

DataType ==
    /\ fleet \in Fleets
    /\ at \in [Selectors \cup {"drilldown"} -> Nat]
    /\ picks \in [Selectors -> Lists \cup {0, 1}]
    /\ selected \in Services \cup {None} /\ drill \in Services \cup {None}

WorkType ==
    /\ loading \subseteq {"refresh"} \cup Selectors
    /\ asked \in [Commands -> Nat] /\ lost \in BOOLEAN

ScreenType == Single(shown) /\ detail \in BOOLEAN /\ scroll \in Nat

LEMMA InvParts ==
    Inv <=> /\ DataType /\ WorkType /\ ScreenType
            /\ content \in Contents /\ running \in BOOLEAN /\ DetailIsOfSelected
  BY Zenon DEF Inv, TypeOK, DataType, WorkType, ScreenType, Contents, Single

\* What is drawn: a view, or the detail of the service selected or of none.
LEMMA DrawnView ==
    ASSUME NEW v \in Views \cup {"main"}, DataType', Draw(v)
    PROVE  /\ content' \in Contents /\ running' \in BOOLEAN
           /\ content'.view = "detail" => content'.of \in {None, selected'}
  <1>1. selected' \in Services \cup {None} /\ drill' \in Services \cup {None}
    BY DEF DataType
  <1>2. "detail" \notin Views \cup {"main"}
    BY ViewsAssumption DEF Views
  <1>3. /\ content' \in Contents
        /\ content'.view = "detail" => content'.of \in {None, selected'}
    <2>1. content' = Drawn(v)
      BY DEF Draw
    <2> QED
      BY <1>1, <1>2, <2>1 DEF Drawn, Detail, Contents
  <1>4. running' \in BOOLEAN
    <2> DEFINE fits == scroll' <= LinesOf(content', fleet')
    <2>1. running' = fits
      BY DEF Draw
    <2>2. CASE fits
      <3>1. fits = TRUE
        BY <2>2
      <3> HIDE DEF fits
      <3> QED
        BY <2>1, <3>1
    <2>3. CASE ~fits
      <3>1. fits = FALSE
        BY <2>3
      <3> HIDE DEF fits
      <3> QED
        BY <2>1, <3>1
    <2> QED
      BY <2>2, <2>3
  <1> QED
    BY <1>3, <1>4

LEMMA StepDraws ==
    ASSUME NEW v \in Views \cup {"main"}, DataType', WorkType', ScreenType', Draw(v)
    PROVE  Inv'
  <1>1. DetailIsOfSelected'
    <2>1. content'.view = "detail" => content'.of \in {None, selected'}
      BY DrawnView
    <2> QED
      BY <2>1 DEF DetailIsOfSelected
  <1>2. content' \in Contents /\ running' \in BOOLEAN
    BY DrawnView
  <1> QED
    BY <1>1, <1>2, Zenon
    DEF Inv, TypeOK, DataType, WorkType, ScreenType, Contents, Single

LEMMA StepKeepsContent ==
    ASSUME Inv, DataType', WorkType', ScreenType', UNCHANGED <<content, selected>>,
           detail' => detail, running' \in BOOLEAN
    PROVE  Inv'
  <1>1. content \in Contents /\ DetailIsOfSelected
    BY InvParts
  <1>2. DetailIsOfSelected'
    BY <1>1 DEF DetailIsOfSelected
  <1>3. content' \in Contents
    BY <1>1
  <1> QED
    BY <1>2, <1>3, Zenon
    DEF Inv, TypeOK, DataType, WorkType, ScreenType, Contents, Single

LEMMA Parts == ASSUME Inv PROVE DataType /\ WorkType /\ ScreenType /\ running \in BOOLEAN
  BY InvParts

LEMMA DataSame == ASSUME DataType, UNCHANGED data PROVE DataType'
  BY DEF DataType, data

LEMMA WorkSame == ASSUME WorkType, UNCHANGED <<loading, asked, lost>> PROVE WorkType'
  BY DEF WorkType

LEMMA AskType ==
    ASSUME WorkType, NEW c \in Commands, Ask(c) \/ Answered(c) \/ UNCHANGED asked
    PROVE  asked' \in [Commands -> Nat]
  BY DEF WorkType, Ask, Answered

LEMMA CommandOf ==
    /\ \A s \in Services \cup {None} : Refresh(s) \in Commands
    /\ \A k \in Selectors \cup {"filter", "logs"} : Fetch(k) \in Commands
  BY DEF Commands

LEMMA LinesType ==
    ASSUME NEW c \in Contents, NEW f \in Fleets
    PROVE  LinesOf(c, f) \in Nat
  <1>1. Len(f) \in Nat
    BY ReportsAssumption
  <1>2. Lines[c.view] \in Nat
    BY ViewsAssumption DEF Contents, Views
  <1>3. CASE c.view = "drilldown"
    <2>1. LinesOf(c, f) = Lines["drilldown"] + Len(f)
      BY <1>3, Zenon DEF LinesOf
    <2> QED
      BY <1>1, <1>2, <1>3, <2>1
  <1>4. CASE c.view = "detail" /\ c.of = None
    <2>1. LinesOf(c, f) = 1
      BY <1>4, Zenon DEF LinesOf
    <2> QED
      BY <2>1
  <1>5. CASE c.view # "drilldown" /\ ~(c.view = "detail" /\ c.of = None)
    <2>1. LinesOf(c, f) = Lines[c.view]
      BY <1>5, Zenon DEF LinesOf
    <2> QED
      BY <1>2, <2>1
  <1> QED
    BY <1>3, <1>4, <1>5

LEMMA InvInit == Init => Inv
  <1> SUFFICES ASSUME Init PROVE Inv
    OBVIOUS
  <1>1. ScreenType
    BY ViewsAssumption DEF Init, ScreenType, Single, Views, Overviews
  <1>2. DataType
    BY DEF Init, DataType
  <1>3. WorkType
    BY DEF Init, WorkType
  <1>4. content \in Contents /\ running \in BOOLEAN /\ DetailIsOfSelected
    BY DEF Init, Contents, DetailIsOfSelected
  <1> QED
    BY <1>1, <1>2, <1>3, <1>4, InvParts

-----------------------------------------------------------------------------
(* The keys, one by one. *)

LEMMA ToggleStep ==
    ASSUME Inv, NEW v \in Plain \ {"logs"}, Toggle(v)
    PROVE  Inv'
  <1>1. Single(shown') /\ (v \in shown' => v \in Views)
    BY SingleToggled DEF Inv, Toggle
  <1>2. ScreenType' /\ DataType' /\ WorkType'
    BY <1>1, Parts, DataSame, WorkSame DEF Toggle, ScreenType, work
  <1>3. Draw(IF v \in shown' THEN v ELSE "main")
    BY DEF Toggle
  <1> QED
    BY <1>1, <1>2, <1>3, StepDraws

LEMMA OpenSelectorStep ==
    ASSUME Inv, NEW v \in Selectors, OpenSelector(v)
    PROVE  Inv'
  <1>1. ScreenType'
    BY SingleSelector, Parts DEF Inv, OpenSelector, ScreenType
  <1>2. PICK n \in Lists \cup {1} :
           /\ picks' = [picks EXCEPT ![v] = n]
           /\ IF n <= 1 THEN Ask(Fetch(v)) /\ loading' = loading \cup {v}
              ELSE UNCHANGED <<asked, loading>>
           /\ lost' = lost
    BY DEF OpenSelector
  <1>3. DataType'
    BY <1>2, Parts DEF OpenSelector, DataType
  <1>4. WorkType'
    BY <1>2, Parts, AskType, CommandOf DEF WorkType
  <1> QED
    BY <1>1, <1>3, <1>4, StepDraws DEF OpenSelector, Views

LEMMA OpenEditorStep ==
    ASSUME Inv, NEW v \in Editors, OpenEditor(v)
    PROVE  Inv'
  <1>1. v \in Views /\ v \notin Overviews
    BY ViewsAssumption DEF Views, Overviews
  <1>2. ScreenType'
    BY <1>1, SingleOver, Parts DEF Inv, OpenEditor, ScreenType
  <1>3. DataType' /\ WorkType'
    BY Parts, DataSame DEF OpenEditor, WorkType
  <1> QED
    BY <1>1, <1>2, <1>3, StepDraws DEF OpenEditor

LEMMA StartLogsStep == ASSUME Inv, StartLogs PROVE Inv'
  <1>1. "logs" \in Views /\ "logs" \notin Overviews
    BY ViewsAssumption DEF Views, Overviews
  <1>2. ScreenType'
    BY <1>1, SingleOver, Parts DEF Inv, StartLogs, ScreenType
  <1>3. DataType' /\ WorkType'
    BY Parts, DataSame, AskType, CommandOf DEF StartLogs, WorkType
  <1>4. UNCHANGED <<content, selected, detail, running>>
    BY DEF StartLogs, data
  <1> QED
    BY <1>2, <1>3, <1>4, Parts, StepKeepsContent

LEMMA CloseEditorStep ==
    ASSUME Inv, NEW v \in Editors, CloseEditor(v)
    PROVE  Inv'
  <1>1. ScreenType' /\ DataType' /\ WorkType'
    BY SingleFewer, Parts, DataSame, WorkSame DEF Inv, CloseEditor, ScreenType, work
  <1> QED
    BY <1>1, StepDraws DEF CloseEditor

LEMMA CloseSelectorStep ==
    ASSUME Inv, NEW v \in Selectors, CloseSelector(v)
    PROVE  Inv'
  <1>1. ScreenType' /\ DataType' /\ WorkType'
    BY SingleFewer, Parts, DataSame DEF Inv, CloseSelector, ScreenType, WorkType
  <1> QED
    BY <1>1, StepDraws DEF CloseSelector

LEMMA MoveInSelectorStep ==
    ASSUME Inv, NEW v \in Selectors, MoveInSelector(v)
    PROVE  Inv'
  <1>1. picks[v] \in Nat
    <2>1. Lists \cup {0, 1} \subseteq Nat
      BY ReportsAssumption
    <2> QED
      BY <2>1, Parts DEF DataType
  <1>2. PICK i \in 0..(picks[v] - 1) : at' = [at EXCEPT ![v] = i]
    BY DEF MoveInSelector
  <1>3. i \in Nat /\ DataType
    BY <1>1, Parts
  <1>4. DataType'
    BY <1>2, <1>3 DEF MoveInSelector, DataType
  <1>5. ScreenType' /\ WorkType'
    BY Parts, WorkSame DEF MoveInSelector, ScreenType, work
  <1> QED
    BY <1>4, <1>5, StepDraws DEF MoveInSelector, Views

LEMMA ApplyFilterStep ==
    ASSUME Inv, NEW v \in Selectors, ApplyFilter(v)
    PROVE  Inv'
  <1>1. ScreenType' /\ DataType' /\ UNCHANGED <<selected, detail, lost>>
    BY Parts, DataSame DEF ApplyFilter, ScreenType, data
  <1>2. CASE Ask(Fetch("filter")) /\ loading' = loading \cup {v} /\ Draw(v)
    <2>1. WorkType'
      BY <1>1, <1>2, Parts, AskType, CommandOf DEF WorkType
    <2> QED
      BY <1>1, <1>2, <2>1, StepDraws DEF Views
  <1>3. CASE running' = FALSE /\ UNCHANGED <<content, loading, asked>>
    BY <1>1, <1>3, Parts, WorkSame, StepKeepsContent
  <1> QED
    BY <1>2, <1>3 DEF ApplyFilter

LEMMA OpenDetailStep == ASSUME Inv, OpenDetail PROVE Inv'
  <1>1. CASE at["drilldown"] < Len(fleet)
    <2>1. /\ selected' = fleet[at["drilldown"] + 1] /\ detail' = TRUE /\ drill' = None
          /\ scroll' = 0 /\ Ask(Refresh(selected')) /\ Draw("drilldown")
          /\ UNCHANGED <<shown, fleet, at, picks, loading, lost>>
      BY <1>1 DEF OpenDetail
    <2>2. DataType /\ fleet \in Seq(Services) /\ at["drilldown"] \in Nat
      BY Parts, ReportsAssumption DEF DataType
    <2>3. selected' \in Services
      BY <1>1, <2>1, <2>2
    <2>4. DataType'
      BY <2>1, <2>2, <2>3 DEF DataType
    <2>5. WorkType'
      BY <2>1, <2>3, Parts, AskType, CommandOf DEF WorkType
    <2>6. ScreenType'
      BY <2>1, Parts DEF ScreenType
    <2>7. "drilldown" \in Views
      BY Parts DEF OpenDetail, Listing, ScreenType, Single
    <2> QED
      BY <2>1, <2>4, <2>5, <2>6, <2>7, StepDraws
  <1>2. CASE ~(at["drilldown"] < Len(fleet))
    <2>1. running' = FALSE /\ UNCHANGED <<shown, detail, content, scroll, data, work>>
      BY <1>2 DEF OpenDetail
    <2>2. ScreenType' /\ DataType' /\ WorkType' /\ UNCHANGED selected
      BY <2>1, Parts, DataSame, WorkSame DEF ScreenType, data, work
    <2> QED
      BY <2>1, <2>2, StepKeepsContent
  <1> QED
    BY <1>1, <1>2

LEMMA EscapeStep == ASSUME Inv, Escape PROVE Inv'
  <1>1. DataType' /\ WorkType'
    BY Parts, DataSame, WorkSame DEF Escape, work
  <1>2. ScreenType'
    <2>1. ScreenType /\ Single({})
      BY Parts, SingleFewer DEF ScreenType
    <2>2. CASE detail' = FALSE /\ UNCHANGED <<shown, scroll>>
      BY <2>1, <2>2 DEF ScreenType
    <2>3. CASE shown' = {} /\ scroll' = 0 /\ UNCHANGED detail
      BY <2>1, <2>3 DEF ScreenType
    <2> QED
      BY <2>2, <2>3 DEF Escape
  <1>3. shown' # {} => "drilldown" \in Views
    BY Parts DEF Escape, ScreenType, Single
  <1>4. Draw(IF shown' = {} THEN "main" ELSE "drilldown")
    BY DEF Escape
  <1> QED
    BY <1>1, <1>2, <1>3, <1>4, StepDraws

LEMMA StillDraws ==
    ASSUME Inv, UNCHANGED <<shown, detail, scroll, data, work>>, NEW v \in Views \cup {"main"},
           Draw(v)
    PROVE  Inv'
  <1>1. ScreenType' /\ DataType' /\ WorkType'
    BY Parts, DataSame, WorkSame DEF ScreenType, data, work
  <1> QED
    BY <1>1, StepDraws

LEMMA BrowseStep == ASSUME Inv, Browse PROVE Inv'
  BY StillDraws, ViewsAssumption DEF Browse, Views

LEMMA DrawMainStep == ASSUME Inv, DrawMain PROVE Inv'
  BY StillDraws DEF DrawMain

LEMMA ResizeStep == ASSUME Inv, Resize PROVE Inv'
  <1>1. First(ResizeOrder, shown) \in Views \cup {"main"}
    BY Parts, ResizeFound DEF ScreenType, Single
  <1> QED
    BY <1>1, StillDraws DEF Resize

LEMMA MoveInListStep == ASSUME Inv, MoveInList PROVE Inv'
  <1>1. DataType /\ scroll \in Nat /\ at["drilldown"] \in Nat /\ Window \in Nat
    BY Parts, ReportsAssumption DEF DataType, ScreenType
  <1>2. PICK i \in Nat : at' = [at EXCEPT !["drilldown"] = i]
    <2>1. \/ at' = [at EXCEPT !["drilldown"] = at["drilldown"] - 1] /\ at["drilldown"] > 0
          \/ at' = [at EXCEPT !["drilldown"] = at["drilldown"] + 1]
      BY DEF MoveInList
    <2>2. /\ at["drilldown"] > 0 => at["drilldown"] - 1 \in Nat
          /\ at["drilldown"] + 1 \in Nat
      BY <1>1
    <2> QED
      BY <2>1, <2>2
  <1>3. DataType' /\ at'["drilldown"] \in Nat
    BY <1>1, <1>2 DEF MoveInList, DataType
  <1>4. scroll' \in Nat
    BY <1>1, <1>3 DEF MoveInList
  <1>5. ScreenType' /\ WorkType'
    BY <1>4, Parts, WorkSame DEF MoveInList, ScreenType, work
  <1>6. "drilldown" \in Views
    BY Parts DEF MoveInList, Listing, ScreenType, Single
  <1> QED
    BY <1>3, <1>5, <1>6, StepDraws DEF MoveInList

LEMMA ScrollStep == ASSUME Inv, Scroll PROVE Inv'
  <1>1. scroll' \in Nat
    BY Parts DEF Scroll, ScreenType
  <1>2. ScreenType' /\ DataType' /\ WorkType'
    BY <1>1, Parts, DataSame, WorkSame DEF Scroll, ScreenType, work
  <1>3. First(CurrentOrder, shown) \in Views \cup {"main"}
    BY Parts, CurrentFound DEF ScreenType, Single
  <1> QED
    BY <1>2, <1>3, StepDraws DEF Scroll

LEMMA PageStep == ASSUME Inv, Page PROVE Inv'
  <1> DEFINE step == IF Height < 2 THEN 1 ELSE Height \div 2
             lines == LinesOf(content, fleet)
             last == lines - Height
  <1>1. lines \in Nat /\ Height \in Nat /\ scroll \in Nat
    BY Parts, LinesType, ReportsAssumption DEF Inv, TypeOK, Contents, DataType
  <1>2. step \in Nat
    BY <1>1
  <1>3. \/ scroll' = IF scroll > step THEN scroll - step ELSE 0
        \/ last > 0 /\ scroll' = IF scroll + step > last THEN last ELSE scroll + step
        \/ scroll' = 0
        \/ last > 0 /\ scroll' = last
    BY DEF Page
  <1> HIDE DEF step, lines
  <1>4. scroll' \in Nat
    BY <1>1, <1>2, <1>3
  <1>5. ScreenType' /\ DataType' /\ WorkType'
    BY <1>4, Parts, DataSame, WorkSame DEF Page, ScreenType, work
  <1>6. UNCHANGED <<content, selected, detail>>
    BY DEF Page, Slice, data
  <1>7. running' \in BOOLEAN
    <2>1. running' = (scroll' <= LinesOf(content, fleet))
      BY DEF Page, Slice
    <2>2. CASE scroll' <= LinesOf(content, fleet)
      BY <2>1, <2>2
    <2>3. CASE ~(scroll' <= LinesOf(content, fleet))
      BY <2>1, <2>3
    <2> QED
      BY <2>2, <2>3
  <1> QED
    BY <1>5, <1>6, <1>7, StepKeepsContent

LEMMA QuitStep == ASSUME Inv, Quit PROVE Inv'
  <1>1. ScreenType' /\ DataType' /\ WorkType' /\ UNCHANGED <<selected, content, detail>>
    BY Parts, DataSame, WorkSame DEF Quit, ScreenType, data, work
  <1>2. running' \in BOOLEAN
    BY DEF Quit
  <1> QED
    BY <1>1, <1>2, StepKeepsContent

-----------------------------------------------------------------------------
(* The messages, one by one. *)

LEMMA RefreshTickStep == ASSUME Inv, RefreshTick PROVE Inv'
  <1>1. Refresh(selected) \in Commands
    BY Parts, CommandOf DEF DataType
  <1>2. ScreenType' /\ DataType' /\ UNCHANGED <<selected, content, detail, running>>
    BY Parts, DataSame DEF RefreshTick, ScreenType, data
  <1>3. WorkType'
    BY <1>1, Parts, AskType DEF RefreshTick, WorkType
  <1> QED
    BY <1>2, <1>3, Parts, StepKeepsContent

LEMMA ApplyRefreshStep ==
    ASSUME Inv, NEW s \in Services \cup {None}, ApplyRefresh(s)
    PROVE  Inv'
  <1>1. ScreenType' /\ WorkType'
    BY Parts, AskType, CommandOf DEF ApplyRefresh, ScreenType, WorkType
  <1>2. fleet' \in Fleets
    BY Parts DEF ApplyRefresh, DataType
  <1>3. drill' \in Services \cup {None}
    BY Parts DEF ApplyRefresh, DataType
  <1>4. DataType'
    BY <1>2, <1>3, Parts DEF ApplyRefresh, DataType
  <1>5. First(CurrentOrder, shown) \in Views \cup {"main"}
    BY Parts, CurrentFound DEF ScreenType, Single
  <1> QED
    BY <1>1, <1>4, <1>5, StepDraws DEF ApplyRefresh

LEMMA RefreshDiesStep ==
    ASSUME Inv, NEW s \in Services \cup {None}, RefreshDies(s)
    PROVE  Inv'
  <1>1. lost' \in BOOLEAN
    BY Zenon DEF RefreshDies
  <1>2. ScreenType' /\ WorkType'
    BY <1>1, Parts, AskType, CommandOf DEF RefreshDies, ScreenType, WorkType
  <1>3. DataType' /\ UNCHANGED <<selected, content, detail, running>>
    BY Parts, DataSame DEF RefreshDies, data
  <1> QED
    BY <1>2, <1>3, Parts, StepKeepsContent

LEMMA ListArrivesStep ==
    ASSUME Inv, NEW v \in Selectors, ListArrives(v)
    PROVE  Inv'
  <1>1. ScreenType' /\ WorkType' /\ UNCHANGED <<selected, detail>>
    BY Parts, AskType, CommandOf DEF ListArrives, ScreenType, WorkType
  <1>2. CASE v \in shown
    <2>1. PICK n \in Lists \cup {picks[v]} : picks' = [picks EXCEPT ![v] = n]
      BY <1>2 DEF ListArrives
    <2>2. DataType'
      BY <2>1, Parts DEF ListArrives, DataType
    <2> QED
      BY <1>1, <1>2, <2>2, StepDraws DEF ListArrives, Views
  <1>3. CASE v \notin shown
    <2>1. DataType' /\ UNCHANGED <<content, running>>
      BY <1>3, Parts DEF ListArrives, DataType
    <2> QED
      BY <1>1, <2>1, Parts, StepKeepsContent
  <1> QED
    BY <1>2, <1>3

LEMMA FilterArrivesStep == ASSUME Inv, FilterArrives PROVE Inv'
  <1>1. ScreenType' /\ DataType' /\ WorkType' /\ UNCHANGED <<selected, detail>>
    BY Parts, DataSame, AskType, CommandOf DEF FilterArrives, ScreenType, WorkType, data
  <1>2. shown \subseteq Views
    BY Parts DEF ScreenType, Single
  <1>3. \/ \E v \in Views : Draw(v)
        \/ UNCHANGED <<content, running>>
    BY <1>2 DEF FilterArrives
  <1> QED
    BY <1>1, <1>3, Parts, StepDraws, StepKeepsContent

LEMMA LogsArriveStep == ASSUME Inv, LogsArrive PROVE Inv'
  <1>1. ScreenType' /\ DataType' /\ WorkType' /\ UNCHANGED <<selected, detail>>
    BY Parts, DataSame, AskType, CommandOf DEF LogsArrive, ScreenType, WorkType, data
  <1>2. shown \subseteq Views
    BY Parts DEF ScreenType, Single
  <1>3. \/ \E v \in Views : Draw(v)
        \/ UNCHANGED <<content, running>>
    BY <1>2 DEF LogsArrive
  <1> QED
    BY <1>1, <1>3, Parts, StepDraws, StepKeepsContent

LEMMA InvNext == Inv /\ [Next]_vars => Inv'
  <1> SUFFICES ASSUME Inv, [Next]_vars PROVE Inv'
    OBVIOUS
  <1>1. CASE Key
    BY <1>1, ToggleStep, OpenSelectorStep, CloseSelectorStep, MoveInSelectorStep,
       ApplyFilterStep, OpenEditorStep, CloseEditorStep, StartLogsStep, OpenDetailStep,
       EscapeStep, BrowseStep, DrawMainStep, MoveInListStep, ScrollStep, PageStep,
       ResizeStep, QuitStep
    DEF Key
  <1>2. CASE RefreshTick \/ Answer \/ Dies
    BY <1>2, RefreshTickStep, ApplyRefreshStep, RefreshDiesStep, ListArrivesStep,
       FilterArrivesStep, LogsArriveStep
    DEF Answer, Dies
  <1>3. CASE UNCHANGED vars
    <2>1. ScreenType' /\ DataType' /\ WorkType' /\ UNCHANGED <<selected, detail, content, running>>
      BY <1>3, Parts, DataSame, WorkSame DEF ScreenType, vars, data, work
    <2> QED
      BY <2>1, Parts, StepKeepsContent
  <1> QED
    BY <1>1, <1>2, <1>3 DEF Next

LEMMA InvAlways == Spec => []Inv
  BY InvInit, InvNext, PTL DEF Spec

(***************************************************************************)
(* Every variable keeps its type, whatever keys are pressed and in         *)
(* whatever order the answers come: the position never is above the top,   *)
(* and a selection never is before the start of its list.                  *)
(***************************************************************************)
THEOREM TypeCorrect == Spec => []TypeOK
  <1>1. Inv => TypeOK
    BY DEF Inv
  <1> QED
    BY <1>1, InvAlways, PTL

(***************************************************************************)
(* However views are switched, keys reach one view: every key that opens   *)
(* one closes what it must, editors, selectors and overviews alike.        *)
(***************************************************************************)
THEOREM OneViewCorrect == Spec => []OneView
  <1>1. Inv => OneView
    BY SingleCount DEF Inv, Single, OneView, Overviews
  <1> QED
    BY <1>1, InvAlways, PTL

(***************************************************************************)
(* The detail of a service never shows the signals of another one: an      *)
(* answer asked for the service selected before is not drawn as this one's.*)
(***************************************************************************)
THEOREM DetailCorrect == Spec => []DetailIsOfSelected
  <1>1. Inv => DetailIsOfSelected
    BY DEF Inv
  <1> QED
    BY <1>1, InvAlways, PTL

=============================================================================

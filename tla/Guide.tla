------------------------------- MODULE Guide -------------------------------
(***************************************************************************)
(* The guided tour (src/internal/guide): a menu of scenarios, their        *)
(* chapters and steps, the search, and the troubleshooter, whose steps     *)
(* diagnose a profile and offer a fix: an action to confirm, or a value to *)
(* type. After a fix the step is diagnosed again by a command that runs    *)
(* beside Update on the same model, and a value is tested in the           *)
(* background.                                                             *)
(*                                                                         *)
(* A step is its kind; what it shows (text, hint, banner) is left out, and *)
(* what the search finds is any subset of the scenarios. Reachability of a *)
(* backend, rights and records of a profile are free; what a fix changes   *)
(* is kept.                                                                *)
(***************************************************************************)
EXTENDS Naturals, Sequences

CONSTANTS Channels,     \* channels a value is typed for
          Scenarios,    \* the menu, a sequence of names
          Chapters,     \* chapters of a scenario, sequences of kinds of steps
          Profiles,     \* a sequence of profiles
          Active,       \* the one that is used when none is selected
          MaxSearches, MaxFixes,    \* bounds on searches and on prompts answered
          None

VARIABLES menu,         \* idx, list (what is listed), searching, open (inScenario)
          scenario, chapter, step,
          picking,      \* selectingProfile: the row, or 0
          selected,     \* SelectedProfile
          result,       \* LastResult
          prompt,       \* "confirm", "value" or ""
          progress,     \* by profile, what saveProgress wrote
          settings,     \* by profile, what is configured
          refresh,      \* the diagnosis that runs beside Update
          test,         \* a value is being tested
          raced,        \* a refresh was under way when the step was left
          searches, fixes

place == <<scenario, chapter, step>>
stores == <<progress, settings>>
budget == <<searches, fixes>>
vars == <<menu, place, picking, selected, result, prompt, stores, refresh, test, raced, budget>>

Names == {Scenarios[i] : i \in DOMAIN Scenarios}
Owned == {Profiles[i] : i \in DOMAIN Profiles}
Repairs == {"config_labels", "drift", "toil"}   \* steps named for what they set
Settings == {"prometheus", "notifications"} \cup Repairs \cup Channels

\* The steps that may find something to be fixed.
Fixable == {"data", "notify"} \cup Repairs \cup Channels

\* No scenario or chapter is empty, and only the troubleshooter's steps find
\* what can be fixed.
ConstantsAssumption ==
    /\ Scenarios \in Seq(STRING) /\ Scenarios # << >>
    /\ Profiles \in Seq(STRING) /\ Active \in Owned
    /\ Channels \subseteq STRING \ {""} /\ None \notin STRING
    /\ \A s \in Names :
          /\ Chapters[s] \in Seq(Seq(STRING) \ {<< >>}) /\ Chapters[s] # << >>
          /\ s # "troubleshooter" =>
                \A c \in DOMAIN Chapters[s] : \A n \in DOMAIN Chapters[s][c] :
                    Chapters[s][c][n] \notin Fixable

Kind(s, c, n) == Chapters[s][c][n]
Here == Kind(scenario, chapter, step)

Result(p, kind, status, fix) == [for |-> p, kind |-> kind, status |-> status, fix |-> fix]
Healthy == {"PASSED", "WARNING", "FAILED"}

\* What the diagnosis of a step can find. A setting that is missing is fixed by
\* an action, a channel by a value, which can be typed again later.
DiagnoseChannel(p, kind) ==
    Result(p, kind, IF kind \in settings[p] THEN "PASSED" ELSE "INTERACTIVE", kind)

DiagnoseData(p) ==
    IF "prometheus" \in settings[p]
    THEN {Result(p, "data", s, "") : s \in {"PASSED", "FAILED"}}
    ELSE {Result(p, "data", "FAILED", "prometheus")}

DiagnoseNotifications(p) ==
    IF "notifications" \notin settings[p]
    THEN {Result(p, "notify", "WARNING", "notifications")}
    ELSE {Result(p, "notify", "PASSED", "")} \cup
         {Result(p, "notify", "FAILED", c) : c \in Channels \ settings[p]}

\* The labels of services, the window and the cost of an hour. With the cost set
\* there still may be no toil on record.
DiagnoseSetting(p, kind) ==
    IF kind \notin settings[p] THEN {Result(p, kind, "WARNING", kind)}
    ELSE {Result(p, kind, "PASSED", "")} \cup
         IF kind = "toil" THEN {Result(p, kind, "FAILED", "")} ELSE {}

Diagnose(kind, selection) ==
    LET p == IF selection = None THEN Active ELSE selection IN
    CASE kind \in Channels -> {DiagnoseChannel(p, kind)}
      [] kind = "data" -> DiagnoseData(p)
      [] kind = "notify" -> DiagnoseNotifications(p)
      [] kind \in Repairs -> DiagnoseSetting(p, kind)
      [] OTHER -> {Result(p, kind, s, "") : s \in Healthy}

\* executeCurrentStepAction: one step that asks for a value opens its prompt at
\* once, one without an action changes nothing.
Execute(kind, selection, old) ==
    /\ result' \in IF kind = "text" THEN {old} ELSE IF kind = "lab" THEN {None}
                   ELSE Diagnose(kind, selection)
    /\ prompt' = IF kind \in Channels /\ result'.status = "INTERACTIVE" THEN "value"
                 ELSE prompt

Init ==
    /\ menu = [idx |-> 1, list |-> Scenarios, searching |-> FALSE, open |-> FALSE]
    /\ scenario = None /\ chapter = 0 /\ step = 0
    /\ picking = 0 /\ selected = None
    /\ result = None /\ prompt = ""
    /\ progress = [p \in Owned |-> None]
    /\ settings \in {[p \in Owned |-> {}], [p \in Owned |-> {"notifications"}]}
    /\ refresh = None /\ test = FALSE
    /\ raced = FALSE
    /\ searches = 0 /\ fixes = 0

\* A key reaches the first of these that is on.
Typing == prompt = "value"
Searching == ~Typing /\ menu.searching
Picking == ~Typing /\ ~menu.searching /\ picking # 0
Confirming == ~Typing /\ ~menu.searching /\ picking = 0 /\ prompt = "confirm"
Free == prompt = "" /\ ~menu.searching /\ picking = 0

\* ------------------------------ the menu --------------------------------

StartSearch ==
    /\ searches < MaxSearches /\ searches' = searches + 1
    /\ Free
    /\ menu' = [menu EXCEPT !.searching = TRUE]
    /\ UNCHANGED <<place, picking, selected, result, prompt, stores, refresh,
                   test, raced, fixes>>

\* Where in the menu the scenarios are that a search can find, in its order.
Finds ==
    {at \in UNION {[1..n -> DOMAIN Scenarios] : n \in 0..Len(Scenarios)} :
        \A i, j \in DOMAIN at : i < j => at[i] < at[j]}

\* Enter on nothing typed, esc, and enter, which lists what was found.
Search ==
    /\ Searching
    /\ \/ \E at \in Finds :
             menu' = [menu EXCEPT !.searching = FALSE, !.idx = 1,
                        !.list = [i \in DOMAIN at |-> Scenarios[at[i]]]]
       \/ menu' = [menu EXCEPT !.searching = FALSE]
       \/ menu' = [menu EXCEPT !.searching = FALSE, !.list = Scenarios]
    /\ UNCHANGED <<place, picking, selected, result, prompt, stores, refresh,
                   test, raced, budget>>

Arrow ==
    /\ Free /\ ~menu.open
    /\ \E i \in {menu.idx - 1, menu.idx + 1} \cap DOMAIN menu.list :
          menu' = [menu EXCEPT !.idx = i]
    /\ UNCHANGED <<place, picking, selected, result, prompt, stores, refresh,
                   test, raced, budget>>

ClearSearch ==
    /\ Free /\ ~menu.open
    /\ menu' = [menu EXCEPT !.list = Scenarios, !.idx = 1]
    /\ UNCHANGED <<place, picking, selected, result, prompt, stores, refresh,
                   test, raced, budget>>

Leaving == raced' = (raced \/ refresh # None)

\* Enter: the troubleshooter asks for a profile first.
OpenScenario ==
    /\ Free /\ ~menu.open /\ menu.list # <<>>
    /\ menu' = [menu EXCEPT !.open = TRUE]
    /\ scenario' = menu.list[menu.idx]
    /\ Leaving
    /\ IF scenario' = "troubleshooter"
       THEN /\ picking' = 1
            /\ UNCHANGED <<chapter, step, result, prompt>>
       ELSE /\ chapter' = 1 /\ step' = 1
            /\ Execute(Kind(scenario', 1, 1), selected, result)
            /\ UNCHANGED picking
    /\ UNCHANGED <<selected, stores, refresh, test, budget>>

MoveProfile ==
    /\ Picking
    /\ picking' \in {picking - 1, picking + 1} \cap DOMAIN Profiles
    /\ UNCHANGED <<menu, place, selected, result, prompt, stores, refresh,
                   test, raced, budget>>

\* loadProgress puts the tour where it was left, and diagnoses that step; then
\* it starts again with the first one, but keeps a prompt that has opened.
PickProfile ==
    /\ Picking
    /\ LET p == Profiles[picking]
           was == progress[p]
           reopens == was # None /\ \E r \in Diagnose(was, p) :
                                        was \in Channels /\ r.status = "INTERACTIVE"
       IN /\ selected' = p
          /\ result' \in Diagnose(Kind(scenario, 1, 1), p)
          /\ prompt' = IF reopens THEN "value" ELSE prompt
    /\ picking' = 0 /\ chapter' = 1 /\ step' = 1
    /\ UNCHANGED <<menu, scenario, stores, refresh, test, raced, budget>>

DropProfile ==
    /\ Picking
    /\ picking' = 0
    /\ menu' = [menu EXCEPT !.open = FALSE]
    /\ UNCHANGED <<place, selected, result, prompt, stores, refresh, test, raced, budget>>

\* ------------------------------ the steps -------------------------------

\* What loadProgress does later depends on the step only when that is a channel.
Left == IF Here \in Channels THEN Here ELSE None

\* As Exit, leaving the diagnosis and its fix behind.
ExitKeepsResult ==
    /\ progress' = IF selected # None THEN [progress EXCEPT ![selected] = Left] ELSE progress
    /\ menu' = [menu EXCEPT !.open = FALSE]
    /\ selected' = None /\ prompt' = ""
    /\ Leaving
    /\ UNCHANGED <<place, picking, settings, refresh, test, result, budget>>

\* exitScenario, which saves where a profile is left.
Exit ==
    /\ progress' = IF selected # None THEN [progress EXCEPT ![selected] = Left] ELSE progress
    /\ menu' = [menu EXCEPT !.open = FALSE]
    /\ selected' = None /\ prompt' = ""
    /\ result' = None
    /\ Leaving
    /\ UNCHANGED <<place, picking, settings, refresh, test, budget>>

Leave == Free /\ menu.open /\ Exit

\* The next step, the first one of the next chapter, or the menu.
NextStep ==
    /\ Free /\ menu.open
    /\ LET more == step < Len(Chapters[scenario][chapter])
           c == IF more THEN chapter ELSE chapter + 1
           n == IF more THEN step + 1 ELSE 1
       IN IF c \in DOMAIN Chapters[scenario]
          THEN /\ chapter' = c /\ step' = n
               /\ Execute(Kind(scenario, c, n), selected, result)
               /\ Leaving
               /\ UNCHANGED <<menu, scenario, picking, selected, stores, refresh, test, budget>>
          ELSE Exit

\* ------------------------------- the fixes ------------------------------

\* A key in the menu reaches a result that a refresh left there.
PressFix ==
    /\ Free
    /\ result # None /\ result.fix # ""
    /\ prompt' = IF result.fix \in Channels THEN "value" ELSE "confirm"
    /\ UNCHANGED <<menu, place, picking, selected, result, stores, refresh,
                   test, raced, budget>>

Cancel ==
    /\ Typing \/ Confirming
    /\ prompt' = ""
    /\ UNCHANGED <<menu, place, picking, selected, result, stores, refresh,
                   test, raced, budget>>

\* The bound on what runs beside Update: one refresh.
StartRefresh == refresh = None /\ refresh' = [phase |-> "called", kind |-> None, for |-> None]

\* Whether the profile could be saved is not looked at.
Configure(r) ==
    settings' \in {settings, [settings EXCEPT ![r.for] = @ \cup {r.fix}]}

Confirm ==
    /\ fixes < MaxFixes /\ fixes' = fixes + 1
    /\ Confirming
    /\ IF result # None /\ result.fix \in Settings \ Channels
       THEN /\ Configure(result)
            /\ result' = [result EXCEPT !.status = "PASSED", !.fix = ""]
       ELSE UNCHANGED <<settings, result>>
    /\ prompt' = ""
    /\ StartRefresh
    /\ UNCHANGED <<menu, place, picking, selected, progress, test, raced, searches>>

EnterValue ==
    /\ fixes < MaxFixes /\ fixes' = fixes + 1
    /\ Typing
    /\ IF result # None /\ result.fix \in Channels
       THEN /\ Configure(result)
            /\ result' = [result EXCEPT !.status = "TESTING"]
            /\ ~test /\ test' = TRUE
            /\ UNCHANGED refresh
       ELSE StartRefresh /\ UNCHANGED <<settings, result, test>>
    /\ prompt' = ""
    /\ UNCHANGED <<menu, place, picking, selected, progress, raced, searches>>

EnterNothing ==
    /\ fixes < MaxFixes /\ fixes' = fixes + 1
    /\ Typing
    /\ prompt' = ""
    /\ StartRefresh
    /\ UNCHANGED <<menu, place, picking, selected, result, stores, test, raced, searches>>

\* A test that succeeds answers nil, which Update never sees. One that fails
\* is put down to whatever is being tested by then.
TestReturns ==
    /\ test
    /\ test' = FALSE
    /\ \/ UNCHANGED <<result, refresh>>
       \/ IF result # None /\ result.status = "TESTING"
          THEN result' = [result EXCEPT !.status = "FAILED"] /\ StartRefresh
          ELSE UNCHANGED <<result, refresh>>
    /\ UNCHANGED <<menu, place, picking, selected, prompt, stores, raced, budget>>

\* refreshTroubleshoot runs the step that is current by then, without Update.
RefreshStarts ==
    /\ refresh # None /\ refresh.phase = "called"
    /\ IF chapter # 0 /\ Here # "text"
       THEN /\ refresh' = [phase |-> "probing", kind |-> Here, for |-> selected]
            /\ result' = None
       ELSE refresh' = None /\ UNCHANGED result
    /\ UNCHANGED <<menu, place, picking, selected, prompt, stores, test, raced, budget>>

RefreshEnds ==
    /\ refresh # None /\ refresh.phase = "probing"
    /\ Execute(refresh.kind, refresh.for, result)
    /\ refresh' = None
    /\ UNCHANGED <<menu, place, picking, selected, stores, test, raced, budget>>

Next ==
    \/ StartSearch \/ Search \/ Arrow \/ ClearSearch
    \/ OpenScenario \/ MoveProfile \/ PickProfile \/ DropProfile
    \/ Leave \/ NextStep
    \/ PressFix \/ Cancel \/ Confirm \/ EnterValue \/ EnterNothing
    \/ TestReturns \/ RefreshStarts \/ RefreshEnds

Spec == Init /\ [][Next]_vars

\* ------------------------------ properties -------------------------------

\* The last conjunct is what View needs to draw a scenario.
TypeOK ==
    /\ menu.open \in BOOLEAN /\ menu.searching \in BOOLEAN
    /\ menu.list # <<>> => menu.idx \in DOMAIN menu.list
    /\ scenario \in Names \cup {None} /\ picking \in 0..Len(Profiles)
    /\ selected \in Owned \cup {None}
    /\ result # None => result.for \in Owned /\ result.fix \in Settings \cup {""}
    /\ prompt \in {"", "confirm", "value"}
    /\ raced \in BOOLEAN
    /\ settings \in [Owned -> SUBSET Settings]
    /\ refresh # None => refresh.phase \in {"called", "probing"}
    /\ menu.open /\ picking = 0 => /\ chapter \in DOMAIN Chapters[scenario]
                                   /\ step \in DOMAIN Chapters[scenario][chapter]

\* A fix is applied to the profile that was selected for troubleshooting, never
\* to one that was left before or to the active one, as long as no step was left
\* while its diagnosis was running (engine.go: the fix of LastResult, which
\* exitScenario drops and a refresh computes beside Update).
FixesSelected ==
    [][\A p \in Owned : settings'[p] # settings[p] /\ ~raced => p = selected]_vars

=============================================================================

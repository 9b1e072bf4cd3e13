------------------------------- MODULE Runbook -------------------------------
(***************************************************************************)
(* Runbooks (src/internal/runbook): the analysis of incidents by their     *)
(* error pattern, the commands that suggest, generate, list and test a     *)
(* runbook, and the directory they are stored in.                          *)
(*                                                                         *)
(* Incidents are numbered by creation. What an incident's logs show is the *)
(* pattern ExtractPatternFromLog finds in them, "" if there are none; text *)
(* is taken after the numbers in it were replaced. A runbook is known by   *)
(* the second it was made in, its service and its pattern. Its steps,      *)
(* queries and wording are left out, and so are Delete and                 *)
(* CleanupOldRunbooks, which no command calls.                             *)
(***************************************************************************)
EXTENDS Naturals, Sequences, FiniteSets

CONSTANTS Commands,     \* processes that run commands
          Openings,     \* incidents as they may be opened
          Analyses,     \* analyses an incident may be resolved with
          Configs,      \* settings: enabled, format, threshold, categories, disabled services
          MaxIncidents, \* bound on the incidents
          MaxTime,      \* bound on the clock
          MaxCommands,  \* bound on the commands that are given
          None

ConstantsAssumption == MaxIncidents \in Nat /\ MaxTime \in Nat /\ MaxCommands \in Nat

VARIABLES incidents,    \* the incidents, oldest first
          seconds,      \* the clock
          settings,     \* the configuration
          runbooks,     \* by file: ID and extension
          suggestions,  \* by incident: the suggestions in its file
          command,      \* by process: phase, runbook at hand, what it answered
          given         \* commands so far

vars == <<incidents, seconds, settings, runbooks, suggestions, command, given>>

Idle == [phase |-> "idle", incident |-> 0, book |-> None, publish |-> FALSE,
         read |-> << >>, said |-> None]

Init ==
    /\ settings \in Configs
    /\ incidents = << >> /\ suggestions = << >>
    /\ seconds = 0 /\ given = 0
    /\ runbooks = << >>
    /\ command = [c \in Commands |-> Idle]

Tick ==
    /\ seconds < MaxTime
    /\ seconds' = seconds + 1
    /\ UNCHANGED <<incidents, settings, runbooks, suggestions, command, given>>

\* The incident service opens an incident, and resolves it with its analysis.
Open(o) ==
    /\ Len(incidents) < MaxIncidents
    /\ incidents' = Append(incidents, [opened |-> o, analysis |-> None])
    /\ suggestions' = Append(suggestions, << >>)
    /\ UNCHANGED <<seconds, settings, runbooks, command, given>>

Resolve(i, a) ==
    /\ i \in DOMAIN incidents /\ incidents[i].analysis = None
    /\ incidents' = [incidents EXCEPT ![i].analysis = a]
    /\ UNCHANGED <<seconds, settings, runbooks, suggestions, command, given>>

\* ------------------------------- patterns --------------------------------

Synonyms ==
    [connection_refused |-> {"connection refused"}, connection_timeout |-> {"connection timeout"},
     query_timeout |-> {"query timeout", "postgres timeout", "database timeout"},
     out_of_memory |-> {"out of memory", "oom"},
     permission_denied |-> {"permission denied", "access denied"},
     not_found |-> {"not found", "404 not found"}, database_error |-> {"database error"},
     internal_server_error |-> {"internal server error", "500 internal server error"},
     too_many_connections |-> {"too many connections"},
     connection_pool |-> {"connection pool", "pool exhausted"}]

Canonical(text) ==
    LET known == {n \in DOMAIN Synonyms : text \in Synonyms[n]}
    IN IF known = {} THEN text ELSE CHOOSE n \in known : TRUE

\* What was typed is kept unless it says nothing; the signature comes next.
Normal(pattern, signature) ==
    IF pattern \notin {"", "general_error", "unknown"} THEN pattern
    ELSE Canonical(IF signature # "" THEN signature ELSE pattern)

Analysed(i) ==
    LET a == incidents[i].analysis
    IN IF a = None THEN "" ELSE Normal(a.pattern, a.signature)

Suggested(i) ==
    IF incidents[i].opened.meta = "" THEN "" ELSE Normal(incidents[i].opened.meta, "")

\* The pattern of an incident when others are compared with it: an analysis
\* counts only if its pattern was given.
PatternOf(i) ==
    LET a == incidents[i].analysis
    IN CASE a # None /\ a.pattern # "" -> Analysed(i)
         [] OTHER -> IF Suggested(i) # "" THEN Suggested(i) ELSE incidents[i].opened.log

\* The pattern of the incident that is asked about, and the confidence in it.
AnalyzeIncident(i) ==
    LET typed == Analysed(i)
        found == IF typed = "" THEN Suggested(i) ELSE typed
        meta == incidents[i].opened.confidence
        log == incidents[i].opened.log
        vague == found \in {"", "general_error"}
        pattern == IF vague /\ log # "" THEN log ELSE found
    IN [pattern |-> pattern, service |-> incidents[i].opened.service,
        confidence |-> CASE vague /\ log # "" -> 85
                         [] typed = "" /\ found # "" /\ meta # None -> meta
                         [] typed \notin {"", "general_error"} -> 95
                         [] OTHER -> 50,
        related |-> {j \in DOMAIN incidents : PatternOf(j) = pattern}]

\* The patterns that incidents later than "since" share; of any service.
AnalyzeIncidentPatterns(since) ==
    LET counted == {i \in DOMAIN incidents :
                       /\ i > since
                       /\ incidents[i].analysis # None
                       /\ incidents[i].analysis.category \in settings.categories
                       /\ incidents[i].opened.service \notin settings.disabled
                       /\ Analysed(i) # ""}
        Group(i) == {j \in counted : Analysed(j) = Analysed(i)}
        Newest(S) == CHOOSE j \in S : \A k \in S : k <= j
    IN {[pattern |-> Analysed(i), service |-> incidents[Newest(Group(i))].opened.service,
         related |-> Group(i)] : i \in {j \in counted : Cardinality(Group(j)) >= 2}}

\* -------------------------------- commands -------------------------------

Give(c) ==
    /\ command[c].phase = "idle" /\ given < MaxCommands
    /\ given' = given + 1

Goto(c, to) == command' = [command EXCEPT ![c] = to]

Show(c, what, which) == Goto(c, [Idle EXCEPT !.said = <<what, which>>])
Say(c, what) == Show(c, what, {})

Convincing(analysis) ==
    analysis.pattern # "" /\ analysis.confidence >= settings.threshold

\* GenerateFromPattern: a runbook is not published at first.
Generated(analysis) ==
    [id |-> <<seconds, analysis.service, analysis.pattern>>,
     related |-> analysis.related, published |-> FALSE]

Suggest(c, i) ==
    /\ Give(c)
    /\ i \in DOMAIN incidents
    /\ IF settings.enabled /\ Convincing(AnalyzeIncident(i))
       THEN Goto(c, [Idle EXCEPT !.phase = "read", !.incident = i,
                                 !.book = Generated(AnalyzeIncident(i))])
       ELSE Say(c, "no runbook")
    /\ UNCHANGED <<incidents, seconds, settings, runbooks, suggestions>>

\* SaveSuggestion reads the suggestions of the incident and writes all of them.
ReadSuggestions(c) ==
    /\ command[c].phase = "read"
    /\ Goto(c, [command[c] EXCEPT !.phase = "write", !.read = suggestions[command[c].incident]])
    /\ UNCHANGED <<incidents, seconds, settings, runbooks, suggestions, given>>

WriteSuggestions(c) ==
    LET id == command[c].book.id
        old == command[c].read
        known == \E k \in DOMAIN old : old[k] = id
    IN /\ command[c].phase = "write"
       /\ \/ suggestions' = [suggestions EXCEPT
                                ![command[c].incident] = IF known THEN old ELSE Append(old, id)]
          \/ UNCHANGED suggestions
       /\ Say(c, "suggested")
       /\ UNCHANGED <<incidents, seconds, settings, runbooks, given>>

Patterns(c, since) ==
    /\ Give(c)
    /\ IF settings.enabled THEN Show(c, "patterns", AnalyzeIncidentPatterns(since))
       ELSE Say(c, "disabled")
    /\ UNCHANGED <<incidents, seconds, settings, runbooks, suggestions>>

\* From an incident, or by pattern and service with a confidence of 80. Without
\* --save the runbook is shown and forgotten.
Generate(c, analysis, save, publish) ==
    /\ Give(c)
    /\ IF ~settings.enabled \/ ~Convincing(analysis) THEN Say(c, "no runbook")
       ELSE IF save THEN Goto(c, [Idle EXCEPT !.phase = "save", !.publish = publish,
                                              !.book = Generated(analysis)])
       ELSE Say(c, "generated")
    /\ UNCHANGED <<incidents, seconds, settings, runbooks, suggestions>>

GenerateForIncident(c, i, save, publish) ==
    i \in DOMAIN incidents /\ Generate(c, AnalyzeIncident(i), save, publish)

GenerateForPattern(c, s, p, save, publish) ==
    Generate(c, [service |-> s, pattern |-> p, confidence |-> 80, related |-> {}], save, publish)

File(book) == <<book.id, IF settings.format = "markdown" THEN "md" ELSE "json">>

Put(book) ==
    runbooks' = [f \in DOMAIN runbooks \cup {File(book)} |->
                    IF f = File(book) THEN book ELSE runbooks[f]]

Save(c) ==
    /\ command[c].phase = "save"
    /\ \/ /\ Put(command[c].book)
          /\ IF command[c].publish THEN Goto(c, [command[c] EXCEPT !.phase = "publish"])
             ELSE Say(c, "saved")
       \/ Say(c, "failed") /\ UNCHANGED runbooks
    /\ UNCHANGED <<incidents, seconds, settings, suggestions, given>>

\* Get reads JSON only; so does what goes through it.
Found(id) == <<id, "json">> \in DOMAIN runbooks

\* Update looks the runbook up and saves it.
Publish(c) ==
    LET book == command[c].book
    IN /\ command[c].phase = "publish"
       /\ \/ Found(book.id) /\ Put([book EXCEPT !.published = TRUE]) /\ Say(c, "published")
          \/ Say(c, "failed") /\ UNCHANGED runbooks
       /\ UNCHANGED <<incidents, seconds, settings, suggestions, given>>

Listed(s) ==
    {f[1] : f \in {g \in DOMAIN runbooks : g[2] = "json" /\ s \in {None, g[1][2]}}}

\* The newest runbooks of a service, as many as asked for.
List(c, s, limit) ==
    LET books == Listed(s)
    IN /\ Give(c)
       /\ \E shown \in SUBSET books :
             /\ Cardinality(shown) = IF limit < Cardinality(books) THEN limit ELSE Cardinality(books)
             /\ \A a \in shown, b \in books \ shown : a[1] >= b[1]
             /\ Show(c, "list", shown)
       /\ UNCHANGED <<incidents, seconds, settings, runbooks, suggestions>>

\* Test and export show a runbook that is found.
Test(c, f) ==
    /\ Give(c)
    /\ f \in DOMAIN runbooks
    /\ Say(c, IF Found(f[1]) THEN "shown" ELSE "not found")
    /\ UNCHANGED <<incidents, seconds, settings, runbooks, suggestions>>

\* --------------------------------------------------------------------------

\* A service and a pattern are what the operator types.
Next ==
    \/ Tick
    \/ \E o \in Openings : Open(o)
    \/ \E i \in 1..MaxIncidents, a \in Analyses : Resolve(i, a)
    \/ \E c \in Commands :
          \/ ReadSuggestions(c) \/ WriteSuggestions(c) \/ Save(c) \/ Publish(c)
          \/ \E since \in 0..MaxIncidents : Patterns(c, since)
          \/ \E i \in 1..MaxIncidents :
                \/ Suggest(c, i)
                \/ \E save, publish \in BOOLEAN : GenerateForIncident(c, i, save, publish)
          \/ \E s, p \in STRING, save, publish \in BOOLEAN :
                GenerateForPattern(c, s, p, save, publish)
          \/ \E s \in STRING \cup {None}, limit \in Nat : List(c, s, limit)
          \/ \E f \in DOMAIN runbooks : Test(c, f)

Spec == Init /\ [][Next]_vars

\* ------------------------------- properties ------------------------------

TypeOK ==
    /\ seconds \in 0..MaxTime /\ given \in 0..MaxCommands
    /\ settings \in Configs
    /\ \A i \in DOMAIN incidents :
          incidents[i].opened \in Openings /\ incidents[i].analysis \in Analyses \cup {None}
    /\ DOMAIN suggestions = DOMAIN incidents
    /\ \A f \in DOMAIN runbooks :
          /\ f[1] = runbooks[f].id /\ f[2] \in {"md", "json"}
          /\ runbooks[f].related \subseteq 1..MaxIncidents /\ runbooks[f].published \in BOOLEAN
    /\ \A c \in Commands :
          /\ command[c].phase \in {"idle", "read", "write", "save", "publish"}
          /\ command[c].phase \in {"read", "write"} => command[c].incident \in DOMAIN incidents

\* What the command "generate --save --publish" has saved it finds again to
\* publish it (runbook/commands.go, runbook/store.go).
SavedIsFound ==
    \A c \in Commands : command[c].phase = "publish" => Found(command[c].book.id)

==============================================================================

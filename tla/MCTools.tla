------------------------------ MODULE MCTools -------------------------------
(***************************************************************************)
(* The parts of ToolParts for TLC. They have nothing in common: each       *)
(* behaviour is of one of them, the subject, and the others stay in their  *)
(* initial state.                                                          *)
(***************************************************************************)
EXTENDS ToolParts, Naturals, Sequences, TLC

CONSTANTS Subjects

config == <<files, legacy, activeFile, secrets, user, env, active, cache, migrating,
            own>>
edit == <<editor, index, inputs, says, test, copy, disk, editFiles, opens, typed>>
listen == <<kind, pc, pid, proc, port, file, overlapped>>
collab == <<version, told, open, queue, ready, shown, commands, announce, wizard, step,
            focused, hostShown, hostPrompt, results, asked, fetched, missed>>
browser == <<list, severity, state, filtered, cursor, page, picked>>
team == <<teamStep, infra, eks, urls, teamAsked, result, tests, sampling, saved>>
update == <<published, names, data, updatePc, running, started, download, fd>>
tour == <<menu, scenario, chapter, tourStep, picking, selected, tourResult, prompt,
          progress, settings, refresh, tourTest, raced, searches, fixes>>
follow == <<store, cmd, added, followCommands, deleted>>
predict == <<now, pidFile, life, known, past, last, scans, predictDisk, said,
             predictOverlapped>>
books == <<incidents, seconds, booksSettings, runbooks, suggestions, command, given>>

MCTyped == {[token |-> None, basic |-> c] : c \in {"c1", "c2"}}

\* One profile has a token in the environment, the other a user.
MCEnvironments ==
    {[n \in {"default", "team", "global"} |->
         [token |-> [b \in Backends |-> IF n = "team" THEN "c1" ELSE None],
          basic |-> [b \in Backends |-> IF n = "default" THEN "c2" ELSE None]]]}

MCStepsOf == [w \in {"resolve"} |-> 2]

MCOptional == <<"loki", "elastic">>

MCScenarios == <<"labs", "troubleshooter">>

MCChapters == [labs |-> << <<"lab">> >>, troubleshooter |-> << <<"notify", "toil">>, <<"slack">> >>]

MCProfiles == <<"default", "team">>

MCGrade == [t \in {"t", "u"} |-> IF t = "t" THEN "critical" ELSE "plain"]

MCAlike == [p \in {"t", "u"} \X {"t", "u"} |-> IF p[1] = p[2] THEN 100 ELSE 50]

Incident(n, s, st) == [id |-> n, severity |-> s, state |-> st]

MCStores ==
    {<<Incident(1, "P1", "active")>>,
     <<Incident(1, "P1", "active"), Incident(2, "P2", "active"), Incident(3, "P1", "resolved"),
       Incident(4, "P1", "active"), Incident(5, "P2", "suggested")>>}

MCTraces == {[latency |-> 0, rate |-> r, failed |-> r] : r \in {0, 12}}

Lifecycle(n, s, phase, text) == [id |-> n, service |-> s, phase |-> phase, text |-> text]

MCPast == {Lifecycle(1, "a", "pre-failure", "t"), Lifecycle(2, "b", "steady", "u")}

Opening(log, meta, confidence) ==
    [service |-> "a", log |-> log, meta |-> meta, confidence |-> confidence]

MCOpenings ==
    {Opening("connection_timeout", "", None), Opening("", "vault_issue", 85)}

MCAnalyses ==
    {[pattern |-> "general_error", signature |-> "oom", category |-> "capacity"]}

MCConfigs ==
    {[enabled |-> e, format |-> f, threshold |-> 70, categories |-> {"capacity"}, disabled |-> {}] :
        e \in BOOLEAN, f \in {"markdown", "json"}}

CommandSymmetry == Permutations(Procs)

\* All others keep still in the first of their initial states.
Init ==
    /\ subject \in Subjects
    /\ Config!Init
    /\ subject = "Config" \/ (files = [p \in ProfileNames |-> None] /\ legacy = None
                               /\ activeFile = "default")
    /\ Edit!Init
    /\ subject = "Edit" \/ \A o \in DOMAIN editFiles : editFiles[o] = Edit!NoCreds
    /\ Listen!Init
    /\ Collab!Init
    /\ Browser!Init
    /\ Team!Init
    /\ subject = "Team" \/ infra = "bare-metal"
    /\ Update!Init
    /\ Tour!Init
    /\ subject = "Tour" \/ settings = [p \in Tour!Owned |-> {}]
    /\ Follow!Init
    /\ Predict!Init
    /\ subject = "Predict" \/ past = {}
    /\ Books!Init
    /\ subject = "Books" \/ (booksSettings = CHOOSE s \in MCConfigs : TRUE)

Only(name) ==
    /\ UNCHANGED subject
    /\ IF name = "Config" THEN TRUE ELSE UNCHANGED config
    /\ IF name = "Edit" THEN TRUE ELSE UNCHANGED edit
    /\ IF name = "Listen" THEN TRUE ELSE UNCHANGED listen
    /\ IF name = "Collab" THEN TRUE ELSE UNCHANGED collab
    /\ IF name = "Browser" THEN TRUE ELSE UNCHANGED browser
    /\ IF name = "Team" THEN TRUE ELSE UNCHANGED team
    /\ IF name = "Update" THEN TRUE ELSE UNCHANGED update
    /\ IF name = "Tour" THEN TRUE ELSE UNCHANGED tour
    /\ IF name = "Follow" THEN TRUE ELSE UNCHANGED follow
    /\ IF name = "Predict" THEN TRUE ELSE UNCHANGED predict
    /\ IF name = "Books" THEN TRUE ELSE UNCHANGED books

ConfigNext ==
    \/ \E r \in Procs, p \in ProfileNames :
          subject = "Config" /\ Config!Open(r, p) /\ Only("Config")
    \/ \E r \in Procs : subject = "Config" /\ Config!RenameLegacy(r) /\ Only("Config")
    \/ \E r \in Procs : subject = "Config" /\ Config!Exit(r) /\ Only("Config")
    \/ \E r \in Procs, in \in Typed :
          subject = "Config" /\ Config!Edit(r, "prometheus", "url", in.token, in.basic) /\ Only("Config")
    \/ \E r \in Procs, p \in ProfileNames, in \in Typed :
          subject = "Config" /\ Config!SetUp(r, p, "prometheus", "url", in.token, in.basic) /\ Only("Config")
    \/ \E r \in Procs :
          subject = "Config" /\ Config!ClearFile(r, "prometheus") /\ Only("Config")

EditNext ==
    \/ \E e \in Opened :
          subject = "Edit" /\ Edit!Open(e) /\ Only("Edit")
    \/ \E v \in {"", "new", "bad"} : subject = "Edit" /\ Edit!Type(v) /\ Only("Edit")
    \/ \E k \in {"token", "basic"} : subject = "Edit" /\ Edit!Clear(k) /\ Only("Edit")
    \/ subject = "Edit" /\ Edit!Close /\ Only("Edit")
    \/ subject = "Edit" /\ Edit!Move /\ Only("Edit")
    \/ subject = "Edit" /\ Edit!Apply /\ Only("Edit")

ListenNext ==
    \/ \E s \in Slots : subject = "Listen" /\ Listen!Start(s) /\ Only("Listen")
    \/ \E s \in Slots : subject = "Listen" /\ Listen!Spawn(s) /\ Only("Listen")
    \/ \E s \in Slots : subject = "Listen" /\ Listen!Bind(s) /\ Only("Listen")
    \/ \E s \in Slots : subject = "Listen" /\ Listen!WritePIDFile(s) /\ Only("Listen")
    \/ \E s \in Slots : subject = "Listen" /\ Listen!PollSeen(s) /\ Only("Listen")
    \/ \E s \in Slots : subject = "Listen" /\ Listen!PollOut(s) /\ Only("Listen")
    \/ \E s \in Slots, k \in {"stop", "status", "reload"} :
          subject = "Listen" /\ Listen!Look(s, k) /\ Only("Listen")
    \/ \E s \in Slots : subject = "Listen" /\ Listen!Check(s) /\ Only("Listen")
    \/ \E s \in Slots : subject = "Listen" /\ Listen!Kill(s) /\ Only("Listen")
    \/ \E s \in Slots : subject = "Listen" /\ Listen!Remove(s) /\ Only("Listen")
    \/ \E s \in Slots : subject = "Listen" /\ Listen!Reload(s) /\ Only("Listen")
    \/ \E s \in Slots : subject = "Listen" /\ Listen!Die(s) /\ Only("Listen")

CollabNext ==
    \/ subject = "Collab" /\ Collab!Broadcast /\ Only("Collab")
    \/ \E g \in Guests : subject = "Collab" /\ Collab!Connect(g) /\ Only("Collab")
    \/ \E g \in Guests : subject = "Collab" /\ Collab!Disconnect(g) /\ Only("Collab")
    \/ \E g \in Guests : subject = "Collab" /\ Collab!WindowSize(g) /\ Only("Collab")
    \/ \E g \in Guests : subject = "Collab" /\ Collab!Receive(g) /\ Only("Collab")
    \/ \E g \in Guests : subject = "Collab" /\ Collab!EnterCommand(g) /\ Only("Collab")
    \/ \E g \in Guests : subject = "Collab" /\ Collab!RunAck(g) /\ Only("Collab")
    \/ \E g \in Guests : subject = "Collab" /\ Collab!OpenWizard(g) /\ Only("Collab")
    \/ \E g \in Guests : subject = "Collab" /\ Collab!Answer(g) /\ Only("Collab")
    \/ \E g \in Guests : subject = "Collab" /\ Collab!Escape(g) /\ Only("Collab")
    \/ subject = "Collab" /\ Collab!HostPrompt /\ Only("Collab")
    \/ subject = "Collab" /\ Collab!SavedElsewhere /\ Only("Collab")
    \/ subject = "Collab" /\ Collab!HostAct /\ Only("Collab")
    \/ subject = "Collab" /\ Collab!HostPostmortem /\ Only("Collab")
    \/ subject = "Collab" /\ Collab!HostResult /\ Only("Collab")
    \/ subject = "Collab" /\ Collab!HostRefresh /\ Only("Collab")
    \/ subject = "Collab" /\ Collab!HostRead /\ Only("Collab")
    \/ \E v \in fetched : subject = "Collab" /\ Collab!HostUpdated(v) /\ Only("Collab")

BrowserNext ==
    \/ subject = "Browser" /\ Browser!Load /\ Only("Browser")
    \/ subject = "Browser" /\ Browser!PressFilter /\ Only("Browser")
    \/ subject = "Browser" /\ Browser!Up /\ Only("Browser")
    \/ subject = "Browser" /\ Browser!Down /\ Only("Browser")
    \/ subject = "Browser" /\ Browser!PageUp /\ Only("Browser")
    \/ subject = "Browser" /\ Browser!PageDown /\ Only("Browser")
    \/ subject = "Browser" /\ Browser!Home /\ Only("Browser")
    \/ subject = "Browser" /\ Browser!End /\ Only("Browser")
    \/ subject = "Browser" /\ Browser!Enter /\ Only("Browser")
    \/ subject = "Browser" /\ Browser!Back /\ Only("Browser")

TeamNext ==
    \/ subject = "Team" /\ teamStep.ask # "over" /\ Team!Confirm /\ Only("Team")
    \/ subject = "Team" /\ teamStep.ask # "over" /\ Team!Arrow /\ Only("Team")
    \/ subject = "Team" /\ teamStep.ask # "over" /\ Team!ChooseInfra /\ Only("Team")
    \/ subject = "Team" /\ teamStep.ask # "over" /\ Team!AnswerCluster /\ Only("Team")
    \/ subject = "Team" /\ teamStep.ask # "over" /\ Team!Name /\ Only("Team")
    \/ \E filled \in BOOLEAN :
          subject = "Team" /\ teamStep.ask # "over" /\ Team!AnswerUrl(filled) /\ Only("Team")
    \/ subject = "Team" /\ teamStep.ask # "over" /\ Team!AnswerAuth /\ Only("Team")
    \/ subject = "Team" /\ teamStep.ask # "over" /\ Team!Slack /\ Only("Team")
    \/ subject = "Team" /\ teamStep.ask # "over" /\ Team!PagerDuty /\ Only("Team")
    \/ subject = "Team" /\ teamStep.ask # "over" /\ Team!Retest /\ Only("Team")
    \/ subject = "Team" /\ teamStep.ask # "over" /\ Team!TestReturns /\ Only("Team")
    \/ subject = "Team" /\ teamStep.ask # "over" /\ Team!Proceed /\ Only("Team")
    \/ subject = "Team" /\ teamStep.ask # "over" /\ Team!Skip /\ Only("Team")
    \/ subject = "Team" /\ teamStep.ask # "over" /\ Team!SamplingReturns /\ Only("Team")
    \/ subject = "Team" /\ teamStep.ask # "over" /\ Team!Quit /\ Only("Team")

UpdateNext ==
    \/ subject = "Update" /\ Update!Publish /\ Only("Update")
    \/ \E p \in {Updating} : subject = "Update" /\ Update!Launch(p) /\ Only("Update")
    \/ \E p \in {Updating} : subject = "Update" /\ Update!Download(p) /\ Only("Update")
    \/ \E p \in {Updating} : subject = "Update" /\ Update!Verify(p) /\ Only("Update")
    \/ \E p \in {Updating} : subject = "Update" /\ Update!Backup(p) /\ Only("Update")
    \/ \E p \in {Updating} : subject = "Update" /\ Update!Copy(p) /\ Only("Update")
    \/ \E p \in {Updating} : subject = "Update" /\ Update!Rename(p) /\ Only("Update")
    \/ \E p \in {Updating} : subject = "Update" /\ Update!Restore(p) /\ Only("Update")
    \/ \E p \in {Updating} : subject = "Update" /\ Update!Exit(p) /\ Only("Update")

TourNext ==
    \/ subject = "Tour" /\ Tour!StartSearch /\ Only("Tour")
    \/ subject = "Tour" /\ Tour!Search /\ Only("Tour")
    \/ subject = "Tour" /\ Tour!Arrow /\ Only("Tour")
    \/ subject = "Tour" /\ Tour!ClearSearch /\ Only("Tour")
    \/ subject = "Tour" /\ Tour!OpenScenario /\ Only("Tour")
    \/ subject = "Tour" /\ Tour!MoveProfile /\ Only("Tour")
    \/ subject = "Tour" /\ Tour!PickProfile /\ Only("Tour")
    \/ subject = "Tour" /\ Tour!DropProfile /\ Only("Tour")
    \/ subject = "Tour" /\ Tour!Leave /\ Only("Tour")
    \/ subject = "Tour" /\ Tour!NextStep /\ Only("Tour")
    \/ subject = "Tour" /\ Tour!PressFix /\ Only("Tour")
    \/ subject = "Tour" /\ Tour!Cancel /\ Only("Tour")
    \/ subject = "Tour" /\ Tour!Confirm /\ Only("Tour")
    \/ subject = "Tour" /\ Tour!EnterValue /\ Only("Tour")
    \/ subject = "Tour" /\ Tour!EnterNothing /\ Only("Tour")
    \/ subject = "Tour" /\ Tour!TestReturns /\ Only("Tour")
    \/ subject = "Tour" /\ Tour!RefreshStarts /\ Only("Tour")
    \/ subject = "Tour" /\ Tour!RefreshEnds /\ Only("Tour")

FollowNext ==
    \/ \E r \in Procs, i \in Ids :
          subject = "Follow" /\ Follow!Start(r, i) /\ Only("Follow")
    \/ \E r \in Procs, i \in Ids :
          subject = "Follow" /\ Follow!ChooseForAdd(r, i) /\ Only("Follow")
    \/ \E r \in Procs, i \in Ids, n \in 1..MaxAdded, w \in {"update", "delete"} :
          subject = "Follow" /\ Follow!ChooseItem(r, i, n, w) /\ Only("Follow")
    \/ \E r \in Procs, i \in Ids \cup {None}, named \in BOOLEAN :
          subject = "Follow" /\ Follow!BeginResolve(r, i, named) /\ Only("Follow")
    \/ \E r \in Procs : subject = "Follow" /\ Follow!Describe(r) /\ Only("Follow")
    \/ \E r \in Procs : subject = "Follow" /\ Follow!AddActionItem(r) /\ Only("Follow")
    \/ \E r \in Procs :
          subject = "Follow" /\ Follow!UpdateActionItem(r) /\ Only("Follow")
    \/ \E r \in Procs :
          subject = "Follow" /\ Follow!DeleteActionItem(r) /\ Only("Follow")
    \/ \E r \in Procs : subject = "Follow" /\ Follow!Save(r) /\ Only("Follow")
    \/ \E r \in Procs : subject = "Follow" /\ Follow!Resolve(r) /\ Only("Follow")
    \/ \E r \in Procs : subject = "Follow" /\ Follow!SaveResolved(r) /\ Only("Follow")
    \/ \E r \in Procs :
          subject = "Follow" /\ Follow!PerformFinalSync(r) /\ Only("Follow")
    \/ \E r \in Procs : subject = "Follow" /\ Follow!SaveImpact(r) /\ Only("Follow")
    \/ \E r \in Procs : subject = "Follow" /\ Follow!AddAnother(r) /\ Only("Follow")
    \/ \E r \in Procs : subject = "Follow" /\ Follow!GiveUp(r) /\ Only("Follow")

PredictNext ==
    \/ subject = "Predict" /\ Predict!Tick /\ Only("Predict")
    \/ subject = "Predict" /\ Predict!Stop /\ Only("Predict")
    \/ \E f \in Past : subject = "Predict" /\ Predict!Learn(f) /\ Only("Predict")
    \/ subject = "Predict" /\ Predict!Purge(0) /\ Only("Predict")
    \/ \E d \in Daemons : subject = "Predict" /\ Predict!Check(d) /\ Only("Predict")
    \/ \E d \in Daemons : subject = "Predict" /\ Predict!Start(d) /\ Only("Predict")
    \/ \E d \in Daemons : subject = "Predict" /\ Predict!NextTick(d) /\ Only("Predict")
    \/ \E d \in Daemons : subject = "Predict" /\ Predict!Crash(d) /\ Only("Predict")
    \/ \E d \in Daemons : subject = "Predict" /\ Predict!Notify(d, "a") /\ Only("Predict")
    \/ \E d \in Daemons : subject = "Predict" /\ Predict!Persist(d, "a") /\ Only("Predict")
    \/ \E d \in Daemons, x \in Texts \cup {None}, t \in Traces, i \in BOOLEAN :
          subject = "Predict" /\ Predict!Scan(d, "a", x, t, i) /\ Only("Predict")

BooksNext ==
    \/ subject = "Books" /\ Books!Tick /\ Only("Books")
    \/ \E o \in MCOpenings : subject = "Books" /\ Books!Open(o) /\ Only("Books")
    \/ \E i \in 1..2, a \in MCAnalyses :
          subject = "Books" /\ Books!Resolve(i, a) /\ Only("Books")
    \/ \E r \in Procs, i \in 1..2 :
          subject = "Books" /\ Books!Suggest(r, i) /\ Only("Books")
    \/ \E r \in Procs : subject = "Books" /\ Books!ReadSuggestions(r) /\ Only("Books")
    \/ \E r \in Procs : subject = "Books" /\ Books!WriteSuggestions(r) /\ Only("Books")
    \/ \E r \in Procs : subject = "Books" /\ Books!Save(r) /\ Only("Books")
    \/ \E r \in Procs : subject = "Books" /\ Books!Publish(r) /\ Only("Books")
    \/ \E r \in Procs, n \in 0..1 :
          subject = "Books" /\ Books!Patterns(r, n) /\ Only("Books")
    \/ \E r \in Procs, i \in {1}, save, publish \in BOOLEAN :
          subject = "Books" /\ Books!GenerateForIncident(r, i, save, publish) /\ Only("Books")
    \/ \E r \in Procs, save, publish \in BOOLEAN :
          subject = "Books" /\ Books!GenerateForPattern(r, "a", "oom", save, publish) /\ Only("Books")
    \/ \E r \in Procs, s \in {"a", None} :
          subject = "Books" /\ Books!List(r, s, 1) /\ Only("Books")
    \/ \E r \in Procs, f \in DOMAIN runbooks :
          subject = "Books" /\ Books!Test(r, f) /\ Only("Books")

Next ==
    \/ ConfigNext
    \/ EditNext
    \/ ListenNext
    \/ CollabNext
    \/ BrowserNext
    \/ TeamNext
    \/ UpdateNext
    \/ TourNext
    \/ FollowNext
    \/ PredictNext
    \/ BooksNext

vars == <<subject, config, edit, listen, collab, browser, team, update, tour, follow, predict, books>>

Spec == Init /\ [][Next]_vars

\* ------------------------------ properties -------------------------------

\* A runbook that was saved to be published is found (runbook/store.go).
SavedIsFound == subject = "Books" => Books!SavedIsFound

=============================================================================

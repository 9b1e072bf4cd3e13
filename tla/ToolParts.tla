------------------------------ MODULE ToolParts ------------------------------
(***************************************************************************)
(* The parts of the tool that operators work with: the profiles, the       *)
(* editors of the console, the life cycle of the alert listener, the       *)
(* collaborative session, the browser of incidents, the wizard for teams,  *)
(* the self update, the guided tour, the commands that finish an incident, *)
(* the predictor and the runbooks. Each is an instance with variables of   *)
(* its own; what they promise is stated here for TLC and the proofs alike. *)
(***************************************************************************)

CONSTANTS
    Procs, ProfileNames, Backends, Urls, Credentials, Typed, Environments, None,
    Opened, MaxOpens, MaxTyped, NoEditor,
    Slots, NoPid,
    Guests, Wizards, StepsOf, Buffer, MaxVersion, MaxReads,
    Stores, Severities, PageSize,
    Optional, MaxTests,
    Updating,           \* the only process that updates the tool
    MaxPublished, NoFile,
    Channels, Scenarios, Chapters, Profiles, ActiveProfile, MaxSearches, MaxFixes,
    Ids, MaxAdded, MaxCommands,
    Daemons, Services, Texts, Grade, Alike, Traces, Past, Quiet, Ages, MaxTime, MaxSaid,
    Openings, Analyses, Configs, MaxIncidents, MaxSeconds, MaxGiven

VARIABLES
    subject,            \* the part a behaviour is about
    files, legacy, activeFile, secrets, user, env, active, cache, migrating, own,
    editor, index, inputs, says, test, copy, disk, editFiles, opens, typed,
    kind, pc, pid, proc, port, file, overlapped,
    version, told, open, queue, ready, shown, commands, announce, wizard, step, focused,
    hostShown, hostPrompt, results, asked, fetched, missed,
    list, severity, state, filtered, cursor, page, picked,
    teamStep, infra, eks, urls, teamAsked, result, tests, sampling, saved,
    published, names, data, updatePc, running, started, download, fd,
    menu, scenario, chapter, tourStep, picking, selected, tourResult, prompt,
    progress, settings, refresh, tourTest, raced, searches, fixes,
    store, cmd, added, followCommands, deleted,
    now, pidFile, life, known, past, last, scans, predictDisk, said,
    predictOverlapped,
    incidents, seconds, booksSettings, runbooks, suggestions, command, given

Config == INSTANCE Profiles WITH Names <- ProfileNames, Creds <- Credentials
Edit == INSTANCE ConfigEditors WITH files <- editFiles
Listen == INSTANCE Listener
Collab == INSTANCE CollabSession
Browser == INSTANCE IncidentBrowser
Team == INSTANCE TeamWizard WITH step <- teamStep, asked <- teamAsked
Update == INSTANCE Updater WITH
    Procs <- {Updating}, MaxVersion <- MaxPublished, pc <- updatePc
Tour == INSTANCE Guide WITH
    Active <- ActiveProfile, step <- tourStep, result <- tourResult, test <- tourTest
Follow == INSTANCE FollowUp WITH commands <- followCommands
Predict == INSTANCE Predictor WITH disk <- predictDisk, overlapped <- predictOverlapped
Books == INSTANCE Runbook WITH
    Commands <- Procs, MaxTime <- MaxSeconds, MaxCommands <- MaxGiven,
    settings <- booksSettings

\* What the proofs assume of the constants.
ASSUME ConfigAssumption == Config!ConstantsAssumption
ASSUME EditAssumption == Edit!ConstantsAssumption
ASSUME ListenAssumption == Listen!ConstantsAssumption
ASSUME CollabAssumption == Collab!ConstantsAssumption
ASSUME BrowserAssumption == Browser!ConstantsAssumption
ASSUME TeamAssumption == Team!ConstantsAssumption
ASSUME UpdateAssumption == Update!ConstantsAssumption
ASSUME TourAssumption == Tour!ConstantsAssumption
ASSUME FollowAssumption == Follow!ConstantsAssumption
ASSUME PredictAssumption == Predict!ConstantsAssumption
ASSUME BooksAssumption == Books!ConstantsAssumption

\* ------------------------------ properties -------------------------------

\* Every variable of the part at work has its type.
TypeOK ==
    /\ subject = "Config" => Config!TypeOK
    /\ subject = "Edit" => Edit!TypeOK
    /\ subject = "Listen" => Listen!TypeOK
    /\ subject = "Collab" => Collab!TypeOK
    /\ subject = "Browser" => Browser!TypeOK
    /\ subject = "Team" => Team!TypeOK
    /\ subject = "Update" => Update!TypeOK
    /\ subject = "Tour" => Tour!TypeOK
    /\ subject = "Follow" => Follow!TypeOK
    /\ subject = "Predict" => Predict!TypeOK
    /\ subject = "Books" => Books!TypeOK

\* A user that is a profile's own is used for it ever after, unless the
\* environment names one (config.go).
OwnUserStays == Config!OwnUserStays

\* An editor that says it has saved has done so (interactive_tui.go).
SavedIsOnDisk == Edit!SavedIsOnDisk

\* Nothing typed takes no credentials away (interactive_tui.go).
SecretsKept == Edit!SecretsKept

\* Commands that do not overlap find the listener that runs (alert/commands.go).
ListenerIsFound == Listen!ListenerIsFound

\* Guests who have read their broadcasts see every action announced (server.go).
FreshOnceDrained == Collab!FreshOnceDrained

\* No key takes the cursor off the page that is shown (incident_browser.go).
KeysKeepPage == Browser!KeysKeepPage

\* A profile fits the infrastructure that was chosen (wizard_teams.go).
ProfileFitsInfra == Team!ProfileFitsInfra

\* The installed binary can be started at all times (update/updater.go).
CurrentBinaryWorks == Update!CurrentBinaryWorks

\* A fix goes to the profile that was selected (guide/engine.go).
FixesSelected == Tour!FixesSelected

\* Until one is deleted, items have IDs of their own (incident/service.go).
UniqueUntilDeleted == Follow!UniqueUntilDeleted

\* No service is announced twice within minutes (ml/predictor_daemon.go).
QuietAfterAnnouncing == Predict!QuietAfterAnnouncing

=============================================================================

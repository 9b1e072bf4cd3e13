# Verification of the Health Monitor SRE engine

This directory holds TLA+ modules that model the engine in `src/`, TLC
configurations that check them on small instances, and TLAPS proofs, for every
instance, of all the safety properties the passing configurations check. `PROJECT.json`
is the index: components, runs, the source lines each definition translates, the
hazards of the code, findings and theorems.

```
tlc -workers 2 -config incident_workers.cfg MCIncidentService
tlc -workers 2 -config services.cfg MCServices
tlapm IncidentService_proofs.tla
tlapm ReportParts_proofs.tla
tlapm ServiceTypes_proofs.tla
tlapm ToolParts_proofs.tla
```

Paths below are relative to `src/internal/` unless they begin with `pkg/`.

## 1. The system

The engine is one Go binary. It runs as short commands (`health-monitor
incident ...`), as a long-lived alert listener, an SLO monitor, a predictor
daemon, a full-screen console and a collaborative SSH server. These processes
share no memory and no lock; they meet in the data directory, where every incident
is one JSON file. Inside a process, HTTP handlers, workers and background
goroutines share one incident service and its mutex `storeMu`; terminal programs
handle one message at a time, while commands they have sent run beside them.

| component | state it keeps | operations | meets others through | what is hard | what makes it correct |
|---|---|---|---|---|---|
| Incident record (`incident/models.go`, `state.go`) | one incident: state, event log, metadata | transition table, append of an event | copied by value | legality is checked on a copy | the log is a legal life and explains the state |
| Incident store (`incident/store.go`, `storage/atomic.go`) | one file per incident, `storeMu` per process | Load, List, Save, SaveNew, SaveMetadata, SaveRunbookSuggestion | files | the lock covers one access, and one process only; a failing save may have written | an ID is given once; a file is a whole record |
| Incident service (`incident/service.go`) | copies in flight | start, suggest, promote, note, severity, acknowledge, four resolutions, view, action items | store, goroutines it leaves behind, notifiers | load - edit - save without a lock across it; goroutines saving old copies; processes that end in between | no illegal life; resolved once nobody holds an older version; every call returns |
| Incident commands and views (`incident/commands.go`, ...) | the copy on display, answers to questions | prompts, then a service operation | incident service | what was read before a question is used after it | what is shown or numbered stays true |
| Toil analytics (`incident/toil_analytics.go`) | none | summaries, savings, verification | incidents of all profiles | rates differ, breakdowns are cut | savings lie within the cost |
| Alert processor (`alert/handler.go`) | fingerprint cache, rules, counters | webhook, workers, attach, escalate, start or suggest | incident service, flow cache, reload | workers between look-up and action; dedup before handling; cache swapped by a reload | one alert, one decision; counters that account for the incidents |
| Alert listener (`alert/commands.go`, `pidfile.go`) | PID file, port | start, stop, status, reload | signals, PID file | stale PID, two starts | commands find the listener that runs |
| Flow catalog (`flow/loader.go`) | one `sync.Once` and result per profile | LoadOnce, InvalidateCache, watch | alert processor, incident service | a load that started before an invalidation ends after it | a reader sees a result, and a newer one after a change |
| SLO monitor (`slo/`) | firing objectives | evaluate, hand breaches over | alert processor | NaN, empty windows, errors | a breach reaches the processor and ends there |
| Lifecycle recorder (`ml/lifecycle_recorder.go`) | rolling window, its file, seeds, lifecycle files | push, persist, seed, write | incident service, daemon | two writers of one file | the history of an incident is not lost |
| Predictor (`ml/predictor_daemon.go`, `agent.go`) | debounce times, predictions on disk | scan, announce, purge, stop | recorder, notifiers | debounce read and set apart; restarts | one announcement per while |
| Notifiers (`notify/slack/`) | circuit breaker | notify, retry | incident service | concurrent callers and an open breaker | the circuit opens on failures and closes again |
| Collaborative server (`remote/server.go`, `incident/tui_view.go`) | sessions with bounded buffers, prompts | join, leave, broadcast, act | incident service | full buffers, prompts that take messages, saves nobody is told of | a guest sees every action that was announced |
| Configuration, profiles (`config/`) | profiles, active profile, credential files | load, switch, edit, migrate | everything | files shared by profiles, failing writes | a profile's own settings are used |
| Wizards (`config/wizard.go`, `wizard_teams.go`) | a step, answers, tests in flight | answer, test, discover | profiles | answers of tests in any order | they end, with a profile that fits |
| Console (`tui/interactive_tui.go`) | sixteen view flags, scroll, selections, editors | keys, refreshes, lists, drilldown, edit | profiles, checks | answers late or out of order, flags left set | one view; the detail shown is that of the selection; saved means saved |
| Incident browser (`tui/incident_browser.go`) | list, cursor, page | move, filter, open | incident service | the cursor, the page and the list change separately | no key takes the cursor off the page that is shown |
| Guide (`guide/`) | place, diagnosis, fix in progress | search, navigate, diagnose, fix, test | profiles | results after the user has gone on | a fix goes where it was asked for |
| Scorecard (`scorecard/service.go`) | cache of objectives | reports by profile, service, organization | incidents, SLOs | caches, months, open incidents | an incident makes nothing look better |
| Client of Prometheus (`analyse/prometheus/prometheus.go`) | spacing, cached names and series | query, names, series | analyses | a lock over a request, retries | each call ends; names are fetched once |
| Analyses (`analyse/api_latency/`, `analyse/apm/`) | none, but for the client's caches | discover, query, conclude | client, check | goroutines that score, fallbacks of fallbacks, ignored errors | what is discovered has data; conclusions rest on comparisons |
| Runbooks (`runbook/`) | a file per runbook, one of suggestions | suggest, generate, publish, list, test | incidents | formats, read-modify-write | what is saved is found |
| Self update (`pkg/update`) | the binary, a backup | download, verify, replace, restore | the file system | failure or exit between two steps | a binary that runs is left |
| Discovery, correlators, audit log, metrics gauges, security middleware, checks, feedback, doctor, demo, output | see section 6 | | | | |

## 2. What is modelled

### Modules

| module | models | main abstractions |
|---|---|---|
| `IncidentRecord` | the record, `ValidateTransition`, constructors and edits; as reference, what a legal life is and the state it leads to | events are their kind and their user |
| `IncidentService` | service over store: processes, actors, copies in flight, goroutines left behind, failing saves, crashes, the clock | see below |
| `IncidentRegistry` | abstract: what the store promises under concurrency in one process - an ID stays with its incident, and holds some version of it | |
| `IncidentJournal` | abstract: what the operations promise to a caller who is alone - an append-only log with a legal state | |
| `AlertProcessor` | `handler.go`: workers, fingerprint cache, rules, reload, attach / escalate / resolve / create / suggest | a call of the incident service is one step, but for `StartForServiceFlow`, which looks and creates in two |
| `Listener` | start, stop, status, reload through the PID file; the port, crashes | a slot is a command line; process ids are not reused |
| `FlowCatalog` | `LoadOnce`, `InvalidateCache` and the watcher, by critical section | the files are a version |
| `SloMonitor` | verdict per kind of objective, the monitor loop, the hand-over | half of the requests is the objective |
| `Telemetry` | the window the daemon and the commands share, seeds, lifecycles, the checker of active incidents | a snapshot is its time, service and tag; seeds and lifecycles are sets of them, the windows sequences |
| `Predictor` | daemons, scans, knowledge, debounce in memory and on disk, announcement, purge, start / stop with the PID file | similarity of two texts is a table in percent |
| `Notifier` | breaker, both retry loops, the 30 s of an event, which other notifiers may have spent before a call begins, the panic on a fifth attempt | the provider is up or down |
| `CollabSession` | sessions, `Broadcast`, guests' prompts and wizards, the host's view; saves that are not announced: disowned ones, the note of the host's postmortem, those of other commands and goroutines | the incident is a version |
| `Profiles` | profile files, copies in memory, active profile, migration, credentials: tokens and users of the environment, the profile and the user | a URL stands for all plain settings |
| `ConfigEditors` | the editors of the console: fields, checks, what each writes | a field is empty, as it was, new, or bad |
| `SetupWizard`, `TeamWizard` | every question, tests and discovery in the background | an answer is given or not |
| `Console` | views, keys, scrolling, selectors, drilldown, messages in any order, and the refresh that panics and is never answered | a view is its name, its service and its length |
| `IncidentBrowser` | list, filter, pages, cursor, detail | incidents are numbers |
| `Guide` | menu, steps, search, diagnosis with every fix that is offered, tests, the refresh goroutine, progress | steps are kinds |
| `FollowUp` | start, resolve with analysis, action items, with their prompts | an item is its number and a tag |
| `ScorecardReport` | reports of profiles, services and the organization, the cache of objectives | percentages are integers |
| `ToilReport` | list, compare, verify, report | minutes and rates are small numbers |
| `PromClient` | throttle, retries, cached names and series, goroutines sharing a client, bodies that break off | time in intervals of the limit |
| `ApiLatency` | discovery and scoring of metrics, labels, traffic, percentiles, errors, endpoints, regressions, verdict | Prometheus is a world of series with rates per window |
| `ApmGraph` | metric and labels of the graph, edges, baselines, scores, suspect | latencies in tenths of a second |
| `Runbook` | patterns of incidents, suggestions, generation, save, publish, list, test | texts are tags; a runbook is what names its file |
| `Updater` | download, verify, back up, replace, restore over inodes | a file is complete or cut |
| `Selections` | the list that is left when some elements are kept, for `IncidentBrowser` and `FollowUp` | the kept elements by rank |
| `ToolParts` | side by side, `Profiles`, `ConfigEditors`, `Listener`, `CollabSession`, `IncidentBrowser`, `TeamWizard`, `Updater` (one process), `Guide`, `FollowUp`, `Predictor` and `Runbook`; the assumptions on their constants, the types of all of them (`TypeOK`), and their properties | |
| `ServiceParts` | the same for `FlowCatalog`, `Notifier`, `SloMonitor`, `Telemetry`, `SetupWizard`, `ScorecardReport`, `ToilReport`, `PromClient`, `ApiLatency` and `ApmGraph` | |
| `MCIncidentService`, `MCAlertProcessor`, `MCConsole` | values of the constants for TLC | |
| `MCTools`, `MCServices` | `ToolParts` and `ServiceParts` with values for TLC, and the next-state relation that runs one part at a time | |
| `IncidentService_proofs`, `AlertProcessor_proofs`, `Console_proofs`, `ToolParts_proofs`, `ServiceParts_proofs`, `ReportParts_proofs`, `ServiceTypes_proofs` | the theorems, for any values of the constants | |
| `SumTheorems` | lemmas on sums over finite sets, by induction | |

`PROJECT.json` maps each definition to the lines it translates. In all modules
one action is one handler, message or critical section with everything it calls;
where the code lets go between a read and its use (a prompt, a query, an unlock, a
goroutine), the action ends there and what was read is kept in a variable.

`MCServices` and `MCTools` run many components that do not touch each other. A
variable `subject`, chosen at the start and never changed, says which of them a
behaviour is about, and the others stay at their first state: the state
space is the sum of theirs, not the product, and a property of a component says
nothing about the behaviours of the others. Components that do interact are in one
module: the incident service with its store and its goroutines, the processor with
the incidents it makes, the daemon with the incident commands (`Telemetry`), the
host with its guests, the goroutines of an analysis with their client.

### The incident service: state and actions against the code

| variable | code |
|---|---|
| `now` | the clock, in seconds: `generateID` formats it to the second, so an ID **is** a second |
| `files` | the incident files; a save is one rename, so a file changes as a whole |
| `holder` | which goroutine of a process is between `Lock` and `Unlock` in `SaveNew` |
| `actor` | per goroutine: the operation, where it stands, the ID, the in-memory incident, the second copy `SaveRunbookSuggestion` loads, the attempts that collided |
| `background` | saves of the trace correlation goroutine of `Start` and of `persistLifecycle` that are still to come |

A step is one critical section of `storeMu`: a List or Load together with the
checks and the edit of the copy that follow it, or one Save. `SaveNew` is two
steps (`SaveNewStat`, `SaveNewWrite`), so that its look and its write can be
interleaved with another **process**; within the process the lock, modelled by
`holder`, forbids it. `NewCall` begins an operation, `Continue` is the rest of
it, `FinishBackground` the goroutines left behind. `Exit(p)` ends a process,
by a crash or because a command has printed its answer: its actors and
goroutines are gone, the files stay.

A save has three outcomes: `"done"`; `"failed"`, with the old file in place
(`AtomicWriteFile`); and `"disowned"`, with the new file in place and an error
returned (`applySudoOwnership` after the rename). Each operation reacts as the
code does: the change operations return the error, the saves of `Start`, of the
view and of the final sync only log it and go on.

- **Record.** Severity, title, links, logs, traces, analysis, toil and action
  items are left out here (the last three are in `FollowUp`, `ScorecardReport` and
  `ToilReport`). Metadata is kept as the set of its two writers.
- **Queries** (Kubernetes, Loki, Tempo) are the time that passes between two
  steps; whether they are configured is a constant, whether they find something
  is a choice (`NoRunbook`, `NoTraces`).
- **`List`** is one step. Within a process `storeMu` covers the whole walk; for
  another process's files the code reads one file after another, so a list may
  mix two moments. The model has fewer interleavings there.
- **Files load.** A file that exists is read and parsed; files are replaced by
  rename only. Month directories, copies in the legacy root and the profile
  migration are left out.
- **One profile.** The `Profile` field is not modelled. (`Suggest` leaves it
  empty, so a promoted suggestion counts as active in every profile.)
- **`config.Load` failing** in `generateObservabilityLinks` skips the save, which
  leaves the same files as a save that failed.
- **`...WithMetadata`.** `StartForServiceFlow` and `Suggest` are called by
  `alert/handler.go` only, through the `WithMetadata` variants and with a
  non-empty map, so the metadata step always follows. `StartWithMetadata` has
  no caller.
- **`mlRecorder`** is never nil (`NewService`), so `persistLifecycle` always
  starts its goroutine. What `AutoLookbackEnrichment` and that goroutine do to the
  telemetry is in `Telemetry`.
- **Flows.** `FlowsOf` is constant here; the cache that can make it stale is
  `FlowCatalog`.

### Mutated definitions

Operators whose comment begins "As X, ..." are defined next to X with one
mistake in them (a forgotten check, a missing unlock, an attempt too many).
The specifications do not use them; `PROJECT.json` pairs each with a property
that TLC finds violated when it replaces X, which shows that the property can
tell the code from that mistake.

## 3. What is checked

### Properties

The incident service:

| property | kind | says |
|---|---|---|
| `TypeOK` | invariant | types; in particular the attempts of `SaveNew` stay below three |
| `FilesConsistent` | invariant | every file is a legal life, in the state it leads to, whatever interleaves |
| `SettledIsFinal` | action | an incident stays resolved once no operation and no goroutine holds a version from before |
| `IdentityKept` | action | in one process an incident's file never disappears and never becomes another incident's |
| `ImplementsRegistry` | refinement | the files of one process implement `IncidentRegistry` |
| `ImplementsJournal` | refinement | with one caller at a time, the files implement `IncidentJournal` |
| `CallsReturn` | liveness | an operation that has begun returns |

`FilesConsistent` survives every lost update, `SettledIsFinal` says when a
resolution does hold, `IdentityKept` needs one process, and the journal needs one
caller: the code promises no more (see the observations in section 5).

The other components (each module has one type invariant as well, checked by
`TypeOK` of the run):

| property | module | kind | says |
|---|---|---|---|
| `ReloadTakesEffect` | `AlertProcessor` | invariant | an alert marked in the cache of a reload is matched against the rules of that reload or of a later one |
| `IncidentsAccounted` | `AlertProcessor` | invariant | the metrics count the incidents that were made, no more and, but for one about to be counted or a failure, no fewer |
| `Consolidated` | `AlertProcessor` | action | no incident is made for a flow that had, when the worker looked, an active one or, unless a lookup failed, a fresh suggested one |
| `ListenerIsFound` | `Listener` | invariant | commands run one at a time find the listener, whatever crashed before |
| `FreshUnlessRaced` | `FlowCatalog` | action | as long as loads and invalidations have not overlapped, a caller gets what the files held at the last invalidation or later |
| `FiringSettles` | `SloMonitor` | liveness | an objective that goes on failing fires, and one that goes on being met stops |
| `OnlySeedIsForeign` | `Telemetry` | action | a lifecycle has snapshots of another incident only where its seed had |
| `SeedReachesLifecycle` | `Telemetry` | action | the history an incident was seeded with is in its lifecycle, however often the window was overwritten |
| `QuietAfterAnnouncing` | `Predictor` | action | one daemon never announces a service twice within the quiet time; one that follows it not the same pattern |
| `TripsOnFailures` | `Notifier` | action | the circuit opens only after enough failures since it last closed |
| `Recovers` | `Notifier` | liveness | with the provider back, events to send and time left for them, the circuit closes and stays closed, unless the process dies |
| `FreshOnceDrained` | `CollabSession` | invariant | a guest who has read all broadcasts sees every announced action, although some broadcasts were dropped and some saves are announced to nobody |
| `OwnUserStays` | `Profiles` | invariant | a profile set up with a user of its own for Prometheus is used with it ever after, or with the user the environment names |
| `SavedIsOnDisk` | `ConfigEditors` | invariant | when an editor says saved, all the console has in memory is on disk |
| `SecretsKept` | `ConfigEditors` | action | an empty password or token takes nobody's access away (Elasticsearch excepted, whose credentials are in the profile) |
| `DiscoveryEnds` | `SetupWizard` | liveness | the wizard gets past the discovery |
| `ProfileFitsInfra` | `TeamWizard` | invariant | a profile is saved for a cluster exactly if one was chosen, for EKS only after all its questions |
| `OneView` | `Console` | invariant | keys reach one view |
| `DetailIsOfSelected` | `Console` | invariant | a detail never shows the signals of another service |
| `KeepsRefreshing` | `Console` | liveness | the main screen goes on being refreshed, unless a refresh died: nothing else ends it |
| `FixesSelected` | `Guide` | action | a fix goes to the profile it was diagnosed for, unless a step was left while its diagnosis ran |
| `UniqueUntilDeleted` | `FollowUp` | invariant | until one is deleted, action items have IDs of their own, however commands overlap |
| `WorseIsNoBetter` | `ScorecardReport` | action | one more incident of a listed service makes no score and no health better |
| `SavingsWithinCost` | `ToilReport` | invariant | savings do not exceed the cost, at the rates of several profiles |
| `NamesFetchedOnce` | `PromClient` | invariant | one goroutine at a time fetches the names, and none once they are known |
| `CallsEnd` | `PromClient` | liveness | every call ends, also while another one holds the lock and Prometheus does not answer, or is one that decodes a sample that broke off |
| `DiscoveryFits` | `ApiLatency` | invariant | what is discovered has data, and the labels taken are on it |
| `HighIsCompared` | `ApmGraph` | invariant | high confidence in a cause needs a baseline |
| `CurrentBinaryWorks` | `Updater` | invariant | the installed binary can be started, whatever fails and whenever the process ends |

### Runs that pass

| run | system | bounds | why these |
|---|---|---|---|
| `incident_workers` | one process, two goroutines, suggest / promote / note / acknowledge / resolve | one second, so one incident; three events | every pair of changes of one incident interleaves, and a third event makes a lost update visible; both actors can hold a copy from before the resolution while its lifecycle goroutine runs |
| `incident_cli` | two processes, start / note / view / resolve, trace goroutines | one second, two events | shared directory without a lock; commands end while their goroutines run; with one ID both processes can take it |
| `incident_serial` | one caller, all operations, all options, failing and disowned saves, crashes | two seconds, three events | two incidents, so that "the only active one" and "more than one" both occur, and a life can be suggested - started - resolved, or started - acknowledged - resolved |
| `incident_returns` | one process, two actors that create, failing saves | three seconds | collisions, retries and every error return of `SaveNew` |
| `alerts` | two workers, a reload, repeated deliveries, failing calls, people who promote and resolve | two services of one flow, two deliveries, clock to 2, one counted failure | two alerts meet between look and act; an alert is repeated inside and outside the window, before and after the reload |
| `console` | the console with two services, two editors, five other views, two commands in flight | lists of one or two names, views of one to three lines | refreshes for two different services in flight, a service that disappears, scrolling past the end |
| `services` | what runs unattended or only reads | below | |
| `tools` | what operators work with | below | |

The parts of `services` and `tools` (`subject`), with their bounds:

| part | module | bounds |
|---|---|---|
| `Catalog` | `FlowCatalog` | two loads at a time, one change of the files: a load may begin before the invalidation and end after it |
| `Notify` | `Notifier` | two callers, threshold 2, Slack, PagerDuty or Jira, the provider down and up |
| `Monitor` | `SloMonitor` | each kind of objective; few, no and absent requests |
| `Recorder` | `Telemetry` | a daemon and two incidents, one window file that may overflow |
| `Setup` | `SetupWizard` | every backend, one test in flight per backend, one discovery |
| `Score` | `ScorecardReport` | two profiles of one service each, P1 and P3 incidents, months of two units, the cache outlived by a report |
| `Toil` | `ToilReport` | two incidents of two profiles, categories with a top of one |
| `Client` | `PromClient` | two goroutines with a call each, two retries |
| `Latency` | `ApiLatency` | six worlds (a spike with errors, a summary with a counter without service, two idle services, traffic by route, traffic alone, ...) for six configurations; an outage between any two queries |
| `Apm` | `ApmGraph` | four graphs for five configurations; any query failing |
| `Config` | `Profiles` | two commands, two profiles, Prometheus with or without users and tokens, a user in the environment for one profile and a token for the other, crashes |
| `Edit` | `ConfigEditors` | the editors of Loki, Grafana and correlation, opened twice, one thing typed |
| `Listen` | `Listener` | three command lines, which may die at any step |
| `Collab` | `CollabSession` | one guest with a buffer of one and a wizard of two steps, the host with a read in flight; two saves, announced or not |
| `Browser` | `IncidentBrowser` | a list of one incident and one of five, pages of two |
| `Team` | `TeamWizard` | every step; tests repeated while one runs |
| `Update` | `Updater` | one process at a time, each of its steps failing or the last |
| `Tour` | `Guide` | the labs and the troubleshooter (notifications, toil, Slack), two profiles, one fix, one search |
| `Follow` | `FollowUp` | two commands, two incidents, three items |
| `Predict` | `Predictor` | two daemons one after the other or at once, two texts, two announcements |
| `Books` | `Runbook` | two commands, two incidents, markdown or JSON, runbooks enabled or not |

All set `CHECK_DEADLOCK FALSE`: with the clock at its bound or the user gone a
model may have nothing left to do, and the real programs too may be idle for ever.
Symmetry is used where the permuted values are treated alike and no liveness is
checked: of the actors in `incident_workers`, the workers in `alerts`, the
commands in `tools`.

### Runs that are violated

Each checks one sentence of the documentation, of a comment or of an interface, and
TLC finds a behaviour of the code that breaks it (`findings` in `PROJECT.json` quotes
the sentence and tells the behaviour).

| run | property | in short |
|---|---|---|
| `incident_unresolved` | `ResolvedIsFinal` | a save of a copy loaded before the resolution takes the incident out of Resolved |
| `slo_no_traffic` | `NoTrafficIsNoBreach` | a latency objective without requests is NaN, hence breached, hence an alert (`slo/service.go:324`) |
| `resolved_tagged` | `TagsActiveOnly` | the daemon compares the state with "resolved", the store writes "Resolved": snapshots are tagged with resolved incidents (`ml/predictor_daemon.go:74`) |
| `runbook_published` | `SavedIsFound` | a runbook saved as markdown, the default, is looked for as JSON and never found (`runbook/store.go:88`) |

### Fairness

- **Incidents.** `FairSpec` asks for strong fairness of each actor's next step and
  weak fairness of the clock. A goroutine that can run is scheduled; `storeMu` is a
  `sync.Mutex`, whose starvation mode hands it to a waiter, so an actor for which the
  lock is free again and again gets it (hence strong); the queries between two steps
  have timeouts (10 to 60 s), so a step comes; seconds pass. Nothing is asked of the
  callers, of processes ending, or of the goroutines left behind, which the code lets
  die with the process. `CallsReturn` excepts an actor that waits for the second
  after the last one the model has.
- **Console.** Weak fairness of the tick, which `tea.Tick` sends, and of commands,
  each of which has a timeout: one that is under way is answered or dies. A refresh
  that panics is recovered with a nil message (`interactive_tui.go:343-349`):
  `loadingRefresh` stays set and every later tick is skipped, for good. The code does
  nothing against that, so `KeepsRefreshing` has it as its one exception (`lost`).
  Nothing is asked of the user.
- **Notifier.** Weak fairness of the steps of a call that was begun (HTTP calls
  and waits are bounded) and of the time in which a circuit cools. `Recovers` assumes
  of its environment, in its own statement, that the provider stays up, that
  events go on coming, and that in the end a call that begins finds time left: the
  notifiers of an event share thirty seconds, one after another
  (`incident/service.go:1183-1196`), and a call whose time others have spent fails and
  counts as a failure of a provider that is well. Without this premise `Recovers` is
  false of the code.
- **SLO monitor.** Weak fairness of its one loop.
- **Setup wizard.** Weak fairness of the answers of tests and discoveries, which
  have timeouts; none of the user.
- **Client of Prometheus.** Weak fairness of time, and strong fairness of each
  goroutine, because its step may need the lock, a `sync.RWMutex` in which a waiting
  writer keeps later readers out. `QueryVector` passes over a sample it cannot decode
  and tries again (`prometheus.go:369-376`); of a body that breaks off within a sample
  it reads the same one for ever. Such a call is left in the loop (`"decoding"`) and
  `CallsEnd` says so; it holds no lock there.

## 4. What is proved

The theorems are about the specifications that TLC runs, for every value of the
constants: any number of actors, processes, services, incidents, retries, views or
seconds. What is assumed of the constants is named in the module that declares them
(`ConstantsAssumption`, in `AlertProcessor` and `Console` two assumptions each);
`ToolParts` and `ServiceParts` assume it of each of their instances
(`ConfigAssumption`, `ListenAssumption`, ...). TLC evaluates all of them in its runs.
The theorems about a part are about its own specification (`Config!Spec`,
`Listen!Spec`, ...): what happens to a subject in `MCTools` or `MCServices`.

| module | theorem | states |
|---|---|---|
| `IncidentService` | `TypeCorrect` | `TypeOK` |
| | `HistoryCorrect` | `FilesConsistent` |
| | `SettledCorrect` | `SettledIsFinal` |
| | `IdentityCorrect` | `IdentityKept`, when all actors are in one process |
| | `RegistryImplemented` | `ImplementsRegistry`, when all actors are in one process |
| | `JournalImplemented` | `ImplementsJournal`, of `SerialSpec`: one caller at a time |
| `AlertProcessor` | `TypeCorrect` | `TypeOK` |
| | `OneIncidentPerAlert` | `OnePerAlert`: no more incidents than were stored and delivered |
| | `ReloadCorrect` | `ReloadTakesEffect` |
| | `MetricsCorrect` | `IncidentsAccounted` |
| | `ConsolidationCorrect` | `Consolidated` |
| `Console` | `TypeCorrect` | `TypeOK` |
| | `OneViewCorrect` | `OneView` |
| | `DetailCorrect` | `DetailIsOfSelected` |
| `FlowCatalog` | `CatalogTypeCorrect`, `FreshCorrect` | its types, `FreshUnlessRaced` |
| `PromClient` | `ClientTypeCorrect`, `FetchCorrect` | its types, `NamesFetchedOnce` |
| | `LockGivenBack` | `ClientLockIsOfFetcher`: whoever holds the lock is fetching the names |
| `Listener` | `ListenTypeCorrect`, `ListenerFound` | its types, `ListenerIsFound` |
| `FollowUp` | `FollowTypeCorrect`, `ItemsUnique` | its types, `UniqueUntilDeleted` |
| `IncidentBrowser` | `BrowserTypeCorrect`, `KeysCorrect` | its types, `KeysKeepPage` |
| `Runbook` | `BooksTypeCorrect` | its types |
| `CollabSession` | `SessionTypeCorrect`, `FreshCorrect` | its types, `FreshOnceDrained` |
| `TeamWizard` | `TeamTypeCorrect`, `ProfileCorrect` | its types, `ProfileFitsInfra` |
| `Profiles` | `ProfilesTypeCorrect`, `OwnUserCorrect` | its types, `OwnUserStays` |
| `ConfigEditors` | `EditTypeCorrect`, `SavedCorrect`, `SecretsCorrect` | its types, `SavedIsOnDisk`, `SecretsKept` |
| `Updater` | `UpdateTypeCorrect`, `BinaryCorrect` | its types, `CurrentBinaryWorks` with one process |
| `Notifier` | `NotifyTypeCorrect`, `TripsCorrect` | its types, `TripsOnFailures` |
| `Predictor` | `PredictTypeCorrect`, `QuietCorrect` | its types, `QuietAfterAnnouncing` |
| `ApmGraph` | `ApmTypeCorrect`, `ComparedCorrect` | its types, `HighIsCompared` |
| `ApiLatency` | `LatencyTypeCorrect`, `DiscoveryCorrect` | its types, `DiscoveryFits` |
| `SloMonitor` | `MonitorTypeCorrect` | its types |
| `SetupWizard` | `SetupTypeCorrect` | its types |
| `ToilReport` | `ToilTypeCorrect`, `SavingsCorrect` | its types, `SavingsWithinCost` |
| `ScorecardReport` | `ScoreTypeCorrect`, `WorseCorrect` | its types, among them that every score, availability and position is in range; `WorseIsNoBetter` |
| `Guide` | `TourTypeCorrect`, `FixesCorrect` | its types, `FixesSelected` |
| `Telemetry` | `RecorderTypeCorrect`, `OnlySeedCorrect`, `SeedReachesCorrect` | its types, `OnlySeedIsForeign`, `SeedReachesLifecycle` |
| `ServiceParts` | `TypeCorrect` | `TypeOK` of `services`: the types of its ten parts |
| `ToolParts` | `ToolsTypeCorrect` | `TypeOK` of `tools`: the types of its eleven parts |

`KeysKeepPage` is in no run of its own; it says of the browser what no run asks, and
the theorem is for pages and lists of any length.

### The incident service

**Types.** `TypeOK` is not inductive: a step that loads needs a file, and a step
that saves needs a copy. `Control` says which labels have which (`HasCopy`,
`HasFile`), and `Typing == TypeOK /\ Control` is inductive, because no save
removes a file.

**Versions.** The idea of the rest is to follow versions, not steps. A *version*
of an incident is a record in its file or in the hands of an actor or a goroutine
(`Holds`, `InFlight`). One lemma per action shows `VersionsFlow` and `FilesFlow`:
every version after a step is a version from before it, an edit of one (`Edited`: a
change of metadata, a note or severity event, a legal transition), or a new
incident. It is for this that `Drafts` (an actor that creates holds a new
incident) and `Goroutines` belong to the invariant. From these two facts, and
without looking at the actions again:

- *all versions are consistent* (`Histories`), because an edit of a consistent
  record is consistent (`AnnotationKeepsHistory`, `TransitionKeepsHistory`, the
  lemmas about event logs) - so the files are: `HistoryCorrect`;
- *when all versions are resolved, all later ones are*, because an edit of a
  resolved record is resolved: `SettledCorrect`.

**Identity.** `Locked` says that an actor between `SaveNew`'s look and its write is
the holder of its process's lock; with one process there is at most one such actor,
so a free ID has at most one version in flight (`OneDraft`). `Versions` says that all
versions of a taken ID are versions of one incident. Together with the above they are
inductive (`Registered`), and a save then replaces a version by a version:
`IdentityCorrect`, and with `Histories` `RegistryImplemented`. With two processes
`Locked` says nothing about the other process's draft: two commands of one second
can take one ID, and the later rename replaces the earlier incident.

**Journal.** A save replaces the file by the version it has, not by the event it adds.
So each version in flight must be one step of the journal away from the file (`Ahead`),
also after another version in flight was saved: `Start` and the suggestion of a runbook
work on copies that differ in metadata only (`Fresh`), and one actor or one goroutine
is at work at a time (`Serial`). These are inductive together with the flow of versions
(`Recorded`), and every save is then a step of `IncidentJournal` or a stutter.

### The alert processor

- *Types* need `Control` (which labels have rules, a service, an incident) and
  `OnePerAlert`: incidents made plus those workers may still make are at most the
  deliveries, so that the log of incidents keeps within its bound.
- `Reloading`: the cache, and the one a worker that has yet to read the rules was given,
  are never newer than the rules, because a reload replaces the rules first
  (`RulesFirst`).
- `Accounted`: made incidents are those counted and those of workers just about to
  count one, but for failures. Each step moves one worker, so the lemmas on
  cardinalities (`CountChange`) give each case.
- `Consolidating`: incidents are in the order they were made, none later than the
  clock, and what `Start` made is never a suggestion (`History`); what a worker
  concluded at its lookup about the incidents there were (`Looked`) therefore stays
  true of what becomes of them (`StaysKnown`), whatever others do. `StoredAssumption`
  says the same of the incidents stored before.

### The other components

| theorem | inductive invariant and why it is needed |
|---|---|
| `OneViewCorrect`, `DetailCorrect` | `Single`: apart from the overviews one view is on, and of those at most one; each key's `Hides` removes what else could be on only because of it. A detail's content is that of the selected service because an answer for another one is dropped |
| `FreshUnlessRaced` | `CatalogUnraced`: unless raced, one loader at most is at work, its `Once` is the one in the map, and what it read or cached is no older than the base |
| `NamesFetchedOnce`, `LockGivenBack` | `ClientLocked`: the lock is its fetcher's, the names are missing while one fetches, and who waits for the lock wants names |
| `ListenerIsFound` | `ListenFound`: unless commands overlapped, one command line at most is busy, the process that serves is named in the file, and one that is about to remove the file has seen the port free |
| `UniqueUntilDeleted` | `FollowNumbering`: the items of every file *and of every copy in flight* are numbered by place. That IDs differ is not inductive: a save of an older copy may shorten the list the next number is taken from |
| `FreshOnceDrained` | `Told`: a guest who does not see what was last announced has a message queued, announced or on its way through the host; versions only grow, so a save nobody is told of takes nothing away |
| `ProfileFitsInfra` | `TeamSettled`: at a question of the cluster all before it were asked; after them EKS has all answers |
| `OwnUserStays` | `OwnKept`: the file of such a profile, and `config.json` before migration, have no credentials of their own, and the file of secrets has the user's; of the places a user is looked for in (`Basic`) only the environment comes before it (`FirstOfTwo`) |
| `CurrentBinaryWorks` | `UpdateSafe`: which name shares an inode with which, per step; what is renamed over the binary is complete |
| `TripsOnFailures` | `CountsAgree`: while closed, the breaker's count is the number of failures and below the threshold |
| `QuietAfterAnnouncing` | `Numbered`, `Remembered` (what was announced is in memory, and what is on disk was announced), `OneUp`, and `Looked`: what a scan found out about the last announcement is true until it announces |
| `HighIsCompared` | `Concluding`: nothing is concluded before the end, from finitely many edges |
| `DiscoveryFits` | `Discovered`: a candidate with data scores at least 50, one without at most 49 (`Rated`), so that the best has data if any does; labels chosen are on the metric of requests as long as Prometheus has answered |
| `FixesSelected` | `Selection`: unless raced, what was found and what is being found is for the selected profile, and there is none of it in the menu |
| `SeedReachesLifecycle` | `SeedKept`: between collecting and cleaning, the seed is in what was collected |

### Sums

The scorecard and the toil analytics add up minutes and costs of a set of incidents.
`SumTheorems` proves of the library's `SumFunction` what such sums need. The library
defines it by a recursive function that is chosen (`MapThenFoldSet`), so the first
step is that there is one: the prover has no induction over data, but a finite set
that lacks a property has a subset of least size that lacks it (`SubsetInduction`,
`SetInduction`), and with that a function on the subsets of a size extends to those of
the next (`UnfoldingExists`). From `SumEquation` follow `SumRemove`, by which any
element may be first, and the facts the reports use: monotone (`SumLess`,
`SumSubset`), bounded (`SumBound`), linear (`SumScaled`), and the same when terms
are added up class by class (`SumByClass`).

- `SavingsCorrect`: a profile's cost is the sum over its categories (`SumByClass`),
  what is suggested are some of these (`SumSubset`), and the organization adds
  profiles up at their own rates (`SumLess`). When no category is left out the two
  sums are equal.
- `ScoreTypeCorrect`: a mean of percentages is one (`SumBound`), also when weighted.
- `WorseCorrect`: only `OpenIncident` makes an incident more. It begins now, so it has
  lasted no time and adds nothing to the downtime of a service that is listed already:
  the score stays, or is that of a report that is not available, and the health can
  only get the worse for one more P1.

### Types

Each type invariant needed something the code relies on and nowhere says:

| theorem | inductive invariant |
|---|---|
| `MonitorTypeCorrect` | `MonitorHandlesAll`: nothing is handed over while an objective is still to be evaluated, and no result is left between two rounds |
| `SetupTypeCorrect` | `SetupAsks`: a question about a backend is about one that was chosen, and nothing of any backend is there before the choice |
| `LatencyTypeCorrect` | `LatencyChosen`: from the end of the discovery on both metrics are there |
| `ApmTypeCorrect` | `ApmTyping`: suspects are edges that were read, so that a path has three names at most |
| `FollowTypeCorrect` | `FollowInv`: no file *and no copy* has more items than were ever added, or an analysis while it is open; an older copy may be saved |
| `BrowserTypeCorrect` | what is kept of a list is a list of its elements (`SelectedTyped`), because each rank has one place (`PlaceOfRank`) |
| `BooksTypeCorrect` | `BooksShelved`: a command that saves holds a whole runbook, and suggestions have the places of the incidents |
| `EditTypeCorrect` | `EditTyped`: editors that share an owner have the same fields, so what one saves the other can show |

### What is assumed of the constants

Mostly that bounds are numbers, that the absent value (`None`, `NoPid`, ...) is no
value, and that a set of services, rules or reports is one. Worth a word:

- `Notifier`: `PdAttempts` is any number but zero, as in the code, which takes three for
  one that is not positive. PagerDuty's table has three waits and is indexed before
  anything is compared: with five attempts or more the process dies (`"dead"`), with
  four or fewer it never does (`TypeOK`, `NotifyTypeCorrect`). TLC runs five.
- `ApiLatency`: `Hint` is below 40. Names add 15 at most and data adds 50
  (`api_latency.go`), so that no name outweighs data.
- `ApiLatency`: with `auto` off both metrics are configured, as `config.go` fills in
  the defaults; what a query returns is finite, in `ApmGraph` too.
- `ToilReport`: rates are numbers, where a configured rate that is not positive counts
  as none and the fallback is used.
- `ScorecardReport`: profiles and services are finitely many, and a month has a length.
- `IncidentBrowser`: a page has room for an incident (the size is 10 when it is not
  set).
- `ConfigEditors`: the editors opened are those there are.
- `Profiles`: the environment maps each profile, and "global", to tokens and users.
- `Guide`: no scenario is without chapters and no chapter without steps, and only the
  troubleshooter's steps diagnose (`guide/content.go:179`).
- `Telemetry`: a window holds one snapshot or more (the code's holds 60).
- `Updater`, in the property itself: one process updates. For two it is false.

### Model-checked only

- *Liveness* (`CallsReturn`, `Recovers`, `FiringSettles`, `DiscoveryEnds`, `CallsEnd`,
  `KeepsRefreshing`) and `ENABLED` are beyond the prover.
- The theorems are about each part's own specification. That `MCTools` and
  `MCServices` run just these, one at a time, is by their `Next`, and is what TLC runs.
- The four findings of section 3 are violations, each shown by a behaviour.

## 5. What the code does that may surprise

Noted while modelling; the models do the same, and the properties are stated so
that they hold of it. The four findings are in section 3.

**Incidents.** Two commands of one second take one ID. Two starts at the same time
both find no active incident. The save that ends `Start` overwrites the runbook
suggestion just saved. `Resolve` can succeed although its only save failed. Action
items are numbered by how many there are, so a number is given twice after a
deletion (`incident/service.go:1652`; `models.go:270`: "generates a unique action item
ID"). `handleStart` calls `Note` with ID and description swapped (`commands.go:97`).
Downtime asked for interactively is dropped. The save of an action item or of the
impact is of a copy from before the questions and may reopen an incident.

**Alerts.** A rule that matches on job alone fails (`handler.go:219`).
`SetupHotReload` and `TransactionalReload` are never called. `slo monitor
--background` writes no PID file unless told to. An SLO that lacks a field is dropped
without a word.

**Notifications.** The documents say that Slack does not block; the call is
synchronous. The user guide says "3 times in a row", but failures far apart add up
(`notify/slack/resilience.go`). PagerDuty with `max_retries` of five or more panics
(`pagerduty.go:266`). A notifier that hangs spends the thirty seconds of those after it,
whose circuits then count failures of providers that are up.

**Telemetry and predictions.** A seed tagged with another incident becomes part of
a lifecycle (`incident/service.go:2184`). The seed is removed before the lifecycle is
written (`lifecycle_recorder.go:164`). Trace error rates of 1 % and less are taken for
fractions (`ml/agent.go:157`). A prediction is sent before it is written, and a failed
notification silences the service all the same; `purge --days 0` empties the debounce
on disk.

**Collaboration.** With a prompt open, the result of the host's action goes to the
prompt and refreshes nobody (`tui_view.go:168`). The note of a postmortem
(`tui_view.go:335`, `postmortem.go:47`) and an action whose save ends in an error after
the rename (`remote/server.go:487`, `:534`) change the incident and tell nobody. Escape blurs a guest's prompt
(`remote/server.go:376`).

**Configuration.** The migration of `config.json` writes before it renames
(`config/profile.go:421`). In the team wizard enter during a repeated test goes on with
the old result, late results overwrite new ones, the Kubernetes user is never asked
about AWS, and conflicts are never looked for. The editor of Elasticsearch keeps
"Invalid URL" as its message for good (`interactive_tui.go:4187`); `q` in any field
closes an editor; Loki's and Grafana's fill in the user, so an empty password makes
the credentials fail after the profile was saved. A user or password in the
environment is taken before the profile's own (`config.go:1804`, `:1873`).

**Console.** A refresh that panics ends refreshing for good (`interactive_tui.go:345`,
`:456`). A view scrolled past its end panics (`interactive_tui.go:1307`; the model
stops there). `startEdit`, `startAuthEditor`, the config view, `updateLogs` and
`refreshIncidentsCmd` are never reached. A filter resets the cursor of the browser but
not its page, as the page size it asks for is never set (`incident_browser.go:59`):
until Home is pressed the list may look empty, and page-up can put the cursor behind
its end (where enter does nothing). Help says `j` for Jaeger, the code ctrl+j.

**Guide.** A value whose test succeeds stays TESTING; a failed test is FAILED until
the next refresh says PASSED; a late failure goes to whichever channel is TESTING;
the restored place is overwritten (`guide/engine.go:440`) but its prompt stays; the
refresh goroutine shares the model with `Update`; an empty list of profiles panics.

**Reports.** The compliance of a scorecard is computed before its budgets are filled
in; the cache of objectives is keyed by month alone, whatever profile it was computed
for; the position in a ranking is always 1; overlapping outages count twice. An
incident of a service that is not listed can raise a score. The organization's
breakdown of toil is not sorted before its top is taken; `toil verify` may
dereference nil; `toil report` ignores its window.

**Prometheus and analyses.** A vector that breaks off within a sample is decoded for
ever (`prometheus.go:375`). Two goroutines that wait for the limiter together are
let through together (`prometheus.go:66`). The histogram query
`histogram_quantile(0.95, (sum(...) by (le)) by (le))` is no PromQL, so histograms never
give percentiles; so are the baseline of errors, the tables of endpoints and
regressions, and any query with several service labels. A P95 of NaN is SAFE; CHECK
cannot be reached. A failing error query reports 0 %. The error rate of a dependency
is always 0, a missing baseline counts as 0, and edges without an end share an empty
path (`apm.go`). "a -> b (route)" is read as the service "b (route)"
(`checks/api_latency.go:290`).

**Runbooks.** `patterns --service` does not filter by service. An incident analysed
as general error with logs is not among its own related incidents. A metadata
pattern has 50 % and is dropped at the default threshold of 70 %, the pattern
"unknown" has 95 %. Digits become N before addresses and status codes are looked for.
Two runbooks of one second, service and pattern replace each other. Suggestions are
read, changed and written without a lock. The cleanup is never called.

**Update.** Two processes that update at once share `.new` (`updater.go:365`):
`CurrentBinaryWorks` holds for one at a time.

## 6. What is not modelled, and the plan

Next: the token bucket of the listener, the audit log (a read-modify-write of one file,
as the suggestions of runbooks) and the metrics gauges (counted by operations,
overwritten from the store).

Left out, with the reason in `PROJECT.json`: the discovery engine and the correlators
(queries; the models have them as a step with an answer), the security middleware,
checks and rules (no state between runs), the analyses of logs and traces, text
heuristics (similarity, error patterns, the contents of runbooks), feedback, doctor,
demo, all rendering, HTTP and Kubernetes clients, and the parsing and normalisation of
configuration files. The `main` package, which starts the commands, is not part of the
repository's copy.

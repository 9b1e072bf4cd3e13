-------------------------- MODULE IncidentService --------------------------
(***************************************************************************)
(* internal/incident/service.go over internal/incident/store.go.           *)
(*                                                                         *)
(* The store is a directory with one file per incident, shared by every    *)
(* process of the host: the alert listener and its worker goroutines, the  *)
(* SLO monitor, the sessions of the collaborative SSH server and each      *)
(* `health-monitor incident ...' command.  Every file access of a process  *)
(* is made under that process's storeMu; nothing spans two accesses.  So   *)
(* an operation that changes an incident is a Load, a change of the copy   *)
(* it got, and a later Save of the whole copy, and anything may happen in  *)
(* between: a step of this module is one critical section of storeMu.      *)
(*                                                                         *)
(* An actor is a goroutine running one operation at a time.  The two       *)
(* goroutines an operation leaves behind (the trace correlation of Start   *)
(* and persistLifecycle) are the pending saves in `background'.            *)
(***************************************************************************)
EXTENDS IncidentRecord, FiniteSets

CONSTANTS
    Procs,        \* operating system processes sharing the data directory
    ProcOf,       \* the process each actor runs in
    Flows,        \* business flows of flows.yaml
    FlowsOf,      \* the flows each service is a step of
    Calls,        \* the operations the actors call
    HasDiscovery, \* the Kubernetes discovery engine is configured
    HasLogs,      \* the log correlator is configured
    HasTraces,    \* the trace correlator is configured
    SaveMayFail,  \* a save may return an error
    MaxTime,      \* bound: seconds, and so incident IDs, a behaviour has
    MaxEvents,    \* bound: events appended to one incident
    None          \* no record, no file, no holder

AllCalls ==
    {"Start", "StartForServiceFlow", "Suggest", "NoteByID", "Note",
     "UpdateSeverityByID", "UpdateSeverity", "Acknowledge",
     "AcknowledgeByID", "PromoteSuggested", "Resolve", "ResolveByID",
     "ResolveWithAnalysis", "ResolveByIDWithAnalysis", "View"}

ASSUME ConstantsAssumption ==
    /\ ProcOf \in [Actors -> Procs]
    /\ FlowsOf \in [Services -> SUBSET Flows]
    /\ Calls \subseteq AllCalls
    /\ HasDiscovery \in BOOLEAN
    /\ HasLogs \in BOOLEAN
    /\ HasTraces \in BOOLEAN
    /\ SaveMayFail \in BOOLEAN
    /\ MaxTime \in Nat \ {0}
    /\ MaxEvents \in Nat
    /\ None \notin Incident
    /\ None \notin Actors

\* generateID formats the second of the clock, so an ID is that second.
Ids == 1..MaxTime

\* SaveNew is tried at most three times.
MaxAttempts == 3

Label ==
    {"idle",
     "create", "backoff", "write",         \* the loop around SaveNew
     "enrich", "links", "runbook", "runbookSave", "logs", "traces",
     "metadata",                           \* what follows a creation
     "load", "save", "finalSync",          \* load, change, save
     "viewLinks", "viewEnrich", "viewSave"}

VARIABLES
    now,        \* the wall clock, in seconds
    files,      \* contents of the incident file of each ID
    holder,     \* which actor of a process is inside SaveNew, under storeMu
    actor,      \* what each actor is doing, and its copies of the incident
    background  \* saves the goroutines left behind still have to make

vars == <<now, files, holder, actor, background>>

ActorState ==
    [pc: Label,                    \* where the operation stands
     call: AllCalls \cup {"none"}, \* the operation
     id: Ids \cup {0},             \* the incident it is about, and before it has
                                  \* one, the second its attempt began in
     copy: Incident \cup {None},   \* its in-memory incident
     side: Incident \cup {None},   \* the copy SaveRunbookSuggestion loaded
     tries: 0..(MaxAttempts - 1)]  \* SaveNew attempts that collided

Pending == [owner: Actors, kind: {"traces", "lifecycle"}, id: Ids,
            copy: Incident]

Idle == [pc |-> "idle", call |-> "none", id |-> 0, copy |-> None,
         side |-> None, tries |-> 0]

Init ==
    /\ now = 1
    /\ files = [i \in Ids |-> None]
    /\ holder = [p \in Procs |-> None]
    /\ actor = [a \in Actors |-> Idle]
    /\ background = {}

-----------------------------------------------------------------------------
(* The store. *)

Existing == {i \in Ids : files[i] # None}

\* storeMu is free for a step that takes and releases it.
Unlocked(p) == holder[p] = None

\* How a save ends: done; failed, when AtomicWriteFile has left the old file;
\* disowned, when the file is written and applySudoOwnership then fails.
Outcome == {"done", "failed", "disowned"}

SaveResult == IF SaveMayFail THEN Outcome ELSE {"done"}

\* As Save, writing the file in place: a failure leaves no incident.
SaveInPlace(i, r, out) ==
    files' = [files EXCEPT ![i] = IF out = "failed" THEN None ELSE r]

\* Store.Save of a copy.
Save(i, r, out) ==
    files' = IF out = "failed" THEN files ELSE [files EXCEPT ![i] = r]

\* Service.activeIncidents: List, then drop the resolved and suggested ones.
ActiveIds == {i \in Existing : IsActive(files[i])}

\* flowsIntersect of the two services' flows, or the same service when the
\* first is in no flow.
Related(s, t) ==
    IF FlowsOf[s] = {} THEN s = t ELSE FlowsOf[s] \cap FlowsOf[t] # {}

\* getActive returns the only active incident, and fails when there are more.
OnlyActive(i) == ActiveIds = {i}

-----------------------------------------------------------------------------
(* Steps of an actor. *)

At(a, label) == actor[a].pc = label

Goto(a, label) == actor' = [actor EXCEPT ![a].pc = label]

Return(a) == actor' = [actor EXCEPT ![a] = Idle]

\* An operation begins: it has read what it needs and holds a copy.
Begin(a, c, label, i, r) ==
    /\ At(a, "idle")
    /\ c \in Calls
    /\ Unlocked(ProcOf[a])
    /\ actor' = [actor EXCEPT ![a] =
                    [Idle EXCEPT !.pc = label, !.call = c, !.id = i,
                                 !.copy = r]]
    /\ UNCHANGED <<now, files, holder, background>>

\* Bound: no operation starts to append to a log of MaxEvents events.
Appendable(i) == Len(files[i].events) < MaxEvents

(* Creating an incident. *)

Start(a, s) ==
    /\ ActiveIds = {}
    /\ Begin(a, "Start", "create", now, StartedIncident(a, s))

StartForServiceFlow(a, s) ==
    /\ ~ \E i \in ActiveIds : Related(s, files[i].service)
    /\ Begin(a, "StartForServiceFlow", "create", now, StartedIncident(a, s))

Suggest(a, s) ==
    Begin(a, "Suggest", "create", now, SuggestedIncident(a, s))

\* generateID took the second i of the clock, after the attempt began and
\* before SaveNew got the lock.
TakesId(a, i) == i \in actor[a].id .. now

\* As SaveNewStat, with an attempt too many.
SaveNewStatOnceMore(a, i) ==
    /\ At(a, "create")
    /\ TakesId(a, i)
    /\ Unlocked(ProcOf[a])
    /\ IF files[i] = None
       THEN /\ holder' = [holder EXCEPT ![ProcOf[a]] = a]
            /\ actor' = [actor EXCEPT ![a].pc = "write", ![a].id = i]
       ELSE /\ IF actor[a].tries < MaxAttempts
               THEN actor' = [actor EXCEPT ![a].pc = "backoff",
                                           ![a].id = now,
                                           ![a].tries = @ + 1]
               ELSE Return(a)
            /\ UNCHANGED holder
    /\ UNCHANGED <<now, files, background>>

\* As SaveNewStat, outside storeMu.
SaveNewStatUnlocked(a, i) ==
    /\ At(a, "create")
    /\ TakesId(a, i)
    /\ files[i] = None
    /\ actor' = [actor EXCEPT ![a].pc = "write", ![a].id = i]
    /\ UNCHANGED <<now, files, holder, background>>

\* As SaveNewStat, without the look.
SaveNewStatBlind(a, i) ==
    /\ At(a, "create")
    /\ TakesId(a, i)
    /\ Unlocked(ProcOf[a])
    /\ holder' = [holder EXCEPT ![ProcOf[a]] = a]
    /\ actor' = [actor EXCEPT ![a].pc = "write", ![a].id = i]
    /\ UNCHANGED <<now, files, background>>

\* SaveNew enters its critical section and looks for the file.  A taken ID
\* costs an attempt, and the operation fails after the last one.
SaveNewStat(a, i) ==
    /\ At(a, "create")
    /\ TakesId(a, i)
    /\ Unlocked(ProcOf[a])
    /\ IF files[i] = None
       THEN /\ holder' = [holder EXCEPT ![ProcOf[a]] = a]
            /\ actor' = [actor EXCEPT ![a].pc = "write", ![a].id = i]
       ELSE /\ IF actor[a].tries + 1 < MaxAttempts
               THEN actor' = [actor EXCEPT ![a].pc = "backoff",
                                           ![a].id = now,
                                           ![a].tries = @ + 1]
               ELSE Return(a)
            /\ UNCHANGED holder
    /\ UNCHANGED <<now, files, background>>

\* The 1.1 s sleep after ErrIncidentExists ends in a later second.
RetryCreate(a) ==
    /\ At(a, "backoff")
    /\ now > actor[a].id
    /\ actor' = [actor EXCEPT ![a].pc = "create", ![a].id = now]
    /\ UNCHANGED <<now, files, holder, background>>

\* The first step of what follows a creation.
AfterCreate(c) ==
    IF HasDiscovery /\ c # "Suggest" THEN "enrich" ELSE "links"

\* As SaveNewWrite, returning from a failed write without the unlock.
SaveNewWriteKeepsLock(a, out) ==
    /\ At(a, "write")
    /\ Save(actor[a].id, actor[a].copy, out)
    /\ IF out = "done"
       THEN /\ Goto(a, AfterCreate(actor[a].call))
            /\ holder' = [holder EXCEPT ![ProcOf[a]] = None]
       ELSE Return(a) /\ UNCHANGED holder
    /\ UNCHANGED <<now, background>>

\* SaveNew writes the file it did not find and leaves its critical section.
SaveNewWrite(a, out) ==
    /\ At(a, "write")
    /\ Save(actor[a].id, actor[a].copy, out)
    /\ holder' = [holder EXCEPT ![ProcOf[a]] = None]
    /\ IF out = "done" THEN Goto(a, AfterCreate(actor[a].call)) ELSE Return(a)
    /\ UNCHANGED <<now, background>>

\* A Save whose error is only logged, on the way to the next step.
SaveAndGo(a, label, out) ==
    /\ Unlocked(ProcOf[a])
    /\ Save(actor[a].id, actor[a].copy, out)
    /\ Goto(a, label)
    /\ UNCHANGED <<now, holder, background>>

SaveEnriched(a, out) == At(a, "enrich") /\ SaveAndGo(a, "links", out)

AfterLinks(c) ==
    IF c # "Start" THEN "metadata" ELSE IF HasLogs THEN "runbook" ELSE "traces"

\* generateObservabilityLinks.  (When the configuration does not load it skips
\* the Save, which leaves the same files as a Save that failed.)
SaveLinks(a, out) ==
    At(a, "links") /\ SaveAndGo(a, AfterLinks(actor[a].call), out)

\* suggestRunbooksForActiveIncidentInMemory found no runbook to suggest.
NoRunbook(a) ==
    /\ At(a, "runbook")
    /\ Goto(a, "logs")
    /\ UNCHANGED <<now, files, holder, background>>

\* SaveRunbookSuggestion loads the incident again, into a copy of its own ...
LoadForRunbook(a) ==
    /\ At(a, "runbook")
    /\ Unlocked(ProcOf[a])
    /\ actor' = [actor EXCEPT
                    ![a].pc = "runbookSave",
                    ![a].side = [files[actor[a].id] EXCEPT
                                    !.metadata = @ \cup {"runbook"}]]
    /\ UNCHANGED <<now, files, holder, background>>

\* ... and saves that copy.
SaveRunbookSuggestion(a, out) ==
    /\ At(a, "runbookSave")
    /\ Unlocked(ProcOf[a])
    /\ Save(actor[a].id, actor[a].side, out)
    /\ actor' = [actor EXCEPT ![a].pc = "logs", ![a].side = None]
    /\ UNCHANGED <<now, holder, background>>

\* The save "one final time" of the copy Start has built.
SaveWithLogs(a, out) == At(a, "logs") /\ SaveAndGo(a, "traces", out)

\* Start leaves the trace correlation running in a goroutine and returns.
FinishStart(a) ==
    /\ At(a, "traces")
    /\ background' =
          IF HasTraces
          THEN background \cup {[owner |-> a, kind |-> "traces",
                                 id |-> actor[a].id, copy |-> actor[a].copy]}
          ELSE background
    /\ Return(a)
    /\ UNCHANGED <<now, files, holder>>

\* SaveMetadata of ...WithMetadata: loads, replaces the metadata, saves.
LoadForMetadata(a) ==
    /\ At(a, "metadata")
    /\ Unlocked(ProcOf[a])
    /\ actor' = [actor EXCEPT
                    ![a].pc = "save",
                    ![a].copy = [files[actor[a].id] EXCEPT
                                    !.metadata = {"alert"}]]
    /\ UNCHANGED <<now, files, holder, background>>

(* Changing an incident: load it, change the copy, save the copy. *)

NoteByID(a, i) ==
    /\ Appendable(i)
    /\ Begin(a, "NoteByID", "save", i, AddEvent(files[i], "note", a))

UpdateSeverityByID(a, i) ==
    /\ Appendable(i)
    /\ Begin(a, "UpdateSeverityByID", "save", i,
             AddEvent(files[i], "severity", a))

\* Note and UpdateSeverity find the active incident, then load it by its ID.
Note(a, i) ==
    Appendable(i) /\ OnlyActive(i) /\ Begin(a, "Note", "load", i, None)

UpdateSeverity(a, i) ==
    /\ Appendable(i)
    /\ OnlyActive(i)
    /\ Begin(a, "UpdateSeverity", "load", i, None)

EventOf(c) == IF c = "Note" THEN "note" ELSE "severity"

LoadActive(a) ==
    /\ At(a, "load")
    /\ Unlocked(ProcOf[a])
    /\ actor' = [actor EXCEPT
                    ![a].pc = "save",
                    ![a].copy = AddEvent(files[actor[a].id],
                                         EventOf(actor[a].call), a)]
    /\ UNCHANGED <<now, files, holder, background>>

\* A state change of the loaded copy, when ValidateTransition allows it.
BeginTransition(a, c, label, i, to, t) ==
    /\ Appendable(i)
    /\ ValidateTransition(files[i].state, to)
    /\ Begin(a, c, label, i, Transition(files[i], to, t, a))

Acknowledge(a, i) ==
    /\ OnlyActive(i)
    /\ BeginTransition(a, "Acknowledge", "save", i, "Acknowledged", "ack")

AcknowledgeByID(a, i) ==
    BeginTransition(a, "AcknowledgeByID", "save", i, "Acknowledged", "ack")

\* No look at the other incidents: a promotion may add a second active one.
PromoteSuggested(a, i) ==
    /\ files[i].state = "Suggested"
    /\ BeginTransition(a, "PromoteSuggested", "save", i, "Started", "start")

\* Resolve saves nothing itself: the only save is that of the final sync.
Resolve(a, i) ==
    /\ OnlyActive(i)
    /\ BeginTransition(a, "Resolve", "finalSync", i, "Resolved", "resolve")

ResolveWithAnalysis(a, i) ==
    /\ OnlyActive(i)
    /\ BeginTransition(a, "ResolveWithAnalysis", "save", i, "Resolved",
                       "resolve")

ResolveByID(a, i) ==
    BeginTransition(a, "ResolveByID", "save", i, "Resolved", "resolve")

ResolveByIDWithAnalysis(a, i) ==
    BeginTransition(a, "ResolveByIDWithAnalysis", "save", i, "Resolved",
                    "resolve")

IsResolving(c) ==
    c \in {"ResolveWithAnalysis", "ResolveByID", "ResolveByIDWithAnalysis"}

\* The Save whose error ends the operation; a resolution goes on from here.
SaveChange(a, out) ==
    /\ At(a, "save")
    /\ Unlocked(ProcOf[a])
    /\ Save(actor[a].id, actor[a].copy, out)
    /\ IF out = "done" /\ IsResolving(actor[a].call)
       THEN Goto(a, "finalSync")
       ELSE Return(a)
    /\ UNCHANGED <<now, holder, background>>

\* PerformFinalSync queries logs and traces, up to 25 s, and saves the copy
\* again; persistLifecycle then goes on in a goroutine with its own copy.
PerformFinalSync(a, out) ==
    /\ At(a, "finalSync")
    /\ Unlocked(ProcOf[a])
    /\ Save(actor[a].id, actor[a].copy, out)
    /\ background' = background \cup
          {[owner |-> a, kind |-> "lifecycle", id |-> actor[a].id,
            copy |-> actor[a].copy]}
    /\ Return(a)
    /\ UNCHANGED <<now, holder>>

(* `incident view': it saves what it loaded, with fresh observability data. *)

AfterViewLinks(r) ==
    IF HasDiscovery /\ ~IsResolved(r) THEN "viewEnrich" ELSE "viewSave"

\* View generates the links of an incident that has none, and saves them.
View(a, i, label) ==
    /\ label \in {"viewLinks", AfterViewLinks(files[i])}
    /\ Begin(a, "View", label, i, files[i])

SaveViewLinks(a, out) ==
    At(a, "viewLinks") /\ SaveAndGo(a, AfterViewLinks(actor[a].copy), out)

SaveViewEnriched(a, out) == At(a, "viewEnrich") /\ SaveAndGo(a, "viewSave", out)

\* A resolved incident is shown as it is; another is saved once more.
FinishView(a, out) ==
    /\ At(a, "viewSave")
    /\ Unlocked(ProcOf[a])
    /\ IF IsResolved(actor[a].copy)
       THEN UNCHANGED files
       ELSE Save(actor[a].id, actor[a].copy, out)
    /\ Return(a)
    /\ UNCHANGED <<now, holder, background>>

-----------------------------------------------------------------------------
(* Goroutines left behind, processes, and the clock. *)

\* The goroutine is done with its queries and saves the copy it was given.
BackgroundSave(b, out) ==
    /\ Unlocked(ProcOf[b.owner])
    /\ Save(b.id, b.copy, out)
    /\ background' = background \ {b}
    /\ UNCHANGED <<now, holder, actor>>

\* The trace correlation found nothing to add.
NoTraces(b) ==
    /\ b.kind = "traces"
    /\ background' = background \ {b}
    /\ UNCHANGED <<now, files, holder, actor>>

\* A process ends: a command that has printed its answer while goroutines
\* still run, or a crash.  Files keep the last completed rename.
Exit(p) ==
    /\ \/ \E a \in Actors : ProcOf[a] = p /\ ~At(a, "idle")
       \/ \E b \in background : ProcOf[b.owner] = p
    /\ actor' = [a \in Actors |-> IF ProcOf[a] = p THEN Idle ELSE actor[a]]
    /\ background' = {b \in background : ProcOf[b.owner] # p}
    /\ holder' = [holder EXCEPT ![p] = None]
    /\ UNCHANGED <<now, files>>

Tick ==
    /\ now < MaxTime
    /\ now' = now + 1
    /\ UNCHANGED <<files, holder, actor, background>>

-----------------------------------------------------------------------------
\* An actor calls an operation.
NewCall(a) ==
    \/ \E s \in Services : Start(a, s) \/ StartForServiceFlow(a, s)
                                       \/ Suggest(a, s)
    \/ \E i \in Existing :
          \/ NoteByID(a, i)
          \/ UpdateSeverityByID(a, i)
          \/ Note(a, i)
          \/ UpdateSeverity(a, i)
          \/ Acknowledge(a, i)
          \/ AcknowledgeByID(a, i)
          \/ PromoteSuggested(a, i)
          \/ Resolve(a, i)
          \/ ResolveWithAnalysis(a, i)
          \/ ResolveByID(a, i)
          \/ ResolveByIDWithAnalysis(a, i)
          \/ \E label \in Label : View(a, i, label)

\* An operation in progress takes its next step.
Continue(a) ==
    \/ \E i \in Ids : SaveNewStat(a, i)
    \/ RetryCreate(a)
    \/ NoRunbook(a)
    \/ LoadForRunbook(a)
    \/ FinishStart(a)
    \/ LoadForMetadata(a)
    \/ LoadActive(a)
    \/ \E out \in SaveResult :
          \/ SaveNewWrite(a, out)
          \/ SaveEnriched(a, out)
          \/ SaveLinks(a, out)
          \/ SaveRunbookSuggestion(a, out)
          \/ SaveWithLogs(a, out)
          \/ SaveChange(a, out)
          \/ PerformFinalSync(a, out)
          \/ SaveViewLinks(a, out)
          \/ SaveViewEnriched(a, out)
          \/ FinishView(a, out)

FinishBackground ==
    \E b \in background :
        NoTraces(b) \/ \E out \in SaveResult : BackgroundSave(b, out)

Next ==
    \/ \E a \in Actors : NewCall(a) \/ Continue(a)
    \/ FinishBackground
    \/ \E p \in Procs : Exit(p)
    \/ Tick

Spec == Init /\ [][Next]_vars

(***************************************************************************)
(* Fairness.  The scheduler runs every goroutine that can run, storeMu is  *)
(* a Go mutex, which does not starve a waiter, the queries an operation    *)
(* waits for have timeouts, and seconds pass.  Nobody has to call an       *)
(* operation, no process has to end, and the goroutines left behind need   *)
(* not finish.                                                             *)
(***************************************************************************)
Fairness ==
    /\ \A a \in Actors : SF_vars(Continue(a))
    /\ WF_vars(Tick)

FairSpec == Spec /\ Fairness

-----------------------------------------------------------------------------
(* Properties. *)

TypeOK ==
    /\ now \in Ids
    /\ files \in [Ids -> Incident \cup {None}]
    /\ holder \in [Procs -> Actors \cup {None}]
    /\ actor \in [Actors -> ActorState]
    /\ background \subseteq Pending

\* The versions of incident i that actors and goroutines may still save.
Writing(a) == actor[a].pc \notin {"idle", "create", "backoff", "load"}

InFlight(i) ==
    {actor[a].copy : a \in {b \in Actors : Writing(b) /\ actor[b].id = i}}
    \cup {actor[a].side : a \in {b \in Actors : At(b, "runbookSave")
                                               /\ actor[b].id = i}}
    \cup {b.copy : b \in {c \in background : c.id = i}}

(***************************************************************************)
(* Every incident file tells a legal life and is in the state this life    *)
(* leads to, whatever operations interleave, in how many processes,        *)
(* whichever save fails and wherever a process ends: ValidateTransition    *)
(* runs on the loaded copy, and a file is only ever replaced as a whole.   *)
(***************************************************************************)
FilesConsistent == \A i \in Existing : Consistent(files[i])

(***************************************************************************)
(* A created incident keeps its file: in one process no later SaveNew and  *)
(* no late save replaces the incident of an ID by another incident, and no *)
(* file disappears.  (SaveNew's check and write are one critical section.) *)
(***************************************************************************)
IdentityKept ==
    [][\A i \in Existing :
          files'[i] # None /\ SameIncident(files[i], files'[i])]_files

(***************************************************************************)
(* The files of one process implement the abstract registry of incidents:  *)
(* one file changes at a time, from nothing to an incident whose life      *)
(* begins, or from one consistent version of an incident to another.       *)
(***************************************************************************)
Registry == INSTANCE IncidentRegistry WITH registry <- files

ImplementsRegistry == Registry!Spec

(***************************************************************************)
(* One caller at a time: an operation is called when the previous one has  *)
(* returned and its goroutines have finished.                              *)
(***************************************************************************)
Quiet == background = {} /\ \A a \in Actors : At(a, "idle")

SerialNext ==
    \/ \E a \in Actors : (Quiet /\ NewCall(a)) \/ Continue(a)
    \/ FinishBackground
    \/ \E p \in Procs : Exit(p)
    \/ Tick

SerialSpec == Init /\ [][SerialNext]_vars

(***************************************************************************)
(* With one caller at a time the files implement a journal of incidents,   *)
(* whichever saves fail and wherever a process ends: a file's log only     *)
(* grows, one event at a time, and its state follows state.go.             *)
(***************************************************************************)
Journal == INSTANCE IncidentJournal WITH journal <- files

ImplementsJournal == Journal!Spec

(***************************************************************************)
(* "Resolved" is final as soon as no operation and no goroutine holds a    *)
(* version of the incident from before its resolution: stale saves are the *)
(* only way out of the state, since ValidateTransition refuses every       *)
(* transition of a resolved copy.                                          *)
(***************************************************************************)
Settled(i) ==
    /\ files[i] # None
    /\ \A r \in {files[i]} \cup InFlight(i) : IsResolved(r)

SettledIsFinal == [][\A i \in Ids : Settled(i) => Settled(i)']_vars

(***************************************************************************)
(* Every operation returns: no path through it, not even a failed save,    *)
(* leaves storeMu locked, and SaveNew is not retried for ever.  (At the    *)
(* last second of the model an actor may wait for the next one.)           *)
(***************************************************************************)
CallsReturn ==
    \A a \in Actors :
        ~At(a, "idle") ~> (At(a, "idle") \/ (now = MaxTime /\ At(a, "backoff")))

(***************************************************************************)
(* Promises of the documentation and of comments, not kept by the code.    *)
(***************************************************************************)

\* "Showing permanent record" (commands.go), "freeze the state" (service.go):
\* an incident, once resolved, stays resolved.
ResolvedIsFinal ==
    [][\A i \in Existing : IsResolved(files[i]) => IsResolved(files'[i])]_files

=============================================================================

----------------------- MODULE IncidentService_proofs -----------------------
(***************************************************************************)
(* Proofs about IncidentService for every value of its constants: any      *)
(* number of actors, processes, services and incidents.                    *)
(***************************************************************************)
EXTENDS IncidentService, TLAPS

-----------------------------------------------------------------------------
(* The edits of a record. *)

LEMMA AddEventType ==
    ASSUME NEW r \in Incident, NEW t \in EventType, NEW u \in Actors
    PROVE  /\ AddEvent(r, t, u) \in Incident
           /\ AddEvent(r, t, u).state = r.state
           /\ AddEvent(r, t, u).service = r.service
           /\ AddEvent(r, t, u).events = Append(r.events, [type |-> t, user |-> u])
  <1> DEFINE e == [type |-> t, user |-> u]
  <1>1. r.events \in Seq(Event) /\ e \in Event
    BY DEF Incident, Event
  <1>2. Append(r.events, e) \in Seq(Event)
    BY <1>1
  <1> HIDE DEF e
  <1>3. AddEvent(r, t, u) = [r EXCEPT !.events = Append(@, e)]
    BY DEF AddEvent, e
  <1>4. /\ AddEvent(r, t, u) \in Incident
        /\ AddEvent(r, t, u).state = r.state
        /\ AddEvent(r, t, u).service = r.service
        /\ AddEvent(r, t, u).events = Append(r.events, e)
    BY <1>2, <1>3 DEF Incident
  <1> QED
    BY <1>4 DEF e

LEMMA TransitionType ==
    ASSUME NEW r \in Incident, NEW to \in State, NEW t \in EventType,
           NEW u \in Actors
    PROVE  /\ Transition(r, to, t, u) \in Incident
           /\ Transition(r, to, t, u).state = to
           /\ Transition(r, to, t, u).service = r.service
           /\ Transition(r, to, t, u).events
                = Append(r.events, [type |-> t, user |-> u])
  BY AddEventType DEF Transition, Incident

LEMMA NewIncidentType ==
    ASSUME NEW u \in Actors, NEW s \in Services
    PROVE  /\ StartedIncident(u, s) \in Incident
           /\ SuggestedIncident(u, s) \in Incident
  BY DEF StartedIncident, SuggestedIncident, Incident, Event, EventType, State,
         Tag

LEMMA MetadataType ==
    ASSUME NEW r \in Incident, NEW m \in SUBSET Tag
    PROVE  [r EXCEPT !.metadata = m] \in Incident
  BY DEF Incident

LEMMA NoneIsNoIncident == None \notin Incident
  BY ConstantsAssumption

-----------------------------------------------------------------------------
(***************************************************************************)
(* Control: what an actor holds at each label.  TypeOK is inductive only   *)
(* together with it: a step that loads an incident finds a record because  *)
(* files never disappear, and a step that saves has a copy to save.        *)
(***************************************************************************)
HasCopy == Label \ {"idle", "load"}

HasFile == Label \ {"idle", "create", "backoff", "write"}

ControlOf(st, existing) ==
    /\ st.pc \in HasCopy => st.copy \in Incident
    /\ st.pc = "runbookSave" => st.side \in Incident
    /\ st.pc = "write" => st.id \in Ids
    /\ st.pc \in HasFile => st.id \in existing

Control == \A a \in Actors : ControlOf(actor[a], Existing)

Typing == TypeOK /\ Control

LEMMA IdleType == Idle \in ActorState /\ \A ex : ControlOf(Idle, ex)
  BY DEF Idle, ActorState, Label, MaxAttempts, ControlOf, HasCopy, HasFile

LEMMA TypingInit == Init => Typing
  <1> SUFFICES ASSUME Init PROVE Typing
    OBVIOUS
  <1>1. TypeOK
    BY IdleType, ConstantsAssumption DEF Init, TypeOK, Ids
  <1>2. Control
    BY IdleType DEF Init, Control
  <1> QED
    BY <1>1, <1>2 DEF Typing

\* A step of one actor that loses no file needs to be looked at for it only.
LEMMA OneActorSteps ==
    ASSUME Typing, NEW a \in Actors, NEW st \in ActorState,
           actor' = [actor EXCEPT ![a] = st],
           Existing \subseteq Existing',
           ControlOf(st, Existing')
    PROVE  actor' \in [Actors -> ActorState] /\ Control'
  <1>1. actor' \in [Actors -> ActorState]
    BY DEF Typing, TypeOK
  <1>2. ASSUME NEW b \in Actors PROVE ControlOf(actor'[b], Existing')
    <2>1. CASE b = a
      BY <2>1 DEF Typing, TypeOK
    <2>2. CASE b # a
      <3>1. actor'[b] = actor[b] /\ ControlOf(actor[b], Existing)
        BY <2>2 DEF Typing, TypeOK, Control
      <3> QED
        BY <3>1 DEF ControlOf
    <2> QED
      BY <2>1, <2>2
  <1> QED
    BY <1>1, <1>2 DEF Control

\* A save of a record leaves every existing file in existence.
LEMMA SaveType ==
    ASSUME TypeOK, NEW i \in Ids, NEW r \in Incident, NEW out \in Outcome,
           Save(i, r, out)
    PROVE  /\ files' \in [Ids -> Incident \cup {None}]
           /\ Existing \subseteq Existing'
           /\ out = "done" => i \in Existing'
  BY NoneIsNoIncident DEF TypeOK, Save, Existing, Outcome

LEMMA SaveResultType == SaveResult \subseteq Outcome
  BY DEF SaveResult, Outcome

\* What a step of an actor that changes no more than its state, the files and
\* the lock has to establish.
LEMMA ActorStep ==
    ASSUME Typing, NEW a \in Actors, NEW st \in ActorState,
           actor' = [actor EXCEPT ![a] = st],
           files' \in [Ids -> Incident \cup {None}],
           Existing \subseteq Existing',
           ControlOf(st, Existing'),
           holder' \in [Procs -> Actors \cup {None}],
           now' = now,
           background' \subseteq Pending
    PROVE  Typing'
  BY OneActorSteps DEF Typing, TypeOK

LEMMA BeginType ==
    ASSUME Typing, NEW a \in Actors, NEW c \in Calls,
           NEW label \in Label \ {"write", "runbookSave"},
           NEW i \in Ids \cup {0}, NEW r \in Incident \cup {None},
           Begin(a, c, label, i, r),
           label \in HasCopy => r \in Incident,
           label \in HasFile => i \in Existing
    PROVE  Typing'
  <1> DEFINE st == [Idle EXCEPT !.pc = label, !.call = c, !.id = i, !.copy = r]
  <1>1. st \in ActorState
    <2>1. c \in AllCalls
      BY ConstantsAssumption
    <2> QED
      BY <2>1, IdleType DEF ActorState
  <1>2. ControlOf(st, Existing)
    BY DEF Idle, ControlOf
  <1>3. /\ actor' = [actor EXCEPT ![a] = st]
        /\ UNCHANGED <<now, files, holder, background>>
    BY DEF Begin
  <1>4. Existing' = Existing
    BY <1>3 DEF Existing
  <1> QED
    BY <1>1, <1>2, <1>3, <1>4, ActorStep DEF Typing, TypeOK

LEMMA CreateType ==
    ASSUME Typing, NEW a \in Actors, NEW s \in Services,
           Start(a, s) \/ StartForServiceFlow(a, s) \/ Suggest(a, s)
    PROVE  Typing'
  <1>1. PICK c \in AllCalls, r \in Incident : Begin(a, c, "create", now, r)
    BY NewIncidentType DEF Start, StartForServiceFlow, Suggest, AllCalls
  <1>2. c \in Calls
    BY <1>1 DEF Begin
  <1>3. now \in Ids
    BY DEF Typing, TypeOK
  <1> QED
    BY <1>1, <1>2, <1>3, BeginType DEF Label, HasFile

LEMMA ChangeType ==
    ASSUME Typing, NEW a \in Actors, NEW i \in Existing,
           \/ NoteByID(a, i)
           \/ UpdateSeverityByID(a, i)
           \/ Acknowledge(a, i)
           \/ AcknowledgeByID(a, i)
           \/ PromoteSuggested(a, i)
           \/ Resolve(a, i)
           \/ ResolveWithAnalysis(a, i)
           \/ ResolveByID(a, i)
           \/ ResolveByIDWithAnalysis(a, i)
    PROVE  Typing'
  <1>1. i \in Ids /\ files[i] \in Incident
    BY DEF Typing, TypeOK, Existing
  <1>2. PICK c \in AllCalls, label \in {"save", "finalSync"}, r \in Incident :
           Begin(a, c, label, i, r)
    <2>1. CASE NoteByID(a, i) \/ UpdateSeverityByID(a, i)
      BY <1>1, <2>1, AddEventType
      DEF NoteByID, UpdateSeverityByID, EventType, AllCalls
    <2>2. CASE \E c \in AllCalls, label \in {"save", "finalSync"},
                  to \in State, t \in EventType :
                  BeginTransition(a, c, label, i, to, t)
      BY <1>1, <2>2, TransitionType DEF BeginTransition
    <2>3. CASE Acknowledge(a, i) \/ AcknowledgeByID(a, i)
               \/ PromoteSuggested(a, i)
      BY <2>2, <2>3 DEF Acknowledge, AcknowledgeByID, PromoteSuggested, State,
         EventType, AllCalls
    <2>4. CASE Resolve(a, i) \/ ResolveWithAnalysis(a, i)
               \/ ResolveByID(a, i) \/ ResolveByIDWithAnalysis(a, i)
      BY <2>2, <2>4 DEF Resolve, ResolveWithAnalysis, ResolveByID,
         ResolveByIDWithAnalysis, State, EventType, AllCalls
    <2> QED
      BY <2>1, <2>3, <2>4
  <1>3. c \in Calls
    BY <1>2 DEF Begin
  <1> QED
    BY <1>1, <1>2, <1>3, BeginType DEF Label

LEMMA FindType ==
    ASSUME Typing, NEW a \in Actors, NEW i \in Existing,
           \/ Note(a, i)
           \/ UpdateSeverity(a, i)
           \/ \E label \in Label : View(a, i, label)
    PROVE  Typing'
  <1>1. i \in Ids /\ files[i] \in Incident
    BY DEF Typing, TypeOK, Existing
  <1>2. CASE Note(a, i) \/ UpdateSeverity(a, i)
    <2>1. PICK c \in AllCalls : Begin(a, c, "load", i, None)
      BY <1>2 DEF Note, UpdateSeverity, AllCalls
    <2>2. c \in Calls
      BY <2>1 DEF Begin
    <2> QED
      BY <1>1, <2>1, <2>2, BeginType DEF Label, HasCopy
  <1>3. CASE \E label \in Label : View(a, i, label)
    <2>1. PICK label \in {"viewLinks", "viewEnrich", "viewSave"} :
             Begin(a, "View", label, i, files[i])
      BY <1>3 DEF View, AfterViewLinks
    <2>2. "View" \in Calls
      BY <2>1 DEF Begin
    <2> QED
      BY <1>1, <2>1, <2>2, BeginType DEF Label
  <1> QED
    BY <1>2, <1>3

-----------------------------------------------------------------------------
(* The steps of an operation in progress. *)

\* Facts about an actor, unfolded once.
LEMMA ActorType ==
    ASSUME Typing, NEW a \in Actors
    PROVE  /\ actor[a] \in ActorState
           /\ ControlOf(actor[a], Existing)
           /\ actor[a].pc \in HasFile => files[actor[a].id] \in Incident
  BY DEF Typing, TypeOK, Control, ControlOf, Existing

LEMMA SaveNewType ==
    ASSUME Typing, NEW a \in Actors,
           \/ \E k \in Ids : SaveNewStat(a, k)
           \/ \E out \in SaveResult : SaveNewWrite(a, out)
    PROVE  Typing'
  <1>1. /\ actor[a] \in ActorState
        /\ ControlOf(actor[a], Existing)
        /\ now \in Ids
    BY ActorType DEF Typing, TypeOK
  <1>2. ASSUME NEW k \in Ids, SaveNewStat(a, k), files[k] = None PROVE Typing'
    <2> DEFINE st == [actor[a] EXCEPT !.pc = "write", !.id = k]
    <2>1. st \in ActorState /\ ControlOf(st, Existing)
      BY <1>1, <1>2
      DEF SaveNewStat, At, ActorState, Label, ControlOf, HasCopy, HasFile
    <2>2. /\ actor' = [actor EXCEPT ![a] = st]
          /\ holder' = [holder EXCEPT ![ProcOf[a]] = a]
          /\ UNCHANGED <<now, files, background>>
      BY <1>2 DEF SaveNewStat
    <2>3. Existing' = Existing
      BY <2>2 DEF Existing
    <2> HIDE DEF st
    <2> QED
      BY <2>1, <2>2, <2>3, ActorStep, ConstantsAssumption DEF Typing, TypeOK
  <1>3. ASSUME NEW k \in Ids, SaveNewStat(a, k), files[k] # None PROVE Typing'
    <2>1. UNCHANGED <<now, files, holder, background>>
      BY <1>3 DEF SaveNewStat
    <2>2. Existing' = Existing
      BY <2>1 DEF Existing
    <2>3. CASE actor[a].tries + 1 < MaxAttempts
      <3> DEFINE st == [actor[a] EXCEPT !.pc = "backoff", !.id = now,
                                        !.tries = @ + 1]
      <3>1. actor[a].tries + 1 \in 0..(MaxAttempts - 1)
        BY <1>1, <2>3 DEF ActorState, MaxAttempts
      <3>2. st \in ActorState
        BY <1>1, <3>1 DEF ActorState, Label
      <3>3. ControlOf(st, Existing)
        BY <1>1, <1>3 DEF SaveNewStat, At, ActorState, Label, ControlOf,
           HasCopy, HasFile
      <3>4. actor' = [actor EXCEPT ![a] = st]
        BY <1>3, <2>3 DEF SaveNewStat
      <3> HIDE DEF st
      <3> QED
        BY <2>1, <2>2, <3>2, <3>3, <3>4, ActorStep DEF Typing, TypeOK
    <2>4. CASE ~(actor[a].tries + 1 < MaxAttempts)
      <3>1. actor' = [actor EXCEPT ![a] = Idle]
        BY <1>3, <2>4 DEF SaveNewStat, Return
      <3> QED
        BY <2>1, <2>2, <3>1, IdleType, ActorStep DEF Typing, TypeOK
    <2> QED
      BY <2>3, <2>4
  <1>4. ASSUME NEW out \in SaveResult, SaveNewWrite(a, out) PROVE Typing'
    <2>1. actor[a].id \in Ids /\ actor[a].copy \in Incident
      BY <1>1, <1>4 DEF SaveNewWrite, At, ControlOf, HasCopy, Label
    <2>2. /\ files' \in [Ids -> Incident \cup {None}]
          /\ Existing \subseteq Existing'
          /\ out = "done" => actor[a].id \in Existing'
      BY <1>4, <2>1, SaveType, SaveResultType DEF SaveNewWrite, Typing
    <2>3. /\ holder' \in [Procs -> Actors \cup {None}]
          /\ UNCHANGED <<now, background>>
      BY <1>4 DEF SaveNewWrite, Typing, TypeOK
    <2>4. CASE out = "done"
      <3> DEFINE st == [actor[a] EXCEPT !.pc = AfterCreate(actor[a].call)]
      <3>1. st \in ActorState /\ ControlOf(st, Existing')
        BY <1>1, <2>1, <2>2, <2>4
        DEF AfterCreate, ActorState, Label, ControlOf, HasCopy, HasFile
      <3>2. actor' = [actor EXCEPT ![a] = st]
        BY <1>4, <2>4 DEF SaveNewWrite, Goto
      <3> HIDE DEF st
      <3> QED
        BY <2>2, <2>3, <3>1, <3>2, ActorStep DEF Typing, TypeOK
    <2>5. CASE out # "done"
      <3>1. actor' = [actor EXCEPT ![a] = Idle]
        BY <1>4, <2>5 DEF SaveNewWrite, Return
      <3> QED
        BY <2>2, <2>3, <3>1, IdleType, ActorStep DEF Typing, TypeOK
    <2> QED
      BY <2>4, <2>5
  <1> QED
    BY <1>2, <1>3, <1>4

\* A step on the way through an operation, with or without a save.
LEMMA AdvanceType ==
    ASSUME Typing, NEW a \in Actors,
           NEW label \in HasFile \ {"runbookSave"},
           actor[a].pc \in HasFile,
           label \in HasCopy => actor[a].copy \in Incident,
           Goto(a, label),
           files' \in [Ids -> Incident \cup {None}],
           Existing \subseteq Existing',
           UNCHANGED <<now, holder, background>>
    PROVE  Typing'
  <1> DEFINE st == [actor[a] EXCEPT !.pc = label]
  <1>1. actor[a] \in ActorState /\ actor[a].id \in Existing
    BY ActorType DEF ControlOf
  <1>2. st \in ActorState
    BY <1>1 DEF ActorState, HasFile
  <1>3. ControlOf(st, Existing')
    BY <1>1 DEF ActorState, ControlOf, HasFile
  <1>4. actor' = [actor EXCEPT ![a] = st]
    BY DEF Goto
  <1> HIDE DEF st
  <1> QED
    BY <1>2, <1>3, <1>4, ActorStep DEF Typing, TypeOK

LEMMA SaveAndGoType ==
    ASSUME Typing, NEW a \in Actors,
           NEW label \in HasFile \ {"runbookSave"},
           NEW out \in SaveResult,
           actor[a].pc \in HasFile \cap HasCopy,
           SaveAndGo(a, label, out)
    PROVE  Typing'
  <1>1. actor[a].id \in Ids /\ actor[a].copy \in Incident
    BY ActorType DEF ControlOf, Existing
  <1>2. files' \in [Ids -> Incident \cup {None}] /\ Existing \subseteq Existing'
    BY <1>1, SaveType, SaveResultType DEF SaveAndGo, Typing
  <1> QED
    BY <1>1, <1>2, AdvanceType DEF SaveAndGo

\* A step that saves the copy and ends the operation.
LEMMA SaveAndReturnType ==
    ASSUME Typing, NEW a \in Actors, NEW out \in Outcome,
           actor[a].pc \in HasFile \cap HasCopy,
           \/ Save(actor[a].id, actor[a].copy, out)
           \/ UNCHANGED files,
           Return(a),
           UNCHANGED <<now, holder>>,
           background' \subseteq Pending
    PROVE  Typing'
  <1>1. actor[a].id \in Ids /\ actor[a].copy \in Incident
    BY ActorType DEF ControlOf, Existing
  <1>2. files' \in [Ids -> Incident \cup {None}] /\ Existing \subseteq Existing'
    BY <1>1, SaveType DEF Existing, Typing, TypeOK
  <1> QED
    BY <1>2, IdleType, ActorStep DEF Return, Typing, TypeOK

\* A step that loads the incident of the operation into a copy.
LEMMA LoadType ==
    ASSUME Typing, NEW a \in Actors,
           NoRunbook(a) \/ LoadForRunbook(a) \/ LoadForMetadata(a)
               \/ LoadActive(a)
    PROVE  Typing'
  <1>1. UNCHANGED <<now, files, holder, background>> /\ Existing' = Existing
    BY DEF NoRunbook, LoadForRunbook, LoadForMetadata, LoadActive, Existing
  <1>2. actor[a] \in ActorState /\ ControlOf(actor[a], Existing)
    BY ActorType
  <1>3. actor[a].pc \in HasFile
    BY DEF NoRunbook, LoadForRunbook, LoadForMetadata, LoadActive, At, HasFile,
       Label
  <1>4. actor[a].id \in Existing /\ files[actor[a].id] \in Incident
    BY <1>3, ActorType DEF ControlOf
  <1>5. CASE NoRunbook(a)
    BY <1>1, <1>2, <1>3, <1>5, AdvanceType
    DEF NoRunbook, At, ControlOf, HasFile, HasCopy, Label, Typing, TypeOK
  <1>6. CASE LoadForRunbook(a)
    <2> DEFINE r == [files[actor[a].id] EXCEPT !.metadata = @ \cup {"runbook"}]
               st == [actor[a] EXCEPT !.pc = "runbookSave", !.side = r]
    <2>1. r \in Incident
      BY <1>4 DEF Incident, Tag
    <2>2. actor' = [actor EXCEPT ![a] = st]
      BY <1>6 DEF LoadForRunbook
    <2>3. actor[a].copy \in Incident
      BY <1>2, <1>6 DEF LoadForRunbook, At, ControlOf, HasCopy, Label
    <2> HIDE DEF r
    <2>4. st \in ActorState /\ ControlOf(st, Existing)
      BY <1>2, <1>4, <2>1, <2>3 DEF ActorState, Label, ControlOf
    <2> HIDE DEF st
    <2> QED
      BY <1>1, <2>2, <2>4, ActorStep DEF Typing, TypeOK
  <1>7. CASE LoadForMetadata(a) \/ LoadActive(a)
    <2>1. PICK r \in Incident :
             actor' = [actor EXCEPT ![a].pc = "save", ![a].copy = r]
      <3>1. CASE LoadForMetadata(a)
        BY <1>4, <3>1, MetadataType DEF LoadForMetadata, Tag
      <3>2. CASE LoadActive(a)
        BY <1>4, <3>2, AddEventType DEF LoadActive, EventOf, EventType
      <3> QED
        BY <1>7, <3>1, <3>2
    <2> DEFINE st == [actor[a] EXCEPT !.pc = "save", !.copy = r]
    <2>2. st \in ActorState /\ ControlOf(st, Existing)
      BY <1>2, <1>4 DEF ActorState, Label, ControlOf
    <2>3. actor' = [actor EXCEPT ![a] = st]
      BY <2>1
    <2> HIDE DEF st
    <2> QED
      BY <1>1, <2>2, <2>3, ActorStep DEF Typing, TypeOK
  <1> QED
    BY <1>5, <1>6, <1>7

LEMMA RetryCreateType ==
    ASSUME Typing, NEW a \in Actors, RetryCreate(a)
    PROVE  Typing'
  <1> DEFINE st == [actor[a] EXCEPT !.pc = "create", !.id = now]
  <1>1. actor[a] \in ActorState /\ ControlOf(actor[a], Existing) /\ now \in Ids
    BY ActorType DEF Typing, TypeOK
  <1>2. st \in ActorState /\ ControlOf(st, Existing)
    BY <1>1 DEF RetryCreate, At, ActorState, Label, ControlOf, HasCopy, HasFile
  <1>3. /\ actor' = [actor EXCEPT ![a] = st]
        /\ UNCHANGED <<now, files, holder, background>>
        /\ Existing' = Existing
    BY DEF RetryCreate, Existing
  <1> HIDE DEF st
  <1> QED
    BY <1>2, <1>3, ActorStep DEF Typing, TypeOK

LEMMA RunbookType ==
    ASSUME Typing, NEW a \in Actors, NEW out \in SaveResult,
           SaveRunbookSuggestion(a, out)
    PROVE  Typing'
  <1> DEFINE st == [actor[a] EXCEPT !.pc = "logs", !.side = None]
  <1>1. /\ actor[a] \in ActorState
        /\ actor[a].id \in Existing
        /\ actor[a].side \in Incident
        /\ actor[a].copy \in Incident
    BY ActorType
    DEF SaveRunbookSuggestion, At, ControlOf, HasFile, HasCopy, Label
  <1>2. files' \in [Ids -> Incident \cup {None}] /\ Existing \subseteq Existing'
    BY <1>1, SaveType, SaveResultType
    DEF SaveRunbookSuggestion, Typing, Existing
  <1>3. st \in ActorState /\ ControlOf(st, Existing')
    BY <1>1, <1>2 DEF ActorState, Label, ControlOf
  <1>4. actor' = [actor EXCEPT ![a] = st] /\ UNCHANGED <<now, holder, background>>
    BY DEF SaveRunbookSuggestion
  <1> HIDE DEF st
  <1> QED
    BY <1>2, <1>3, <1>4, ActorStep DEF Typing, TypeOK

LEMMA SaveStepsType ==
    ASSUME Typing, NEW a \in Actors, NEW out \in SaveResult,
           \/ SaveEnriched(a, out)
           \/ SaveLinks(a, out)
           \/ SaveWithLogs(a, out)
           \/ SaveViewLinks(a, out)
           \/ SaveViewEnriched(a, out)
    PROVE  Typing'
  <1>1. actor[a].pc \in HasFile \cap HasCopy
    BY DEF SaveEnriched, SaveLinks, SaveWithLogs, SaveViewLinks,
       SaveViewEnriched, At, HasFile, HasCopy, Label
  <1>2. PICK label \in {"links", "metadata", "runbook", "traces", "viewEnrich",
                        "viewSave"} :
           SaveAndGo(a, label, out)
    BY DEF SaveEnriched, SaveLinks, SaveWithLogs, SaveViewLinks,
       SaveViewEnriched, AfterLinks, AfterViewLinks
  <1> QED
    BY <1>1, <1>2, SaveAndGoType DEF HasFile, Label

LEMMA LastStepsType ==
    ASSUME Typing, NEW a \in Actors, NEW out \in SaveResult,
           \/ SaveChange(a, out)
           \/ PerformFinalSync(a, out)
           \/ FinishView(a, out)
           \/ FinishStart(a)
    PROVE  Typing'
  <1>1. actor[a].pc \in HasFile \cap HasCopy
    BY DEF SaveChange, PerformFinalSync, FinishView, FinishStart, At, HasFile,
       HasCopy, Label
  <1>2. actor[a].id \in Ids /\ actor[a].copy \in Incident /\ out \in Outcome
    BY <1>1, ActorType, SaveResultType DEF ControlOf, Existing
  <1>3. [owner |-> a, kind |-> "traces", id |-> actor[a].id,
         copy |-> actor[a].copy] \in Pending
    BY <1>2 DEF Pending
  <1>4. [owner |-> a, kind |-> "lifecycle", id |-> actor[a].id,
         copy |-> actor[a].copy] \in Pending
    BY <1>2 DEF Pending
  <1>5. CASE SaveChange(a, out) /\ out = "done" /\ IsResolving(actor[a].call)
    <2>1. SaveAndGo(a, "finalSync", out)
      BY <1>5 DEF SaveChange, SaveAndGo
    <2> QED
      BY <1>1, <2>1, SaveAndGoType DEF HasFile, Label
  <1>6. CASE SaveChange(a, out) /\ ~(out = "done" /\ IsResolving(actor[a].call))
    BY <1>1, <1>2, <1>6, SaveAndReturnType DEF SaveChange, Typing, TypeOK
  <1>7. CASE PerformFinalSync(a, out)
    BY <1>1, <1>2, <1>4, <1>7, SaveAndReturnType
    DEF PerformFinalSync, Typing, TypeOK
  <1>8. CASE FinishView(a, out)
    BY <1>1, <1>2, <1>8, SaveAndReturnType DEF FinishView, Typing, TypeOK
  <1>9. CASE FinishStart(a)
    BY <1>1, <1>2, <1>3, <1>9, SaveAndReturnType DEF FinishStart, Typing, TypeOK
  <1> QED
    BY <1>5, <1>6, <1>7, <1>8, <1>9

LEMMA ContinueType ==
    ASSUME Typing, NEW a \in Actors, Continue(a)
    PROVE  Typing'
  <1>1. CASE FinishStart(a)
    <2>1. "done" \in SaveResult
      BY DEF SaveResult, Outcome
    <2> QED
      BY <1>1, <2>1, LastStepsType
  <1> QED
    BY <1>1, SaveNewType, RetryCreateType, LoadType, RunbookType, SaveStepsType,
       LastStepsType DEF Continue

-----------------------------------------------------------------------------
(* Goroutines left behind, processes, the clock. *)

LEMMA BackgroundType ==
    ASSUME Typing, FinishBackground
    PROVE  Typing'
  <1>1. /\ UNCHANGED <<now, holder, actor>>
        /\ background' \subseteq Pending
    BY DEF FinishBackground, NoTraces, BackgroundSave, Typing, TypeOK
  <1>2. files' \in [Ids -> Incident \cup {None}] /\ Existing \subseteq Existing'
    <2>1. PICK b \in background :
             NoTraces(b) \/ \E out \in SaveResult : BackgroundSave(b, out)
      BY DEF FinishBackground
    <2>2. b.id \in Ids /\ b.copy \in Incident
      BY DEF Typing, TypeOK, Pending
    <2>3. CASE NoTraces(b)
      BY <2>3 DEF NoTraces, Existing, Typing, TypeOK
    <2>4. CASE \E out \in SaveResult : BackgroundSave(b, out)
      BY <2>2, <2>4, SaveType, SaveResultType DEF BackgroundSave, Typing
    <2> QED
      BY <2>1, <2>3, <2>4
  <1> QED
    BY <1>1, <1>2 DEF Typing, TypeOK, Control, ControlOf

LEMMA ExitType ==
    ASSUME Typing, NEW p \in Procs, Exit(p)
    PROVE  Typing'
  <1>1. /\ UNCHANGED <<now, files>>
        /\ Existing' = Existing
        /\ background' \subseteq Pending
        /\ holder' \in [Procs -> Actors \cup {None}]
    BY DEF Exit, Existing, Typing, TypeOK
  <1>2. actor' \in [Actors -> ActorState]
    BY IdleType DEF Exit, Typing, TypeOK
  <1>3. ASSUME NEW a \in Actors PROVE ControlOf(actor'[a], Existing')
    BY <1>1, IdleType DEF Exit, Typing, Control
  <1> QED
    BY <1>1, <1>2, <1>3 DEF Typing, TypeOK, Control

LEMMA TypingNext == Typing /\ [Next]_vars => Typing'
  <1> SUFFICES ASSUME Typing, [Next]_vars PROVE Typing'
    OBVIOUS
  <1>1. ASSUME NEW a \in Actors, NewCall(a) PROVE Typing'
    BY <1>1, CreateType, ChangeType, FindType DEF NewCall
  <1>2. ASSUME NEW a \in Actors, Continue(a) PROVE Typing'
    BY <1>2, ContinueType
  <1>3. CASE FinishBackground
    BY <1>3, BackgroundType
  <1>4. ASSUME NEW p \in Procs, Exit(p) PROVE Typing'
    BY <1>4, ExitType
  <1>5. CASE Tick
    BY <1>5, ConstantsAssumption
    DEF Tick, Typing, TypeOK, Control, ControlOf, Existing, Ids
  <1>6. CASE UNCHANGED vars
    BY <1>6 DEF vars, Typing, TypeOK, Control, ControlOf, Existing
  <1> QED
    BY <1>1, <1>2, <1>3, <1>4, <1>5, <1>6 DEF Next

(***************************************************************************)
(* Every variable keeps its type, and at every label an actor has what the *)
(* next line of the code dereferences: a copy to save, a file to load.     *)
(***************************************************************************)
THEOREM TypeCorrect == Spec => []TypeOK
  <1>1. Typing => TypeOK
    BY DEF Typing
  <1> QED
    BY <1>1, TypingInit, TypingNext, PTL DEF Spec

-----------------------------------------------------------------------------
(* The edits of a record, again: what they do to its history. *)

LEMMA AppendHistory ==
    ASSUME NEW h \in Seq(Event), NEW e \in Event
    PROVE  LET g == Append(h, e)
           IN  /\ g \in Seq(Event)
               /\ DOMAIN g = 1..(Len(h) + 1)
               /\ DOMAIN h = 1..Len(h)
               /\ Len(h) \in Nat
               /\ \A i \in 1..Len(h) : g[i] = h[i]
               /\ g[Len(h) + 1] = e
               /\ \A t : Has(g, t) <=> Has(h, t) \/ e.type = t
  <1> DEFINE g == Append(h, e)
  <1>1. /\ g \in Seq(Event)
        /\ DOMAIN g = 1..(Len(h) + 1)
        /\ DOMAIN h = 1..Len(h)
        /\ Len(h) \in Nat
        /\ \A i \in 1..Len(h) : g[i] = h[i]
        /\ g[Len(h) + 1] = e
    OBVIOUS
  <1> HIDE DEF g
  <1>2. ASSUME NEW t PROVE Has(g, t) <=> Has(h, t) \/ e.type = t
    <2>1. Has(g, t) => Has(h, t) \/ e.type = t
      BY <1>1 DEF Has
    <2>2. Has(h, t) => Has(g, t)
      BY <1>1 DEF Has
    <2>3. e.type = t => Has(g, t)
      BY <1>1 DEF Has
    <2> QED
      BY <2>1, <2>2, <2>3
  <1> QED
    BY <1>1, <1>2 DEF g

\* A note or a severity change may be appended to any legal history.
LEMMA AnnotationKeepsHistory ==
    ASSUME NEW h \in Seq(Event), NEW e \in Event, LegalHistory(h),
           e.type \in {"note", "severity"}
    PROVE  LegalHistory(Append(h, e)) /\ StateAfter(Append(h, e)) = StateAfter(h)
  <1> DEFINE g == Append(h, e)
  <1>1. /\ g \in Seq(Event)
        /\ DOMAIN g = 1..(Len(h) + 1)
        /\ DOMAIN h = 1..Len(h)
        /\ Len(h) \in Nat
        /\ \A i \in 1..Len(h) : g[i] = h[i]
        /\ g[Len(h) + 1] = e
        /\ \A t : Has(g, t) <=> Has(h, t) \/ e.type = t
    BY AppendHistory
  <1> HIDE DEF g
  <1>2. Len(h) >= 1 /\ g # <<>>
    BY <1>1 DEF LegalHistory, OpensOnce
  <1>3. OpensOnce(g)
    BY <1>1, <1>2 DEF LegalHistory, OpensOnce
  <1>4. \A t \in {"start", "ack", "resolve"} : AtMostOnce(g, t)
    BY <1>1 DEF LegalHistory, AtMostOnce
  <1>5. ClosedAfterResolve(g)
    BY <1>1 DEF LegalHistory, ClosedAfterResolve
  <1>6. AckAfterStart(g)
    BY <1>1 DEF LegalHistory, AckAfterStart
  <1>7. StateAfter(g) = StateAfter(h)
    BY <1>1 DEF StateAfter
  <1> QED
    BY <1>3, <1>4, <1>5, <1>6, <1>7 DEF LegalHistory, g

\* The event a transition of state.go appends.
EventFor(to) ==
    CASE to = "Started" -> "start"
      [] to = "Acknowledged" -> "ack"
      [] to = "Resolved" -> "resolve"

\* The event of a transition that state.go allows extends the history, and
\* takes it to the state of the transition.
LEMMA TransitionKeepsHistory ==
    ASSUME NEW h \in Seq(Event), NEW e \in Event, LegalHistory(h),
           NEW to, ValidateTransition(StateAfter(h), to),
           e.type = EventFor(to)
    PROVE  LegalHistory(Append(h, e)) /\ StateAfter(Append(h, e)) = to
  <1> DEFINE g == Append(h, e)
  <1>1. /\ g \in Seq(Event)
        /\ DOMAIN g = 1..(Len(h) + 1)
        /\ DOMAIN h = 1..Len(h)
        /\ Len(h) \in Nat
        /\ \A i \in 1..Len(h) : g[i] = h[i]
        /\ g[Len(h) + 1] = e
        /\ \A t : Has(g, t) <=> Has(h, t) \/ e.type = t
    BY AppendHistory
  <1> HIDE DEF g
  <1>2. Len(h) >= 1 /\ g # <<>>
    BY <1>1 DEF LegalHistory, OpensOnce
  <1>3. /\ to \in {"Started", "Acknowledged", "Resolved"}
        /\ e.type \in {"start", "ack", "resolve"}
        /\ ~Has(h, "resolve")
        /\ ~Has(h, e.type)
        /\ e.type = "start" => ~Has(h, "ack") /\ to = "Started"
        /\ e.type = "ack" => Has(h, "start") /\ to = "Acknowledged"
        /\ e.type = "resolve" => to = "Resolved"
    BY DEF ValidateTransition, StateAfter, EventFor
  <1>4. OpensOnce(g)
    BY <1>1, <1>2, <1>3 DEF LegalHistory, OpensOnce
  <1>5. ASSUME NEW t \in {"start", "ack", "resolve"} PROVE AtMostOnce(g, t)
    <2>1. CASE t = e.type
      BY <1>1, <1>3, <2>1 DEF AtMostOnce, Has
    <2>2. CASE t # e.type
      BY <1>1, <2>2 DEF LegalHistory, AtMostOnce
    <2> QED
      BY <2>1, <2>2
  <1>6. ClosedAfterResolve(g)
    BY <1>1, <1>3 DEF ClosedAfterResolve, Has
  <1>7. AckAfterStart(g)
    <2>1. CASE e.type = "ack"
      BY <1>1, <1>3, <2>1 DEF LegalHistory, AckAfterStart, Has
    <2>2. CASE e.type # "ack"
      BY <1>1, <2>2 DEF LegalHistory, AckAfterStart
    <2> QED
      BY <2>1, <2>2
  <1>8. StateAfter(g) = to
    BY <1>1, <1>3 DEF StateAfter
  <1> QED
    BY <1>4, <1>5, <1>6, <1>7, <1>8 DEF LegalHistory, g

-----------------------------------------------------------------------------
(***************************************************************************)
(* Where the versions of an incident come from.  One lemma says it for     *)
(* every step: a version in flight after the step was in flight before,    *)
(* was edited from the file as it stood, or is a draft of a new incident   *)
(* whose file was not there; and a file that changed holds a version that  *)
(* was in flight.  The safety theorems below are consequences.             *)
(***************************************************************************)

\* r is what an operation makes of q between its load and its save.
Edited(q, r) ==
    /\ r.service = q.service
    /\ \/ r.events = q.events /\ r.state = q.state
       \/ \E e \in Event :
             /\ r.events = Append(q.events, e)
             /\ \/ e.type \in {"note", "severity"} /\ r.state = q.state
                \/ /\ ValidateTransition(q.state, r.state)
                   /\ e.type = EventFor(r.state)

IsNew(r) == Len(r.events) = 1 /\ Consistent(r)

Source(i, r) ==
    \/ files[i] # None /\ Edited(files[i], r)
    \/ files[i] = None /\ files'[i] = None /\ IsNew(r)

\* What an actor in state st may still save as incident i.
Holds(st, i, r) ==
    /\ st.id = i
    /\ \/ st.pc \notin {"idle", "create", "backoff", "load"} /\ r = st.copy
       \/ st.pc = "runbookSave" /\ r = st.side

LEMMA InFlightHolds ==
    ASSUME NEW i, NEW r
    PROVE  r \in InFlight(i) <=>
               \/ \E a \in Actors : Holds(actor[a], i, r)
               \/ \E b \in background : b.id = i /\ r = b.copy
  BY DEF InFlight, Holds, Writing, At

LEMMA InFlightHoldsNext ==
    ASSUME NEW i, NEW r
    PROVE  r \in InFlight(i)' <=>
               \/ \E a \in Actors : Holds(actor'[a], i, r)
               \/ \E b \in background' : b.id = i /\ r = b.copy
  BY DEF InFlight, Holds, Writing, At

\* The records that operations create begin a legal life.
LEMMA NewIncidentIsNew ==
    ASSUME NEW u \in Actors, NEW s \in Services
    PROVE  IsNew(StartedIncident(u, s)) /\ IsNew(SuggestedIncident(u, s))
  BY DEF IsNew, Consistent, LegalHistory, OpensOnce, AtMostOnce,
     ClosedAfterResolve, AckAfterStart, StateAfter, Has, StartedIncident,
     SuggestedIncident

\* Drafts: what an actor is about to create is new.
DraftOf(st) == st.pc \in {"create", "backoff", "write"} => IsNew(st.copy)

Drafts == \A a \in Actors : DraftOf(actor[a])

\* A goroutine is left behind for an incident that has its file.
Goroutines == \A b \in background : b.id \in Existing

\* The flow of versions in one step.
VersionsFlow ==
    \A i \in Ids : \A r \in InFlight(i)' : r \in InFlight(i) \/ Source(i, r)

FilesFlow ==
    \/ files' = files
    \/ \E i \in Ids, r \in Incident :
          /\ files' = [files EXCEPT ![i] = r]
          /\ r \in InFlight(i)
          /\ files[i] = None => IsNew(r)

\* A step of one actor is looked at for the versions this actor holds.
LEMMA OneActorFlow ==
    ASSUME Typing, NEW a \in Actors, NEW st,
           actor' = [actor EXCEPT ![a] = st],
           \A i \in Ids : \A r :
               Holds(st, i, r) => r \in InFlight(i) \/ Source(i, r),
           \A b \in background' :
               b \in background \/ Holds(actor[a], b.id, b.copy)
    PROVE  VersionsFlow
  <1> SUFFICES ASSUME NEW i \in Ids, NEW r \in InFlight(i)'
               PROVE  r \in InFlight(i) \/ Source(i, r)
    BY DEF VersionsFlow
  <1>1. CASE \E b \in background' : b.id = i /\ r = b.copy
    BY <1>1, InFlightHolds
  <1>2. CASE \E b \in Actors : Holds(actor'[b], i, r)
    <2>1. PICK b \in Actors : Holds(actor'[b], i, r)
      BY <1>2
    <2>2. CASE b = a
      <3>1. actor'[b] = st
        BY <2>2 DEF Typing, TypeOK
      <3> QED
        BY <2>1, <3>1
    <2>3. CASE b # a
      <3>1. actor'[b] = actor[b]
        BY <2>3 DEF Typing, TypeOK
      <3> QED
        BY <2>1, <3>1, InFlightHolds
    <2> QED
      BY <2>2, <2>3
  <1> QED
    BY <1>1, <1>2, InFlightHoldsNext

LEMMA OneActorDraft ==
    ASSUME Typing, Drafts, NEW a \in Actors, NEW st,
           actor' = [actor EXCEPT ![a] = st],
           DraftOf(st)
    PROVE  Drafts'
  <1> SUFFICES ASSUME NEW b \in Actors PROVE DraftOf(actor'[b])
    BY DEF Drafts
  <1>1. CASE b = a
    <2>1. actor'[b] = st
      BY <1>1 DEF Typing, TypeOK
    <2> QED
      BY <2>1
  <1>2. CASE b # a
    <2>1. actor'[b] = actor[b]
      BY <1>2 DEF Typing, TypeOK
    <2> QED
      BY <2>1 DEF Drafts
  <1> QED
    BY <1>1, <1>2

StepFlow == VersionsFlow /\ FilesFlow /\ Drafts'

LEMMA BeginFlow ==
    ASSUME Typing, Drafts, NEW a \in Actors, NEW c \in Calls,
           NEW label \in {"create", "load", "save", "finalSync", "viewLinks",
                          "viewEnrich", "viewSave"},
           NEW i, NEW r,
           Begin(a, c, label, i, r),
           label = "create" => IsNew(r),
           label \notin {"create", "load"} => files[i] # None /\ Edited(files[i], r)
    PROVE  StepFlow
  <1> DEFINE st == [Idle EXCEPT !.pc = label, !.call = c, !.id = i, !.copy = r]
  <1>1. /\ actor' = [actor EXCEPT ![a] = st]
        /\ UNCHANGED <<now, files, holder, background>>
    BY DEF Begin
  <1>2. \A j \in Ids : \A q : Holds(st, j, q) => Source(j, q)
    BY DEF Holds, Idle, Source
  <1>3. DraftOf(st)
    BY DEF DraftOf, Idle
  <1> HIDE DEF st
  <1>4. VersionsFlow
    BY <1>1, <1>2, OneActorFlow
  <1> QED
    BY <1>1, <1>3, <1>4, OneActorDraft DEF StepFlow, FilesFlow

LEMMA CreateFlow ==
    ASSUME Typing, Drafts, NEW a \in Actors, NEW s \in Services,
           Start(a, s) \/ StartForServiceFlow(a, s) \/ Suggest(a, s)
    PROVE  StepFlow
  <1>1. PICK c, r : Begin(a, c, "create", now, r) /\ IsNew(r)
    BY NewIncidentIsNew DEF Start, StartForServiceFlow, Suggest
  <1>2. c \in Calls
    BY <1>1 DEF Begin
  <1> QED
    BY <1>1, <1>2, BeginFlow

\* The edits an operation makes before its save.
LEMMA EditsAreEdited ==
    ASSUME NEW q \in Incident, NEW u \in Actors
    PROVE  /\ Edited(q, q)
           /\ \A t \in {"note", "severity"} : Edited(q, AddEvent(q, t, u))
           /\ \A to \in State :
                 ValidateTransition(q.state, to)
                    => Edited(q, Transition(q, to, EventFor(to), u))
           /\ \A m \in SUBSET Tag : Edited(q, [q EXCEPT !.metadata = m])
  <1>1. Edited(q, q)
    BY DEF Edited
  <1>2. ASSUME NEW t \in {"note", "severity"} PROVE Edited(q, AddEvent(q, t, u))
    <2> DEFINE e == [type |-> t, user |-> u]
    <2>1. e \in Event /\ e.type = t
      BY DEF Event, EventType
    <2>2. /\ AddEvent(q, t, u).state = q.state
          /\ AddEvent(q, t, u).service = q.service
          /\ AddEvent(q, t, u).events = Append(q.events, e)
      BY AddEventType DEF EventType
    <2> HIDE DEF e
    <2> QED
      BY <2>1, <2>2 DEF Edited
  <1>3. ASSUME NEW to \in State, ValidateTransition(q.state, to)
        PROVE  Edited(q, Transition(q, to, EventFor(to), u))
    <2> DEFINE t == EventFor(to)
               e == [type |-> t, user |-> u]
    <2>1. t \in EventType
      BY <1>3 DEF EventFor, EventType, ValidateTransition
    <2> HIDE DEF t
    <2>2. e \in Event /\ e.type = t
      BY <2>1 DEF Event
    <2>3. /\ Transition(q, to, t, u).state = to
          /\ Transition(q, to, t, u).service = q.service
          /\ Transition(q, to, t, u).events = Append(q.events, e)
      BY <2>1, TransitionType
    <2> HIDE DEF e
    <2>4. Edited(q, Transition(q, to, t, u))
      BY <1>3, <2>2, <2>3 DEF Edited, t
    <2> QED
      BY <2>4 DEF t
  <1>4. ASSUME NEW m \in SUBSET Tag PROVE Edited(q, [q EXCEPT !.metadata = m])
    BY DEF Edited, Incident
  <1> QED
    BY <1>1, <1>2, <1>3, <1>4

LEMMA ChangeFlow ==
    ASSUME Typing, Drafts, NEW a \in Actors, NEW i \in Existing,
           \/ NoteByID(a, i)
           \/ UpdateSeverityByID(a, i)
           \/ Acknowledge(a, i)
           \/ AcknowledgeByID(a, i)
           \/ PromoteSuggested(a, i)
           \/ Resolve(a, i)
           \/ ResolveWithAnalysis(a, i)
           \/ ResolveByID(a, i)
           \/ ResolveByIDWithAnalysis(a, i)
    PROVE  StepFlow
  <1>1. files[i] \in Incident /\ files[i] # None
    BY DEF Typing, TypeOK, Existing
  <1>2. PICK c \in AllCalls, label \in {"save", "finalSync"},
                r \in Incident :
           Begin(a, c, label, i, r) /\ Edited(files[i], r)
    <2>1. CASE NoteByID(a, i) \/ UpdateSeverityByID(a, i)
      <3>1. PICK c \in {"NoteByID", "UpdateSeverityByID"}, t \in {"note", "severity"} :
               Begin(a, c, "save", i, AddEvent(files[i], t, a))
        BY <2>1 DEF NoteByID, UpdateSeverityByID
      <3> DEFINE r == AddEvent(files[i], t, a)
      <3>2. t \in EventType /\ c \in AllCalls
        BY DEF EventType, AllCalls
      <3>3. r \in Incident
        BY <1>1, <3>2, AddEventType
      <3>4. Begin(a, c, "save", i, r) /\ Edited(files[i], r)
        BY <1>1, <3>1, <3>2, EditsAreEdited
      <3> HIDE DEF r
      <3> QED
        BY <3>2, <3>3, <3>4
    <2>2. CASE \E c \in AllCalls, label \in {"save", "finalSync"},
                  to \in {"Started", "Acknowledged", "Resolved"} :
                  BeginTransition(a, c, label, i, to, EventFor(to))
      <3>1. PICK c \in AllCalls, label \in {"save", "finalSync"},
                 to \in {"Started", "Acknowledged", "Resolved"} :
               BeginTransition(a, c, label, i, to, EventFor(to))
        BY <2>2
      <3> DEFINE r == Transition(files[i], to, EventFor(to), a)
      <3>2. to \in State /\ EventFor(to) \in EventType
        BY DEF EventFor, EventType, State
      <3>3. r \in Incident
        BY <1>1, <3>2, TransitionType
      <3>4. Begin(a, c, label, i, r) /\ Edited(files[i], r)
        BY <1>1, <3>1, <3>2, EditsAreEdited DEF BeginTransition
      <3> HIDE DEF r
      <3> QED
        BY <3>3, <3>4
    <2>3. CASE \/ Acknowledge(a, i)
               \/ AcknowledgeByID(a, i)
               \/ PromoteSuggested(a, i)
      <3>1. "ack" = EventFor("Acknowledged") /\ "start" = EventFor("Started")
        BY DEF EventFor
      <3> QED
        BY <2>2, <2>3, <3>1
        DEF Acknowledge, AcknowledgeByID, PromoteSuggested, AllCalls
    <2>4. CASE \/ Resolve(a, i)
               \/ ResolveWithAnalysis(a, i)
               \/ ResolveByID(a, i)
               \/ ResolveByIDWithAnalysis(a, i)
      <3>1. "resolve" = EventFor("Resolved")
        BY DEF EventFor
      <3> QED
        BY <2>2, <2>4, <3>1 DEF Resolve, ResolveWithAnalysis, ResolveByID,
           ResolveByIDWithAnalysis, AllCalls
    <2> QED
      BY <2>1, <2>3, <2>4
  <1>3. c \in Calls
    BY <1>2 DEF Begin
  <1> QED
    BY <1>1, <1>2, <1>3, BeginFlow

LEMMA FindFlow ==
    ASSUME Typing, Drafts, NEW a \in Actors, NEW i \in Existing,
           \/ Note(a, i)
           \/ UpdateSeverity(a, i)
           \/ \E label \in Label : View(a, i, label)
    PROVE  StepFlow
  <1>1. files[i] \in Incident /\ files[i] # None
    BY DEF Typing, TypeOK, Existing
  <1>2. CASE Note(a, i) \/ UpdateSeverity(a, i)
    <2>1. PICK c : Begin(a, c, "load", i, None)
      BY <1>2 DEF Note, UpdateSeverity
    <2>2. c \in Calls
      BY <2>1 DEF Begin
    <2> QED
      BY <2>1, <2>2, BeginFlow
  <1>3. CASE \E label \in Label : View(a, i, label)
    <2>1. PICK label \in {"viewLinks", "viewEnrich", "viewSave"} :
             Begin(a, "View", label, i, files[i])
      BY <1>3 DEF View, AfterViewLinks
    <2>2. "View" \in Calls
      BY <2>1 DEF Begin
    <2> QED
      BY <1>1, <2>1, <2>2, BeginFlow, EditsAreEdited
  <1> QED
    BY <1>2, <1>3

\* What an actor saves over an existing file is a version in flight.
LEMMA SaveFlow ==
    ASSUME Typing, NEW a \in Actors, NEW out \in Outcome,
           \/ /\ actor[a].pc \in HasFile \cap HasCopy
              /\ Save(actor[a].id, actor[a].copy, out)
           \/ /\ actor[a].pc = "runbookSave"
              /\ Save(actor[a].id, actor[a].side, out)
    PROVE  FilesFlow
  <1>1. /\ actor[a] \in ActorState
        /\ ControlOf(actor[a], Existing)
    BY ActorType
  <1>2. CASE /\ actor[a].pc \in HasFile \cap HasCopy
             /\ Save(actor[a].id, actor[a].copy, out)
    <2> DEFINE i == actor[a].id
               r == actor[a].copy
    <2>1. i \in Ids /\ files[i] # None /\ r \in Incident
      BY <1>1, <1>2 DEF ControlOf, Existing
    <2>2. r \in InFlight(i)
      BY <1>2, InFlightHolds DEF Holds, HasFile, HasCopy
    <2> QED
      BY <1>2, <2>1, <2>2 DEF Save, FilesFlow
  <1>3. CASE actor[a].pc = "runbookSave" /\ Save(actor[a].id, actor[a].side, out)
    <2> DEFINE i == actor[a].id
               r == actor[a].side
    <2>1. i \in Ids /\ files[i] # None /\ r \in Incident
      BY <1>1, <1>3 DEF ControlOf, Existing, HasFile, Label
    <2>2. r \in InFlight(i)
      BY <1>3, InFlightHolds DEF Holds
    <2> QED
      BY <1>3, <2>1, <2>2 DEF Save, FilesFlow
  <1> QED
    BY <1>2, <1>3

LEMMA GotoFlow ==
    ASSUME Typing, Drafts, NEW a \in Actors, NEW label,
           label \notin {"create", "backoff", "write", "runbookSave"},
           actor[a].pc \notin {"idle", "create", "backoff", "load"},
           Goto(a, label),
           UNCHANGED background
    PROVE  VersionsFlow /\ Drafts'
  <1> DEFINE st == [actor[a] EXCEPT !.pc = label]
  <1>1. actor' = [actor EXCEPT ![a] = st] /\ actor[a] \in ActorState
    BY ActorType DEF Goto
  <1>2. \A i \in Ids : \A r : Holds(st, i, r) => r \in InFlight(i)
    BY <1>1, InFlightHolds DEF ActorState, Holds
  <1>3. DraftOf(st)
    BY <1>1 DEF DraftOf, ActorState
  <1> HIDE DEF st
  <1> QED
    BY <1>1, <1>2, <1>3, OneActorFlow, OneActorDraft

LEMMA ReturnFlow ==
    ASSUME Typing, Drafts, NEW a \in Actors,
           Return(a),
           \A b \in background' :
               b \in background \/ Holds(actor[a], b.id, b.copy)
    PROVE  VersionsFlow /\ Drafts'
  <1>1. /\ \A i \in Ids : \A r : ~Holds(Idle, i, r)
        /\ DraftOf(Idle)
    BY DEF Holds, Idle, DraftOf
  <1> QED
    BY <1>1, OneActorFlow, OneActorDraft DEF Return

LEMMA SaveNewFlow ==
    ASSUME Typing, Drafts, NEW a \in Actors,
           \/ \E k \in Ids : SaveNewStat(a, k)
           \/ \E out \in SaveResult : SaveNewWrite(a, out)
    PROVE  StepFlow
  <1>1. /\ actor[a] \in ActorState
        /\ ControlOf(actor[a], Existing)
        /\ DraftOf(actor[a])
        /\ now \in Ids
    BY ActorType DEF Typing, TypeOK, Drafts
  <1>2. ASSUME NEW k \in Ids, SaveNewStat(a, k), files[k] = None PROVE StepFlow
    <2> DEFINE st == [actor[a] EXCEPT !.pc = "write", !.id = k]
    <2>1. actor' = [actor EXCEPT ![a] = st] /\ UNCHANGED <<files, background>>
      BY <1>2 DEF SaveNewStat
    <2>2. DraftOf(st) /\ st.pc = "write" /\ st.id = k
          /\ st.copy = actor[a].copy
      BY <1>1, <1>2 DEF SaveNewStat, At, DraftOf, ActorState
    <2> HIDE DEF st
    <2>3. \A i \in Ids : \A r : Holds(st, i, r) => Source(i, r)
      BY <1>2, <2>1, <2>2 DEF Holds, Source, DraftOf
    <2> QED
      BY <2>1, <2>2, <2>3, OneActorFlow, OneActorDraft DEF StepFlow, FilesFlow
  <1>3. ASSUME NEW k \in Ids, SaveNewStat(a, k), files[k] # None PROVE StepFlow
    <2>1. UNCHANGED <<files, background>>
      BY <1>3 DEF SaveNewStat
    <2>2. CASE actor[a].tries + 1 < MaxAttempts
      <3> DEFINE st == [actor[a] EXCEPT !.pc = "backoff", !.id = now,
                                        !.tries = @ + 1]
      <3>1. actor' = [actor EXCEPT ![a] = st]
        BY <1>3, <2>2 DEF SaveNewStat
      <3>2. DraftOf(st) /\ \A i \in Ids : \A r : ~Holds(st, i, r)
        BY <1>1, <1>3 DEF SaveNewStat, At, DraftOf, ActorState, Holds
      <3> HIDE DEF st
      <3> QED
        BY <2>1, <3>1, <3>2, OneActorFlow, OneActorDraft DEF StepFlow, FilesFlow
    <2>3. CASE ~(actor[a].tries + 1 < MaxAttempts)
      BY <1>3, <2>1, <2>3, ReturnFlow DEF SaveNewStat, StepFlow, FilesFlow
    <2> QED
      BY <2>2, <2>3
  <1>4. ASSUME NEW out \in SaveResult, SaveNewWrite(a, out) PROVE StepFlow
    <2> DEFINE i == actor[a].id
               r == actor[a].copy
    <2>1. actor[a].pc = "write" /\ UNCHANGED background
      BY <1>4 DEF SaveNewWrite, At
    <2>2. i \in Ids /\ r \in Incident /\ IsNew(r)
      BY <1>1, <2>1 DEF ControlOf, HasCopy, Label, DraftOf
    <2>3. r \in InFlight(i)
      BY <2>1, InFlightHolds DEF Holds
    <2>4. FilesFlow
      BY <1>4, <2>2, <2>3 DEF SaveNewWrite, Save, FilesFlow
    <2>5. CASE out = "done"
      <3>1. PICK label \in {"enrich", "links"} : Goto(a, label)
        BY <1>4, <2>5 DEF SaveNewWrite, AfterCreate
      <3> QED
        BY <2>1, <2>4, <3>1, GotoFlow DEF StepFlow
    <2>6. CASE out # "done"
      BY <1>4, <2>1, <2>4, <2>6, ReturnFlow DEF SaveNewWrite, StepFlow
    <2> QED
      BY <2>5, <2>6
  <1> QED
    BY <1>2, <1>3, <1>4

LEMMA RetryCreateFlow ==
    ASSUME Typing, Drafts, NEW a \in Actors, RetryCreate(a)
    PROVE  StepFlow
  <1> DEFINE st == [actor[a] EXCEPT !.pc = "create", !.id = now]
  <1>1. actor[a] \in ActorState /\ DraftOf(actor[a])
    BY ActorType DEF Drafts
  <1>2. actor' = [actor EXCEPT ![a] = st] /\ UNCHANGED <<files, background>>
    BY DEF RetryCreate
  <1>3. DraftOf(st) /\ \A i \in Ids : \A r : ~Holds(st, i, r)
    BY <1>1 DEF RetryCreate, At, DraftOf, ActorState, Holds
  <1> HIDE DEF st
  <1> QED
    BY <1>2, <1>3, OneActorFlow, OneActorDraft DEF StepFlow, FilesFlow

LEMMA LoadFlow ==
    ASSUME Typing, Drafts, NEW a \in Actors,
           NoRunbook(a) \/ LoadForRunbook(a) \/ LoadForMetadata(a)
               \/ LoadActive(a)
    PROVE  StepFlow
  <1>1. UNCHANGED <<files, background>>
    BY DEF NoRunbook, LoadForRunbook, LoadForMetadata, LoadActive
  <1>2. actor[a] \in ActorState
    BY ActorType
  <1>3. files[actor[a].id] \in Incident /\ files[actor[a].id] # None
    BY ActorType, NoneIsNoIncident
    DEF NoRunbook, LoadForRunbook, LoadForMetadata, LoadActive, At, HasFile,
        Label
  <1>4. CASE NoRunbook(a)
    BY <1>1, <1>4, GotoFlow DEF NoRunbook, At, StepFlow, FilesFlow
  <1>5. CASE LoadForRunbook(a)
    <2> DEFINE q == files[actor[a].id]
               r == [q EXCEPT !.metadata = @ \cup {"runbook"}]
               st == [actor[a] EXCEPT !.pc = "runbookSave", !.side = r]
    <2>1. actor' = [actor EXCEPT ![a] = st]
      BY <1>5 DEF LoadForRunbook
    <2>2. Edited(q, r)
      <3>1. q.metadata \cup {"runbook"} \in SUBSET Tag
        BY <1>3 DEF Incident, Tag
      <3>2. r = [q EXCEPT !.metadata = q.metadata \cup {"runbook"}]
        BY <1>3 DEF Incident
      <3> QED
        BY <1>3, <3>1, <3>2, EditsAreEdited
    <2> HIDE DEF r
    <2>3. /\ DraftOf(st)
          /\ \A i \in Ids : \A v :
                Holds(st, i, v) => v \in InFlight(i) \/ Source(i, v)
      BY <1>2, <1>3, <1>5, <2>2, InFlightHolds
      DEF LoadForRunbook, At, DraftOf, ActorState, Holds, Source
    <2> HIDE DEF st
    <2> QED
      BY <1>1, <2>1, <2>3, OneActorFlow, OneActorDraft DEF StepFlow, FilesFlow
  <1>6. CASE LoadForMetadata(a) \/ LoadActive(a)
    <2>1. PICK r : /\ actor' = [actor EXCEPT ![a].pc = "save", ![a].copy = r]
                   /\ Edited(files[actor[a].id], r)
      <3>1. CASE LoadForMetadata(a)
        BY <1>3, <3>1, EditsAreEdited DEF LoadForMetadata, Tag
      <3>2. CASE LoadActive(a)
        BY <1>3, <3>2, EditsAreEdited DEF LoadActive, EventOf
      <3> QED
        BY <1>6, <3>1, <3>2
    <2> DEFINE st == [actor[a] EXCEPT !.pc = "save", !.copy = r]
    <2>2. actor' = [actor EXCEPT ![a] = st]
      BY <2>1
    <2>3. DraftOf(st) /\ \A i \in Ids : \A v : Holds(st, i, v) => Source(i, v)
      BY <1>2, <1>3, <2>1 DEF DraftOf, ActorState, Holds, Source
    <2> HIDE DEF st
    <2> QED
      BY <1>1, <2>2, <2>3, OneActorFlow, OneActorDraft DEF StepFlow, FilesFlow
  <1> QED
    BY <1>4, <1>5, <1>6

LEMMA RunbookFlow ==
    ASSUME Typing, Drafts, NEW a \in Actors, NEW out \in SaveResult,
           SaveRunbookSuggestion(a, out)
    PROVE  StepFlow
  <1> DEFINE st == [actor[a] EXCEPT !.pc = "logs", !.side = None]
  <1>1. actor[a] \in ActorState /\ actor[a].pc = "runbookSave"
    BY ActorType DEF SaveRunbookSuggestion, At
  <1>2. actor' = [actor EXCEPT ![a] = st] /\ UNCHANGED background
    BY DEF SaveRunbookSuggestion
  <1>3. DraftOf(st) /\ \A i \in Ids : \A r : Holds(st, i, r) => r \in InFlight(i)
    BY <1>1, InFlightHolds DEF DraftOf, ActorState, Holds
  <1> HIDE DEF st
  <1>4. FilesFlow
    BY <1>1, SaveFlow, SaveResultType DEF SaveRunbookSuggestion
  <1> QED
    BY <1>2, <1>3, <1>4, OneActorFlow, OneActorDraft DEF StepFlow

LEMMA SaveStepsFlow ==
    ASSUME Typing, Drafts, NEW a \in Actors, NEW out \in SaveResult,
           \/ SaveEnriched(a, out)
           \/ SaveLinks(a, out)
           \/ SaveWithLogs(a, out)
           \/ SaveViewLinks(a, out)
           \/ SaveViewEnriched(a, out)
           \/ SaveChange(a, out) /\ out = "done" /\ IsResolving(actor[a].call)
    PROVE  StepFlow
  <1>1. actor[a].pc \in HasFile \cap HasCopy
    BY DEF SaveEnriched, SaveLinks, SaveWithLogs, SaveViewLinks,
       SaveViewEnriched, SaveChange, At, HasFile, HasCopy, Label
  <1>2. PICK label \in {"links", "metadata", "runbook", "traces", "viewEnrich",
                        "viewSave", "finalSync"} :
           SaveAndGo(a, label, out)
    BY DEF SaveEnriched, SaveLinks, SaveWithLogs, SaveViewLinks,
       SaveViewEnriched, AfterLinks, AfterViewLinks, SaveChange, SaveAndGo
  <1>3. FilesFlow
    BY <1>1, <1>2, SaveFlow, SaveResultType DEF SaveAndGo
  <1> QED
    BY <1>1, <1>2, <1>3, GotoFlow
    DEF SaveAndGo, HasFile, HasCopy, StepFlow

LEMMA LastStepsFlow ==
    ASSUME Typing, Drafts, NEW a \in Actors, NEW out \in SaveResult,
           \/ SaveChange(a, out) /\ ~(out = "done" /\ IsResolving(actor[a].call))
           \/ PerformFinalSync(a, out)
           \/ FinishView(a, out)
           \/ FinishStart(a)
    PROVE  StepFlow
  <1>1. actor[a].pc \in HasFile \cap HasCopy /\ out \in Outcome
    BY SaveResultType
    DEF SaveChange, PerformFinalSync, FinishView, FinishStart, At, HasFile,
       HasCopy, Label
  <1>2. FilesFlow
    <2>1. Save(actor[a].id, actor[a].copy, out) \/ files' = files
      BY DEF SaveChange, PerformFinalSync, FinishView, FinishStart
    <2> QED
      BY <1>1, <2>1, SaveFlow DEF FilesFlow
  <1>3. Return(a)
    BY DEF SaveChange, PerformFinalSync, FinishView, FinishStart
  <1>4. ASSUME NEW b \in background'
        PROVE  b \in background \/ Holds(actor[a], b.id, b.copy)
    BY <1>1, <1>4 DEF SaveChange, PerformFinalSync, FinishView, FinishStart,
       Holds, HasFile, HasCopy
  <1> QED
    BY <1>2, <1>3, <1>4, ReturnFlow DEF StepFlow

LEMMA ContinueFlow ==
    ASSUME Typing, Drafts, NEW a \in Actors, Continue(a)
    PROVE  StepFlow
  <1>1. CASE FinishStart(a)
    <2>1. "done" \in SaveResult
      BY DEF SaveResult, Outcome
    <2> QED
      BY <1>1, <2>1, LastStepsFlow
  <1>2. ASSUME NEW out \in SaveResult, SaveChange(a, out) PROVE StepFlow
    BY <1>2, SaveStepsFlow, LastStepsFlow
  <1> QED
    BY <1>1, <1>2, SaveNewFlow, RetryCreateFlow, LoadFlow, RunbookFlow,
       SaveStepsFlow, LastStepsFlow DEF Continue

LEMMA BackgroundFlow ==
    ASSUME Typing, Drafts, Goroutines, FinishBackground
    PROVE  StepFlow
  <1>1. background' \subseteq background /\ UNCHANGED actor
    BY DEF FinishBackground, NoTraces, BackgroundSave
  <1>2. VersionsFlow
    BY <1>1, InFlightHolds, InFlightHoldsNext DEF VersionsFlow
  <1>3. Drafts'
    BY <1>1 DEF Drafts
  <1>4. FilesFlow
    <2>1. PICK b \in background :
             NoTraces(b) \/ \E out \in SaveResult : BackgroundSave(b, out)
      BY DEF FinishBackground
    <2>2. b.id \in Ids /\ b.copy \in Incident /\ b.copy \in InFlight(b.id)
      BY InFlightHolds DEF Typing, TypeOK, Pending
    <2>3. files[b.id] # None
      BY DEF Goroutines, Existing
    <2>4. files' = files \/ files' = [files EXCEPT ![b.id] = b.copy]
      BY <2>1 DEF NoTraces, BackgroundSave, Save
    <2> QED
      BY <2>2, <2>3, <2>4 DEF FilesFlow
  <1> QED
    BY <1>2, <1>3, <1>4 DEF StepFlow

LEMMA ExitFlow ==
    ASSUME Typing, Drafts, NEW p \in Procs, Exit(p)
    PROVE  StepFlow
  <1>1. /\ background' \subseteq background
        /\ UNCHANGED files
        /\ \A a \in Actors : actor'[a] \in {Idle, actor[a]}
    BY DEF Exit
  <1>2. DraftOf(Idle) /\ \A i, r : ~Holds(Idle, i, r)
    BY DEF DraftOf, Idle, Holds
  <1>3. VersionsFlow
    BY <1>1, <1>2, InFlightHolds, InFlightHoldsNext DEF VersionsFlow
  <1>4. Drafts'
    BY <1>1, <1>2 DEF Drafts
  <1> QED
    BY <1>1, <1>3, <1>4 DEF StepFlow, FilesFlow

LEMMA NextFlow ==
    ASSUME Typing, Drafts, Goroutines, [Next]_vars
    PROVE  StepFlow
  <1>1. ASSUME NEW a \in Actors, NewCall(a) PROVE StepFlow
    BY <1>1, CreateFlow, ChangeFlow, FindFlow DEF NewCall
  <1>2. ASSUME NEW a \in Actors, Continue(a) PROVE StepFlow
    BY <1>2, ContinueFlow
  <1>3. ASSUME NEW p \in Procs, Exit(p) PROVE StepFlow
    BY <1>3, ExitFlow
  <1>4. CASE Tick \/ UNCHANGED vars
    <2>1. UNCHANGED <<files, actor, background>>
      BY <1>4 DEF Tick, vars
    <2> QED
      BY <2>1, InFlightHolds, InFlightHoldsNext
      DEF StepFlow, VersionsFlow, FilesFlow, Drafts
  <1> QED
    BY <1>1, <1>2, <1>3, <1>4, BackgroundFlow DEF Next

\* A file is only ever replaced by a record.
LEMMA FilesStay ==
    ASSUME Typing, FilesFlow
    PROVE  Existing \subseteq Existing'
  BY NoneIsNoIncident DEF FilesFlow, Existing, Typing, TypeOK

LEMMA GoroutinesNext ==
    ASSUME Typing, Goroutines, FilesFlow, [Next]_vars
    PROVE  Goroutines'
  <1>1. ASSUME NEW b \in background' PROVE b \in background \/ b.id \in Existing
    <2>1. CASE background' \subseteq background
      BY <2>1
    <2>2. ASSUME NEW a \in Actors, NEW out \in SaveResult,
                 PerformFinalSync(a, out) \/ FinishStart(a)
          PROVE  b \in background \/ b.id \in Existing
      <3>1. actor[a].id \in Existing
        BY <2>2, ActorType
        DEF PerformFinalSync, FinishStart, At, ControlOf, HasFile, Label
      <3> QED
        BY <2>2, <3>1 DEF PerformFinalSync, FinishStart
    <2>3. ASSUME NEW a \in Actors, NewCall(a) PROVE UNCHANGED background
      BY <2>3 DEF NewCall, Start, StartForServiceFlow, Suggest, NoteByID,
         UpdateSeverityByID, Note, UpdateSeverity, Acknowledge,
         AcknowledgeByID, PromoteSuggested, Resolve, ResolveWithAnalysis,
         ResolveByID, ResolveByIDWithAnalysis, View, BeginTransition, Begin
    <2>4. ASSUME NEW a \in Actors, Continue(a)
          PROVE  \/ UNCHANGED background
                 \/ \E out \in SaveResult : PerformFinalSync(a, out)
                 \/ FinishStart(a)
      BY <2>4 DEF Continue, SaveNewStat, RetryCreate, NoRunbook,
         LoadForRunbook, LoadForMetadata, LoadActive, SaveNewWrite,
         SaveEnriched, SaveLinks, SaveRunbookSuggestion, SaveWithLogs,
         SaveChange, SaveViewLinks, SaveViewEnriched, FinishView, SaveAndGo
    <2>5. "done" \in SaveResult
      BY DEF SaveResult, Outcome
    <2>6. CASE FinishBackground
      BY <2>1, <2>6 DEF FinishBackground, NoTraces, BackgroundSave
    <2>7. ASSUME NEW p \in Procs, Exit(p) PROVE background' \subseteq background
      BY <2>7 DEF Exit
    <2>8. CASE Tick \/ UNCHANGED vars
      BY <2>1, <2>8 DEF Tick, vars
    <2> QED
      BY <2>1, <2>2, <2>3, <2>4, <2>5, <2>6, <2>7, <2>8 DEF Next
  <1> QED
    BY <1>1, FilesStay DEF Goroutines

(***************************************************************************)
(* The invariant of the flow of versions.                                  *)
(***************************************************************************)
Flow == Typing /\ Drafts /\ Goroutines

LEMMA FlowInit == Init => Flow
  BY TypingInit DEF Init, Flow, Drafts, DraftOf, Idle, Goroutines

LEMMA FlowNext == Flow /\ [Next]_vars => Flow' /\ StepFlow
  BY TypingNext, NextFlow, GoroutinesNext DEF Flow, StepFlow

-----------------------------------------------------------------------------
(* FilesConsistent. *)

\* An edit of a consistent record is consistent.
LEMMA EditedConsistent ==
    ASSUME NEW q, NEW r, q.events \in Seq(Event), Consistent(q), Edited(q, r)
    PROVE  Consistent(r)
  <1>1. CASE r.events = q.events /\ r.state = q.state
    BY <1>1 DEF Consistent
  <1>2. ASSUME NEW e \in Event,
               r.events = Append(q.events, e),
               e.type \in {"note", "severity"},
               r.state = q.state
        PROVE  Consistent(r)
    BY <1>2, AnnotationKeepsHistory DEF Consistent
  <1>3. ASSUME NEW e \in Event,
               r.events = Append(q.events, e),
               ValidateTransition(q.state, r.state),
               e.type = EventFor(r.state)
        PROVE  Consistent(r)
    BY <1>3, TransitionKeepsHistory DEF Consistent
  <1> QED
    BY <1>1, <1>2, <1>3 DEF Edited

\* Files and the versions in flight are consistent.
Histories ==
    /\ FilesConsistent
    /\ \A i \in Ids : \A r \in InFlight(i) : Consistent(r)

LEMMA HistoriesInit == Init => Histories
  <1> SUFFICES ASSUME Init PROVE Histories
    OBVIOUS
  <1>1. FilesConsistent
    BY DEF Init, FilesConsistent, Existing
  <1>2. \A i \in Ids : \A r : r \notin InFlight(i)
    BY InFlightHolds DEF Init, Holds, Idle
  <1> QED
    BY <1>1, <1>2 DEF Histories

LEMMA HistoriesNext == Flow /\ Histories /\ [Next]_vars => Histories'
  <1> SUFFICES ASSUME Flow, Histories, [Next]_vars PROVE Histories'
    OBVIOUS
  <1>1. VersionsFlow /\ FilesFlow
    BY FlowNext DEF StepFlow
  <1>2. ASSUME NEW i \in Existing PROVE files[i].events \in Seq(Event)
    BY DEF Flow, Typing, TypeOK, Existing, Incident
  <1>3. FilesConsistent'
    BY <1>1 DEF FilesFlow, Histories, FilesConsistent, Existing, Flow, Typing,
       TypeOK
  <1>4. ASSUME NEW i \in Ids, NEW r \in InFlight(i)' PROVE Consistent(r)
    <2>1. CASE r \in InFlight(i)
      BY <2>1 DEF Histories
    <2>2. CASE files[i] # None /\ Edited(files[i], r)
      BY <1>2, <2>2, EditedConsistent DEF Histories, FilesConsistent, Existing
    <2>3. CASE IsNew(r)
      BY <2>3 DEF IsNew
    <2> QED
      BY <1>1, <2>1, <2>2, <2>3 DEF VersionsFlow, Source
  <1> QED
    BY <1>3, <1>4 DEF Histories

(***************************************************************************)
(* Whatever the interleaving, the number of processes, the saves that fail *)
(* and the processes that end: every incident file tells a legal life and  *)
(* its state is the one this life leads to.                                *)
(***************************************************************************)
THEOREM HistoryCorrect == Spec => []FilesConsistent
  <1>1. Init => Flow /\ Histories
    BY FlowInit, HistoriesInit
  <1>2. Flow /\ Histories /\ [Next]_vars => (Flow /\ Histories)'
    BY FlowNext, HistoriesNext
  <1>3. Histories => FilesConsistent
    BY DEF Histories
  <1> QED
    BY <1>1, <1>2, <1>3, PTL DEF Spec

-----------------------------------------------------------------------------
(* SettledIsFinal. *)

\* No edit takes a resolved record out of its state.
LEMMA EditedResolved ==
    ASSUME NEW q, NEW r, IsResolved(q), Edited(q, r)
    PROVE  IsResolved(r)
  BY DEF Edited, IsResolved, ValidateTransition

LEMMA SettledNext ==
    ASSUME Flow, [Next]_vars, NEW i \in Ids, Settled(i)
    PROVE  Settled(i)'
  <1>1. VersionsFlow /\ FilesFlow /\ Existing \subseteq Existing'
    BY FlowNext, FilesStay DEF StepFlow, Flow
  <1>2. files[i] # None /\ IsResolved(files[i])
    BY DEF Settled
  <1>3. files'[i] # None
    BY <1>1, <1>2 DEF Existing
  <1>4. IsResolved(files'[i])
    BY <1>1, <1>2 DEF FilesFlow, Settled, Flow, Typing, TypeOK
  <1>5. ASSUME NEW r \in InFlight(i)' PROVE IsResolved(r)
    BY <1>1, <1>2, EditedResolved DEF VersionsFlow, Source, Settled
  <1> QED
    BY <1>3, <1>4, <1>5 DEF Settled

(***************************************************************************)
(* An incident that is resolved in its file and in every version still in  *)
(* flight stays resolved for ever: only a save of a copy loaded before the *)
(* resolution can undo it.                                                 *)
(***************************************************************************)
THEOREM SettledCorrect == Spec => SettledIsFinal
  <1>1. Flow /\ [Next]_vars => [\A i \in Ids : Settled(i) => Settled(i)']_vars
    BY SettledNext
  <1> QED
    BY <1>1, FlowInit, FlowNext, PTL DEF Spec, SettledIsFinal

-----------------------------------------------------------------------------
(* IdentityKept. *)

\* storeMu: an actor between SaveNew's look and its write holds the lock.
Locked == \A a \in Actors : At(a, "write") => holder[ProcOf[a]] = a

LEMMA LockedInit == Init => Locked
  BY DEF Init, Locked, At, Idle

\* Only SaveNew's look brings an actor to its write.
LEMMA OthersDoNotWrite ==
    ASSUME Typing, NEW a \in Actors, NewCall(a) \/ Continue(a),
           \A k \in Ids : ~SaveNewStat(a, k),
           \A out \in SaveResult : ~SaveNewWrite(a, out)
    PROVE  /\ UNCHANGED holder
           /\ \A b \in Actors : At(b, "write")' => At(b, "write")
  <1>1. CASE NewCall(a)
    <2>1. ASSUME NEW c, NEW label, NEW i, NEW r, Begin(a, c, label, i, r),
                 label # "write"
          PROVE  /\ UNCHANGED holder
                 /\ \A b \in Actors : At(b, "write")' => At(b, "write")
      BY <2>1 DEF Begin, At, Typing, TypeOK, Idle
    <2>2. CASE \E s \in Services :
                  Start(a, s) \/ StartForServiceFlow(a, s) \/ Suggest(a, s)
      BY <2>1, <2>2 DEF Start, StartForServiceFlow, Suggest
    <2>3. ASSUME NEW i \in Existing,
                 \/ NoteByID(a, i)
                 \/ UpdateSeverityByID(a, i)
                 \/ Note(a, i)
                 \/ UpdateSeverity(a, i)
                 \/ \E label \in Label : View(a, i, label)
          PROVE  /\ UNCHANGED holder
                 /\ \A b \in Actors : At(b, "write")' => At(b, "write")
      BY <2>1, <2>3 DEF NoteByID, UpdateSeverityByID, Note, UpdateSeverity, View,
         AfterViewLinks
    <2>4. ASSUME NEW i \in Existing,
                 \/ Acknowledge(a, i)
                 \/ AcknowledgeByID(a, i)
                 \/ PromoteSuggested(a, i)
                 \/ Resolve(a, i)
                 \/ ResolveWithAnalysis(a, i)
                 \/ ResolveByID(a, i)
                 \/ ResolveByIDWithAnalysis(a, i)
          PROVE  /\ UNCHANGED holder
                 /\ \A b \in Actors : At(b, "write")' => At(b, "write")
      BY <2>1, <2>4 DEF Acknowledge, AcknowledgeByID, PromoteSuggested, Resolve,
         ResolveWithAnalysis, ResolveByID, ResolveByIDWithAnalysis,
         BeginTransition
    <2> QED
      BY <1>1, <2>2, <2>3, <2>4 DEF NewCall
  <1>2. CASE Continue(a)
    <2>1. UNCHANGED holder
      BY <1>2 DEF Continue, RetryCreate, NoRunbook, LoadForRunbook,
         FinishStart, LoadForMetadata, LoadActive, SaveEnriched, SaveLinks,
         SaveRunbookSuggestion, SaveWithLogs, SaveChange, PerformFinalSync,
         SaveViewLinks, SaveViewEnriched, FinishView, SaveAndGo
    <2>2. actor'[a].pc # "write"
      <3>1. CASE \E label \in Label \ {"write"} : Goto(a, label)
        BY <3>1 DEF Goto, Typing, TypeOK, ActorState
      <3>2. CASE Return(a)
        BY <3>2 DEF Return, Idle, Typing, TypeOK
      <3>3. CASE \/ LoadForRunbook(a)
                 \/ LoadForMetadata(a)
                 \/ LoadActive(a)
                 \/ \E out \in SaveResult : SaveRunbookSuggestion(a, out)
        BY <3>3 DEF LoadForRunbook, LoadForMetadata, LoadActive,
           SaveRunbookSuggestion, Typing, TypeOK, ActorState
      <3>4. CASE RetryCreate(a) \/ NoRunbook(a)
        BY <3>1, <3>4 DEF RetryCreate, NoRunbook, Label, Typing, TypeOK,
           ActorState
      <3>5. CASE \E label \in Label \ {"write"}, out \in SaveResult :
                    SaveAndGo(a, label, out)
        BY <3>1, <3>5 DEF SaveAndGo
      <3>6. ASSUME NEW out \in SaveResult,
                   \/ SaveEnriched(a, out)
                   \/ SaveLinks(a, out)
                   \/ SaveWithLogs(a, out)
                   \/ SaveViewLinks(a, out)
                   \/ SaveViewEnriched(a, out)
            PROVE  actor'[a].pc # "write"
        BY <3>5, <3>6 DEF SaveEnriched, SaveLinks, SaveWithLogs, SaveViewLinks,
           SaveViewEnriched, AfterLinks, AfterViewLinks, Label
      <3>7. ASSUME NEW out \in SaveResult,
                   \/ SaveChange(a, out)
                   \/ PerformFinalSync(a, out)
                   \/ FinishView(a, out)
                   \/ FinishStart(a)
            PROVE  actor'[a].pc # "write"
        BY <3>1, <3>2, <3>7
        DEF SaveChange, PerformFinalSync, FinishView, FinishStart, Label
      <3>8. "done" \in SaveResult
        BY DEF SaveResult, Outcome
      <3> QED
        BY <1>2, <3>3, <3>4, <3>6, <3>7, <3>8 DEF Continue
    <2>3. \A b \in Actors \ {a} : actor'[b] = actor[b]
      BY <1>2 DEF Continue, RetryCreate, NoRunbook, LoadForRunbook,
         FinishStart, LoadForMetadata, LoadActive, SaveEnriched, SaveLinks,
         SaveRunbookSuggestion, SaveWithLogs, SaveChange, PerformFinalSync,
         SaveViewLinks, SaveViewEnriched, FinishView, SaveAndGo, Goto, Return,
         Typing, TypeOK
    <2> QED
      BY <2>1, <2>2, <2>3 DEF At
  <1> QED
    BY <1>1, <1>2

LEMMA LockedNext == Typing /\ Locked /\ [Next]_vars => Locked'
  <1> SUFFICES ASSUME Typing, Locked, [Next]_vars,
                      NEW b \in Actors, At(b, "write")'
               PROVE  holder'[ProcOf[b]] = b
    BY DEF Locked, At
  <1>1. \A a \in Actors : ProcOf[a] \in Procs /\ a # None
    BY ConstantsAssumption
  <1>2. ASSUME NEW a \in Actors, NEW k \in Ids, SaveNewStat(a, k)
        PROVE  holder'[ProcOf[b]] = b
    <2>1. CASE b = a
      BY <1>1, <1>2, <2>1
      DEF SaveNewStat, At, Return, Idle, Typing, TypeOK, ActorState
    <2>2. CASE b # a
      <3>1. At(b, "write")
        BY <1>2, <2>2 DEF SaveNewStat, At, Return, Typing, TypeOK
      <3>2. holder[ProcOf[b]] = b /\ ProcOf[b] # ProcOf[a]
        BY <1>1, <1>2, <3>1 DEF Locked, SaveNewStat, Unlocked
      <3> QED
        BY <1>1, <1>2, <3>2 DEF SaveNewStat, Typing, TypeOK
    <2> QED
      BY <2>1, <2>2
  <1>3. ASSUME NEW a \in Actors, NEW out \in SaveResult, SaveNewWrite(a, out)
        PROVE  holder'[ProcOf[b]] = b
    <2>1. b # a
      BY <1>3 DEF SaveNewWrite, At, Goto, Return, Idle, AfterCreate, Typing,
         TypeOK, ActorState
    <2>2. At(b, "write")
      BY <1>3, <2>1 DEF SaveNewWrite, At, Goto, Return, Typing, TypeOK
    <2>3. holder[ProcOf[b]] = b /\ holder[ProcOf[a]] = a
      BY <1>3, <2>2 DEF Locked, SaveNewWrite
    <2> QED
      BY <1>1, <1>3, <2>1, <2>3 DEF SaveNewWrite, Typing, TypeOK
  <1>4. ASSUME NEW a \in Actors, NewCall(a) \/ Continue(a),
               \A k \in Ids : ~SaveNewStat(a, k),
               \A out \in SaveResult : ~SaveNewWrite(a, out)
        PROVE  holder'[ProcOf[b]] = b
    BY <1>4, OthersDoNotWrite DEF Locked
  <1>5. CASE FinishBackground \/ Tick \/ UNCHANGED vars
    BY <1>5 DEF FinishBackground, NoTraces, BackgroundSave, Tick, vars, Locked,
       At
  <1>6. ASSUME NEW p \in Procs, Exit(p) PROVE holder'[ProcOf[b]] = b
    <2>1. ProcOf[b] # p /\ At(b, "write")
      BY <1>6 DEF Exit, At, Idle
    <2> QED
      BY <1>1, <1>6, <2>1 DEF Exit, Locked, Typing, TypeOK
  <1> QED
    BY <1>2, <1>3, <1>4, <1>5, <1>6 DEF Next

SingleProcess == \A a, b \in Actors : ProcOf[a] = ProcOf[b]

\* While an incident has no file, one version of it at most is in flight: in
\* a single process the holder of storeMu is its only writer.
LEMMA OneDraft ==
    ASSUME SingleProcess, Flow, Locked, NEW i \in Ids, files[i] = None,
           NEW r \in InFlight(i), NEW q \in InFlight(i)
    PROVE  r = q
  <1>1. ASSUME NEW v \in InFlight(i)
        PROVE  \E a \in Actors : At(a, "write") /\ v = actor[a].copy
    <2>1. ~ \E b \in background : b.id = i
      BY DEF Flow, Goroutines, Existing
    <2>2. PICK a \in Actors : Holds(actor[a], i, v)
      BY <2>1, InFlightHolds
    <2>3. actor[a] \in ActorState /\ ControlOf(actor[a], Existing)
      BY ActorType DEF Flow
    <2>4. actor[a].pc = "write"
      BY <2>2, <2>3 DEF Holds, ActorState, ControlOf, HasFile, Existing
    <2> QED
      BY <2>2, <2>4 DEF Holds, At
  <1>2. \A a, b \in Actors : At(a, "write") /\ At(b, "write") => a = b
    BY DEF SingleProcess, Locked
  <1> QED
    BY <1>1, <1>2

\* Every version in flight is a version of the incident in the file.
Versions ==
    \A i \in Existing : \A r \in InFlight(i) : SameIncident(r, files[i])

LEMMA EditedSame ==
    ASSUME NEW q, NEW r, q.events \in Seq(Event), Consistent(q), Edited(q, r)
    PROVE  SameIncident(r, q)
  <1>1. Len(q.events) >= 1
    BY DEF Consistent, LegalHistory, OpensOnce
  <1>2. \A e \in Event : Append(q.events, e)[1] = q.events[1]
    BY <1>1
  <1> QED
    BY <1>2 DEF Edited, SameIncident

LEMMA VersionsNext ==
    ASSUME SingleProcess, Flow, Locked, Histories, Versions, [Next]_vars
    PROVE  /\ Versions'
           /\ \A i \in Existing : SameIncident(files[i], files'[i])
  <1>1. VersionsFlow /\ FilesFlow /\ Existing \subseteq Existing'
    BY FlowNext, FilesStay DEF StepFlow, Flow
  <1>2. ASSUME NEW i \in Existing PROVE SameIncident(files'[i], files[i])
    BY <1>1, <1>2
    DEF FilesFlow, Versions, SameIncident, Existing, Flow, Typing, TypeOK
  <1>3. ASSUME NEW i \in Existing, NEW r \in InFlight(i)'
        PROVE  SameIncident(r, files[i])
    <2>1. files[i] # None /\ i \in Ids
      BY DEF Existing
    <2>2. CASE r \in InFlight(i)
      BY <2>2 DEF Versions
    <2>3. CASE Edited(files[i], r)
      <3>1. files[i].events \in Seq(Event) /\ Consistent(files[i])
        BY <2>1 DEF Flow, Typing, TypeOK, Incident, Histories, FilesConsistent
      <3> QED
        BY <2>3, <3>1, EditedSame
    <2> QED
      BY <1>1, <1>3, <2>1, <2>2, <2>3 DEF VersionsFlow, Source
  <1>4. ASSUME NEW i \in Ids, files[i] = None, files'[i] # None,
               NEW r \in InFlight(i)'
        PROVE  SameIncident(r, files'[i])
    <2>1. files'[i] \in InFlight(i)
      BY <1>1, <1>4 DEF FilesFlow, Flow, Typing, TypeOK
    <2>2. r \in InFlight(i)
      BY <1>1, <1>4 DEF VersionsFlow, Source
    <2>3. r = files'[i]
      BY <1>4, <2>1, <2>2, OneDraft
    <2> QED
      BY <2>3 DEF SameIncident
  <1>5. ASSUME NEW i \in Existing', NEW r \in InFlight(i)'
        PROVE  SameIncident(r, files'[i])
    <2>1. i \in Ids /\ files'[i] # None
      BY DEF Existing
    <2>2. CASE i \in Existing
      BY <1>2, <1>3, <1>5, <2>2 DEF SameIncident
    <2>3. CASE i \notin Existing
      BY <1>4, <1>5, <2>1, <2>3 DEF Existing
    <2> QED
      BY <2>2, <2>3
  <1>6. Versions'
    BY <1>5 DEF Versions
  <1>7. \A i \in Existing : SameIncident(files[i], files'[i])
    BY <1>2 DEF SameIncident
  <1> QED
    BY <1>6, <1>7

\* The invariant of one process.
Registered == Flow /\ Locked /\ Histories /\ Versions

LEMMA RegisteredInit == Init => Registered
  <1>1. Init => Versions
    BY DEF Init, Versions, Existing
  <1> QED
    BY <1>1, FlowInit, LockedInit, HistoriesInit DEF Registered

LEMMA RegisteredNext ==
    ASSUME SingleProcess
    PROVE  Registered /\ [Next]_vars => Registered'
  BY FlowNext, LockedNext, HistoriesNext, VersionsNext DEF Registered, Flow

(***************************************************************************)
(* In one process, an incident that has a file keeps it: every later       *)
(* version in the file is a version of the same incident.                  *)
(***************************************************************************)
THEOREM IdentityCorrect ==
    ASSUME SingleProcess
    PROVE  Spec => IdentityKept
  <1>1. Registered /\ [Next]_vars =>
           [\A i \in Existing :
               files'[i] # None /\ SameIncident(files[i], files'[i])]_files
    <2> SUFFICES ASSUME Registered, [Next]_vars, NEW i \in Existing
                 PROVE  files'[i] # None /\ SameIncident(files[i], files'[i])
      OBVIOUS
    <2>1. Existing \subseteq Existing'
      BY FlowNext, FilesStay DEF Registered, StepFlow, Flow
    <2>2. SameIncident(files[i], files'[i])
      BY VersionsNext DEF Registered
    <2> QED
      BY <2>1, <2>2 DEF Existing
  <1>2. Registered /\ [Next]_vars => Registered'
    BY RegisteredNext
  <1> QED
    BY <1>1, <1>2, RegisteredInit, PTL DEF Spec, IdentityKept

-----------------------------------------------------------------------------
(* The refinement of the registry. *)

\* The registry speaks of records with the operators of IncidentRecord.
LEMMA RegistryOperators ==
    /\ \A r : Registry!Consistent(r) <=> Consistent(r)
    /\ \A r, q : Registry!SameIncident(r, q) <=> SameIncident(r, q)
  BY DEF Consistent, LegalHistory, OpensOnce, AtMostOnce, ClosedAfterResolve,
     AckAfterStart, StateAfter, Has, SameIncident, Registry!Consistent,
     Registry!LegalHistory, Registry!OpensOnce, Registry!AtMostOnce,
     Registry!ClosedAfterResolve, Registry!AckAfterStart, Registry!StateAfter,
     Registry!Has, Registry!SameIncident

LEMMA RegistryStep ==
    ASSUME SingleProcess, Registered, [Next]_vars
    PROVE  [Registry!Next]_files
  <1>1. Flow /\ Histories /\ FilesFlow
    BY FlowNext DEF Registered, StepFlow
  <1>2. CASE files' = files
    BY <1>2
  <1>3. ASSUME NEW i \in Ids, NEW r \in Incident,
               files' = [files EXCEPT ![i] = r],
               r \in InFlight(i),
               files[i] = None => IsNew(r)
        PROVE  Registry!Next
    <2>1. files'[i] = r /\ r # None
      BY <1>1, <1>3, NoneIsNoIncident DEF Flow, Typing, TypeOK
    <2>2. Consistent(r)
      BY <1>1, <1>3 DEF Histories
    <2>3. CASE files[i] = None
      BY <1>3, <2>1, <2>2, <2>3, RegistryOperators
      DEF IsNew, Registry!Next, Registry!Register
    <2>4. CASE files[i] # None
      <3>1. SameIncident(files[i], r)
        BY <1>3, <2>1, <2>4, VersionsNext DEF Registered, Existing
      <3> QED
        BY <1>3, <2>1, <2>2, <2>4, <3>1, RegistryOperators
        DEF Registry!Next, Registry!Replace
    <2> QED
      BY <2>3, <2>4
  <1> QED
    BY <1>1, <1>2, <1>3 DEF FilesFlow

(***************************************************************************)
(* Every behaviour of the operations of one process is one of the abstract *)
(* registry.                                                               *)
(***************************************************************************)
THEOREM RegistryImplemented ==
    ASSUME SingleProcess
    PROVE  Spec => ImplementsRegistry
  <1>1. Init => Registry!Init
    BY DEF Init, Registry!Init
  <1>2. Registered /\ [Next]_vars => [Registry!Next]_files
    BY RegistryStep
  <1>3. Registered /\ [Next]_vars => Registered'
    BY RegisteredNext
  <1> QED
    BY <1>1, <1>2, <1>3, RegisteredInit, PTL
    DEF Spec, ImplementsRegistry, Registry!Spec

-----------------------------------------------------------------------------
(***************************************************************************)
(* The refinement of the journal, with one caller at a time.               *)
(*                                                                         *)
(* A save replaces the file by the version it has, not by the event it     *)
(* adds.  So every version in flight has to be a step of the journal away  *)
(* from the file, and has to stay so when another version is saved first:  *)
(* the versions that are in flight together say the same.                  *)
(***************************************************************************)
SameJournal(q, r) ==
    q.service = r.service /\ q.events = r.events /\ q.state = r.state

\* One actor is busy, or one goroutine is left behind.
Serial ==
    /\ \A a, b \in Actors : ~At(a, "idle") /\ ~At(b, "idle") => a = b
    /\ \A a \in Actors : ~At(a, "idle") => background = {}
    /\ \A b, c \in background : b = c

\* Start has another copy than SaveRunbookSuggestion; neither adds an event.
FreshOf(st, f) ==
    /\ st.pc \in {"enrich", "links", "runbook", "runbookSave"}
           => SameJournal(st.copy, f[st.id])
    /\ st.pc = "runbookSave" => SameJournal(st.side, f[st.id])

Fresh == \A a \in Actors : FreshOf(actor[a], files)

Ahead == \A i \in Existing : \A r \in InFlight(i) : Edited(files[i], r)

Recorded == Flow /\ Serial /\ Fresh /\ Ahead

LEMMA RecordedInit == Init => Recorded
  <1> SUFFICES ASSUME Init PROVE Recorded
    OBVIOUS
  <1>1. /\ \A a \in Actors : actor[a] = Idle
        /\ background = {} /\ Existing = {}
    BY DEF Init, Existing
  <1> QED
    BY <1>1, FlowInit DEF Recorded, Serial, At, Idle, Fresh, FreshOf, Ahead

LEMMA SerialIsNext == [SerialNext]_vars => [Next]_vars
  BY DEF SerialNext, Next

\* Versions that are in flight together say the same.
LEMMA AlikeInFlight ==
    ASSUME Serial, Fresh, NEW i \in Ids, NEW q \in InFlight(i), NEW r \in InFlight(i)
    PROVE  SameJournal(q, r)
  <1>1. ASSUME NEW a \in Actors, Holds(actor[a], i, q) PROVE SameJournal(q, r)
    <2>1. ~At(a, "idle")
      BY <1>1 DEF Holds, At
    <2>2. Holds(actor[a], i, r)
      BY <2>1, InFlightHolds DEF Serial, Holds, At
    <2>3. FreshOf(actor[a], files)
      BY DEF Fresh
    <2> QED
      BY <1>1, <2>2, <2>3 DEF Holds, FreshOf, SameJournal
  <1>2. ASSUME NEW b \in background, q = b.copy PROVE SameJournal(q, r)
    <2>1. ~ \E a \in Actors : Holds(actor[a], i, r)
      BY <1>2 DEF Serial, Holds, At
    <2>2. \E c \in background : r = c.copy
      BY <2>1, InFlightHolds
    <2> QED
      BY <1>2, <2>2 DEF Serial, SameJournal
  <1> QED
    BY <1>1, <1>2, InFlightHolds

-----------------------------------------------------------------------------
(***************************************************************************)
(* What a step of the busy actor does: it goes to the state st, a step     *)
(* that writes a file has no version it did not have, and a goroutine is   *)
(* left behind with the actor's own copy when the operation returns.       *)
(***************************************************************************)
Keeps(st, a) == \A i \in Ids : \A r : Holds(st, i, r) => Holds(actor[a], i, r)

Moves(a, st) ==
    /\ ~At(a, "idle")
    /\ actor' = [actor EXCEPT ![a] = st]
    /\ FreshOf(st, files')
    /\ files' = files \/ Keeps(st, a)
    /\ \/ background' = background
       \/ /\ st.pc = "idle"
          /\ \E b : /\ background' = background \cup {b}
                    /\ Holds(actor[a], b.id, b.copy)

LEMMA IdleMoves ==
    ASSUME NEW a \in Actors, ~At(a, "idle"), Return(a),
           \/ UNCHANGED background
           \/ \E b : /\ background' = background \cup {b}
                     /\ Holds(actor[a], b.id, b.copy)
    PROVE  Moves(a, Idle)
  BY DEF Moves, Return, Idle, FreshOf, Keeps, Holds

LEMMA GotoMoves ==
    ASSUME Typing, NEW a \in Actors, NEW label,
           label \notin {"idle", "runbookSave"},
           actor[a].pc \notin {"idle", "create", "backoff", "load"},
           Goto(a, label), UNCHANGED background,
           label \in {"enrich", "links", "runbook"}
               => SameJournal(actor[a].copy, files'[actor[a].id])
    PROVE  \E st : Moves(a, st)
  <1> DEFINE st == [actor[a] EXCEPT !.pc = label]
  <1>1. actor' = [actor EXCEPT ![a] = st] /\ actor[a] \in ActorState
    BY ActorType DEF Goto
  <1>2. st.pc = label /\ st.id = actor[a].id /\ st.copy = actor[a].copy
    BY <1>1 DEF ActorState
  <1> HIDE DEF st
  <1>3. FreshOf(st, files') /\ Keeps(st, a)
    BY <1>2 DEF FreshOf, Keeps, Holds
  <1>4. ~At(a, "idle")
    BY DEF At
  <1> QED
    BY <1>1, <1>3, <1>4 DEF Moves

LEMMA SaveNewMoves ==
    ASSUME Typing, NEW a \in Actors,
           \/ \E k \in Ids : SaveNewStat(a, k)
           \/ \E out \in SaveResult : SaveNewWrite(a, out)
           \/ RetryCreate(a)
    PROVE  \E st : Moves(a, st)
  <1>1. /\ actor[a] \in ActorState /\ ControlOf(actor[a], Existing)
        /\ files \in [Ids -> Incident \cup {None}]
    BY ActorType DEF Typing, TypeOK
  <1>2. ASSUME NEW k \in Ids, SaveNewStat(a, k) PROVE \E st : Moves(a, st)
    <2>1. ~At(a, "idle") /\ UNCHANGED <<files, background>>
      BY <1>2 DEF SaveNewStat, At
    <2>2. CASE Return(a)
      BY <2>1, <2>2, IdleMoves
    <2>3. CASE actor' = [actor EXCEPT ![a].pc = "write", ![a].id = k]
      <3> DEFINE st == [actor[a] EXCEPT !.pc = "write", !.id = k]
      <3>1. actor' = [actor EXCEPT ![a] = st]
        BY <2>3
      <3>2. FreshOf(st, files')
        BY <1>1 DEF ActorState, FreshOf
      <3> QED
        BY <2>1, <3>1, <3>2 DEF Moves
    <2>4. CASE actor' = [actor EXCEPT ![a].pc = "backoff", ![a].id = now,
                                      ![a].tries = @ + 1]
      <3> DEFINE st == [actor[a] EXCEPT !.pc = "backoff", !.id = now,
                                        !.tries = @ + 1]
      <3>1. actor' = [actor EXCEPT ![a] = st]
        BY <2>4
      <3>2. FreshOf(st, files')
        BY <1>1 DEF ActorState, FreshOf
      <3> QED
        BY <2>1, <3>1, <3>2 DEF Moves
    <2> QED
      BY <1>2, <2>2, <2>3, <2>4 DEF SaveNewStat
  <1>3. ASSUME NEW out \in SaveResult, SaveNewWrite(a, out) PROVE \E st : Moves(a, st)
    <2>1. /\ actor[a].pc = "write" /\ UNCHANGED background
          /\ ~At(a, "idle") /\ actor[a].id \in Ids
      BY <1>1, <1>3 DEF SaveNewWrite, At, ControlOf
    <2>2. CASE out = "done"
      <3>1. PICK label \in {"enrich", "links"} : Goto(a, label)
        BY <1>3, <2>2 DEF SaveNewWrite, AfterCreate
      <3>2. files'[actor[a].id] = actor[a].copy
        BY <1>1, <1>3, <2>1, <2>2 DEF SaveNewWrite, Save
      <3> QED
        BY <2>1, <3>1, <3>2, GotoMoves DEF SameJournal
    <2>3. CASE Return(a)
      BY <2>1, <2>3, IdleMoves
    <2> QED
      BY <1>3, <2>2, <2>3 DEF SaveNewWrite
  <1>4. CASE RetryCreate(a)
    <2> DEFINE st == [actor[a] EXCEPT !.pc = "create", !.id = now]
    <2>1. /\ ~At(a, "idle") /\ UNCHANGED <<files, background>>
          /\ actor' = [actor EXCEPT ![a] = st]
      BY <1>4 DEF RetryCreate, At
    <2>2. FreshOf(st, files')
      BY <1>1 DEF ActorState, FreshOf
    <2> QED
      BY <2>1, <2>2 DEF Moves
  <1> QED
    BY <1>2, <1>3, <1>4

\* A save on the way leaves a file that says what the copy says.
LEMMA SaveStepsMoves ==
    ASSUME Typing, Fresh, NEW a \in Actors, NEW out \in SaveResult,
           \/ SaveEnriched(a, out)
           \/ SaveLinks(a, out)
           \/ SaveWithLogs(a, out)
           \/ SaveViewLinks(a, out)
           \/ SaveViewEnriched(a, out)
    PROVE  \E st : Moves(a, st)
  <1>1. /\ actor[a] \in ActorState /\ ControlOf(actor[a], Existing)
        /\ files \in [Ids -> Incident \cup {None}]
        /\ FreshOf(actor[a], files)
    BY ActorType DEF Typing, TypeOK, Fresh
  <1>2. actor[a].pc \in {"enrich", "links", "logs", "viewLinks", "viewEnrich"}
    BY DEF SaveEnriched, SaveLinks, SaveWithLogs, SaveViewLinks, SaveViewEnriched, At
  <1>3. PICK label \in {"links", "metadata", "runbook", "traces", "viewEnrich", "viewSave"} :
           /\ SaveAndGo(a, label, out)
           /\ label \in {"links", "runbook"} => actor[a].pc \in {"enrich", "links"}
    BY DEF SaveEnriched, SaveLinks, SaveWithLogs, SaveViewLinks,
       SaveViewEnriched, AfterLinks, AfterViewLinks, At
  <1>4. actor[a].id \in Ids
    BY <1>1, <1>2 DEF ControlOf, HasFile, Label, Existing
  <1>5. files'[actor[a].id] \in {files[actor[a].id], actor[a].copy}
    BY <1>1, <1>3, <1>4 DEF SaveAndGo, Save
  <1>6. label \in {"enrich", "links", "runbook"}
            => SameJournal(actor[a].copy, files'[actor[a].id])
    BY <1>1, <1>3, <1>5 DEF FreshOf, SameJournal
  <1> QED
    BY <1>2, <1>3, <1>6, GotoMoves DEF SaveAndGo

LEMMA LoadMoves ==
    ASSUME Typing, Fresh, NEW a \in Actors,
           NoRunbook(a) \/ LoadForRunbook(a) \/ LoadForMetadata(a)
               \/ LoadActive(a)
    PROVE  \E st : Moves(a, st)
  <1>1. /\ actor[a] \in ActorState /\ FreshOf(actor[a], files)
        /\ ~At(a, "idle") /\ UNCHANGED <<files, background>>
    BY ActorType
    DEF NoRunbook, LoadForRunbook, LoadForMetadata, LoadActive, At, Fresh
  <1>2. ASSUME NEW st, actor' = [actor EXCEPT ![a] = st], FreshOf(st, files)
        PROVE  Moves(a, st)
    BY <1>1, <1>2 DEF Moves
  <1>3. CASE NoRunbook(a)
    <2> DEFINE st == [actor[a] EXCEPT !.pc = "logs"]
    <2>1. actor' = [actor EXCEPT ![a] = st] /\ FreshOf(st, files)
      BY <1>1, <1>3 DEF NoRunbook, Goto, ActorState, FreshOf
    <2> QED
      BY <1>2, <2>1
  <1>4. CASE LoadForRunbook(a)
    <2> DEFINE r == [files[actor[a].id] EXCEPT !.metadata = @ \cup {"runbook"}]
               st == [actor[a] EXCEPT !.pc = "runbookSave", !.side = r]
    <2>1. actor' = [actor EXCEPT ![a] = st]
      BY <1>4 DEF LoadForRunbook
    <2>2. files[actor[a].id] \in Incident
      BY <1>4, ActorType DEF LoadForRunbook, At, HasFile, Label
    <2>3. SameJournal(r, files[actor[a].id])
      BY <2>2 DEF SameJournal, Incident
    <2> HIDE DEF r
    <2>4. FreshOf(st, files)
      BY <1>1, <1>4, <2>3 DEF LoadForRunbook, At, ActorState, FreshOf
    <2> QED
      BY <1>2, <2>1, <2>4
  <1>5. CASE LoadForMetadata(a) \/ LoadActive(a)
    <2>1. PICK r : actor' = [actor EXCEPT ![a].pc = "save", ![a].copy = r]
      BY <1>5 DEF LoadForMetadata, LoadActive
    <2> DEFINE st == [actor[a] EXCEPT !.pc = "save", !.copy = r]
    <2>2. actor' = [actor EXCEPT ![a] = st] /\ FreshOf(st, files)
      BY <1>1, <2>1 DEF ActorState, FreshOf
    <2> QED
      BY <1>2, <2>2
  <1> QED
    BY <1>3, <1>4, <1>5

LEMMA RunbookMoves ==
    ASSUME Typing, NEW a \in Actors, NEW out \in SaveResult,
           SaveRunbookSuggestion(a, out)
    PROVE  \E st : Moves(a, st)
  <1> DEFINE st == [actor[a] EXCEPT !.pc = "logs", !.side = None]
  <1>1. actor[a] \in ActorState /\ actor[a].pc = "runbookSave"
    BY ActorType DEF SaveRunbookSuggestion, At
  <1>2. actor' = [actor EXCEPT ![a] = st] /\ UNCHANGED background
    BY DEF SaveRunbookSuggestion
  <1>3. FreshOf(st, files') /\ Keeps(st, a) /\ ~At(a, "idle")
    BY <1>1 DEF ActorState, FreshOf, Keeps, Holds, At
  <1> QED
    BY <1>2, <1>3 DEF Moves

LEMMA LastStepsMoves ==
    ASSUME Typing, NEW a \in Actors, NEW out \in SaveResult,
           \/ SaveChange(a, out)
           \/ PerformFinalSync(a, out)
           \/ FinishView(a, out)
           \/ FinishStart(a)
    PROVE  \E st : Moves(a, st)
  <1>1. actor[a].pc \in {"save", "finalSync", "viewSave", "traces"} /\ ~At(a, "idle")
    BY DEF SaveChange, PerformFinalSync, FinishView, FinishStart, At
  <1>2. CASE SaveChange(a, out) /\ Goto(a, "finalSync")
    BY <1>1, <1>2, GotoMoves DEF SaveChange
  <1>3. CASE Return(a)
    <2>1. \/ UNCHANGED background
          \/ \E b : /\ background' = background \cup {b}
                    /\ Holds(actor[a], b.id, b.copy)
      BY <1>1 DEF SaveChange, PerformFinalSync, FinishView, FinishStart, Holds
    <2> QED
      BY <1>1, <1>3, <2>1, IdleMoves
  <1> QED
    BY <1>2, <1>3 DEF SaveChange, PerformFinalSync, FinishView, FinishStart

LEMMA ContinueMoves ==
    ASSUME Typing, Fresh, NEW a \in Actors, Continue(a)
    PROVE  \E st : Moves(a, st)
  <1>1. "done" \in SaveResult
    BY DEF SaveResult, Outcome
  <1> QED
    BY <1>1, SaveNewMoves, SaveStepsMoves, LoadMoves, RunbookMoves,
       LastStepsMoves DEF Continue

\* An operation that begins follows up no new incident.
Calling(a) ==
    /\ UNCHANGED <<files, background>>
    /\ \E st : /\ actor' = [actor EXCEPT ![a] = st]
               /\ \A f : FreshOf(st, f)

LEMMA BeginCalls ==
    ASSUME NEW a, NEW c, NEW label, NEW i, NEW r, Begin(a, c, label, i, r),
           label \notin {"enrich", "links", "runbook", "runbookSave"}
    PROVE  Calling(a)
  <1> DEFINE st == [Idle EXCEPT !.pc = label, !.call = c, !.id = i, !.copy = r]
  <1>1. actor' = [actor EXCEPT ![a] = st] /\ UNCHANGED <<files, background>>
    BY DEF Begin
  <1>2. \A f : FreshOf(st, f)
    BY DEF FreshOf, Idle
  <1> QED
    BY <1>1, <1>2 DEF Calling

LEMMA NewCallCalls ==
    ASSUME NEW a \in Actors, NewCall(a)
    PROVE  Calling(a)
  <1>1. ASSUME NEW s \in Services, Start(a, s) \/ StartForServiceFlow(a, s) \/ Suggest(a, s)
        PROVE  Calling(a)
    BY <1>1, BeginCalls DEF Start, StartForServiceFlow, Suggest
  <1>2. ASSUME NEW i \in Existing, NEW c, NEW label \in {"save", "finalSync"}, NEW to, NEW t,
               BeginTransition(a, c, label, i, to, t)
        PROVE  Calling(a)
    BY <1>2, BeginCalls DEF BeginTransition
  <1>3. ASSUME NEW i \in Existing,
               \/ Acknowledge(a, i)
               \/ AcknowledgeByID(a, i)
               \/ PromoteSuggested(a, i)
               \/ Resolve(a, i)
               \/ ResolveWithAnalysis(a, i)
               \/ ResolveByID(a, i)
               \/ ResolveByIDWithAnalysis(a, i)
        PROVE  Calling(a)
    BY <1>2, <1>3 DEF Acknowledge, AcknowledgeByID, PromoteSuggested, Resolve,
       ResolveWithAnalysis, ResolveByID, ResolveByIDWithAnalysis
  <1>4. ASSUME NEW i \in Existing,
               \/ NoteByID(a, i)
               \/ UpdateSeverityByID(a, i)
               \/ Note(a, i)
               \/ UpdateSeverity(a, i)
        PROVE  Calling(a)
    BY <1>4, BeginCalls DEF NoteByID, UpdateSeverityByID, Note, UpdateSeverity
  <1>5. ASSUME NEW i \in Existing, NEW label \in Label, View(a, i, label)
        PROVE  Calling(a)
    <2>1. label \in {"viewLinks", "viewEnrich", "viewSave"}
      BY <1>5 DEF View, AfterViewLinks
    <2> QED
      BY <1>5, <2>1, BeginCalls DEF View
  <1> QED
    BY <1>1, <1>3, <1>4, <1>5 DEF NewCall

-----------------------------------------------------------------------------
(* The invariant. *)

\* One actor steps, the others are idle.
LEMMA OneActorRecords ==
    ASSUME Typing, Serial, Fresh, NEW a \in Actors, NEW st,
           actor' = [actor EXCEPT ![a] = st],
           \A b \in Actors \ {a} : At(b, "idle"),
           FreshOf(st, files'),
           \A b, c \in background' : b = c,
           st.pc # "idle" => background' = {}
    PROVE  Serial' /\ Fresh'
  <1>1. actor'[a] = st /\ \A b \in Actors \ {a} : actor'[b] = actor[b]
    BY DEF Typing, TypeOK
  <1>2. \A b \in Actors \ {a} : actor'[b].pc = "idle"
    BY <1>1 DEF At
  <1>3. \A b \in Actors : actor'[b].pc # "idle" => b = a /\ background' = {}
    BY <1>1, <1>2
  <1>4. Serial'
    BY <1>3 DEF Serial, At
  <1>5. \A b \in Actors : FreshOf(actor'[b], files')
    BY <1>1, <1>2 DEF FreshOf
  <1> QED
    BY <1>4, <1>5 DEF Fresh

LEMMA ContinueRecords ==
    ASSUME Typing, Serial, Fresh, NEW a \in Actors, Continue(a)
    PROVE  Serial' /\ Fresh'
  <1>1. PICK st : Moves(a, st)
    BY ContinueMoves
  <1>2. background = {} /\ \A b \in Actors \ {a} : At(b, "idle")
    BY <1>1 DEF Moves, Serial
  <1>3. /\ \A b, c \in background' : b = c
        /\ st.pc # "idle" => background' = {}
    BY <1>1, <1>2 DEF Moves
  <1> QED
    BY <1>1, <1>2, <1>3, OneActorRecords DEF Moves

LEMMA CallRecords ==
    ASSUME Typing, Serial, Fresh, NEW a \in Actors, Quiet, NewCall(a)
    PROVE  Serial' /\ Fresh'
  <1>1. PICK st : actor' = [actor EXCEPT ![a] = st] /\ \A f : FreshOf(st, f)
    BY NewCallCalls DEF Calling
  <1>2. background' = {}
    BY NewCallCalls DEF Calling, Quiet
  <1> QED
    BY <1>1, <1>2, OneActorRecords DEF Quiet

LEMMA OthersRecord ==
    ASSUME Typing, Serial, Fresh,
           \/ FinishBackground
           \/ \E p \in Procs : Exit(p)
           \/ Tick
           \/ UNCHANGED vars
    PROVE  Serial' /\ Fresh'
  <1>1. CASE FinishBackground
    <2>1. /\ background' \subseteq background /\ UNCHANGED actor
          /\ \A a \in Actors : At(a, "idle")
      BY <1>1 DEF FinishBackground, NoTraces, BackgroundSave, Serial
    <2> QED
      BY <2>1 DEF Serial, Fresh, FreshOf, At
  <1>2. ASSUME NEW p \in Procs, Exit(p) PROVE Serial' /\ Fresh'
    <2>1. /\ background' \subseteq background /\ UNCHANGED files
          /\ \A a \in Actors : actor'[a] \in {Idle, actor[a]}
      BY <1>2 DEF Exit
    <2>2. Idle.pc = "idle"
      BY DEF Idle
    <2>3. Serial'
      BY <2>1, <2>2 DEF Serial, At
    <2>4. \A a \in Actors : FreshOf(actor'[a], files')
      BY <2>1, <2>2 DEF Fresh, FreshOf
    <2> QED
      BY <2>3, <2>4 DEF Fresh
  <1>3. CASE Tick \/ UNCHANGED vars
    <2>1. UNCHANGED <<files, actor, background>>
      BY <1>3 DEF Tick, vars
    <2> QED
      BY <2>1 DEF Serial, Fresh, FreshOf, At
  <1> QED
    BY <1>1, <1>2, <1>3

\* A step that writes a file brings no version into flight.
LEMMA WritesBringNone ==
    ASSUME Flow, Serial, Fresh, [SerialNext]_vars, files' # files, NEW i \in Ids
    PROVE  InFlight(i)' \subseteq InFlight(i)
  <1> SUFFICES ASSUME NEW r \in InFlight(i)' PROVE r \in InFlight(i)
    OBVIOUS
  <1>1. ASSUME NEW a \in Actors, Continue(a) PROVE r \in InFlight(i)
    <2>1. PICK st : Moves(a, st)
      BY <1>1, ContinueMoves DEF Flow
    <2>2. actor'[a] = st /\ \A b \in Actors \ {a} : actor'[b] = actor[b]
      BY <2>1 DEF Moves, Flow, Typing, TypeOK
    <2>3. CASE \E b \in Actors : Holds(actor'[b], i, r)
      BY <2>1, <2>2, <2>3, InFlightHolds DEF Moves, Keeps
    <2>4. CASE \E b \in background' : b.id = i /\ r = b.copy
      BY <2>1, <2>4, InFlightHolds DEF Moves
    <2> QED
      BY <2>3, <2>4, InFlightHoldsNext
  <1>2. CASE FinishBackground
    <2>1. background' \subseteq background /\ UNCHANGED actor
      BY <1>2 DEF FinishBackground, NoTraces, BackgroundSave
    <2> QED
      BY <2>1, InFlightHolds, InFlightHoldsNext
  <1>3. ASSUME NEW a \in Actors, NewCall(a) PROVE FALSE
    BY <1>3, NewCallCalls DEF Calling
  <1>4. CASE (\E p \in Procs : Exit(p)) \/ Tick \/ UNCHANGED vars
    BY <1>4 DEF Exit, Tick, vars
  <1> QED
    BY <1>1, <1>2, <1>3, <1>4 DEF SerialNext

LEMMA AheadNext ==
    ASSUME Flow, Serial, Fresh, Ahead, [SerialNext]_vars
    PROVE  Ahead'
  <1> SUFFICES ASSUME NEW i \in Existing', NEW r \in InFlight(i)'
               PROVE  Edited(files'[i], r)
    BY DEF Ahead
  <1>1. StepFlow /\ i \in Ids
    BY FlowNext, SerialIsNext DEF Existing
  <1>2. CASE files' = files
    BY <1>1, <1>2 DEF StepFlow, VersionsFlow, Source, Ahead, Existing
  <1>3. CASE files' # files
    <2>1. PICK j \in Ids, q \in Incident :
             files' = [files EXCEPT ![j] = q] /\ q \in InFlight(j)
      BY <1>1, <1>3 DEF StepFlow, FilesFlow
    <2>2. r \in InFlight(i)
      BY <1>1, <1>3, WritesBringNone
    <2>3. CASE i = j
      <3>1. files'[i] = q
        BY <1>1, <2>1, <2>3 DEF Flow, Typing, TypeOK
      <3>2. SameJournal(q, r)
        BY <1>1, <2>1, <2>2, <2>3, AlikeInFlight
      <3> QED
        BY <3>1, <3>2 DEF Edited, SameJournal
    <2>4. CASE i # j
      <3>1. files'[i] = files[i]
        BY <1>1, <2>1, <2>4 DEF Flow, Typing, TypeOK
      <3> QED
        BY <1>1, <2>2, <3>1 DEF Ahead, Existing
    <2> QED
      BY <2>3, <2>4
  <1> QED
    BY <1>2, <1>3

LEMMA RecordedNext == Recorded /\ [SerialNext]_vars => Recorded'
  <1> SUFFICES ASSUME Recorded, [SerialNext]_vars PROVE Recorded'
    OBVIOUS
  <1>1. Flow'
    BY FlowNext, SerialIsNext DEF Recorded
  <1>2. Serial' /\ Fresh'
    BY ContinueRecords, CallRecords, OthersRecord DEF Recorded, Flow, SerialNext
  <1> QED
    BY <1>1, <1>2, AheadNext DEF Recorded

\* The journal speaks of records with the operators of IncidentRecord.
LEMMA JournalOperators ==
    /\ \A r : Journal!Consistent(r) <=> Consistent(r)
    /\ \A from, to : Journal!ValidateTransition(from, to) <=> ValidateTransition(from, to)
  BY DEF Consistent, LegalHistory, OpensOnce, AtMostOnce, ClosedAfterResolve,
     AckAfterStart, StateAfter, Has, ValidateTransition, Journal!Consistent,
     Journal!LegalHistory, Journal!OpensOnce, Journal!AtMostOnce,
     Journal!ClosedAfterResolve, Journal!AckAfterStart, Journal!StateAfter,
     Journal!Has, Journal!ValidateTransition

LEMMA AppendGrows ==
    ASSUME NEW h \in Seq(Event), NEW e \in Event
    PROVE  Journal!Grows(h, Append(h, e))
  <1> DEFINE g == Append(h, e)
  <1>1. /\ g \in Seq(Event) /\ Len(g) = Len(h) + 1 /\ Len(h) \in Nat
        /\ \A k \in 1..Len(h) : g[k] = h[k]
    OBVIOUS
  <1> HIDE DEF g
  <1>2. SubSeq(g, 1, Len(h)) = h
    BY <1>1
  <1> QED
    BY <1>1, <1>2 DEF Journal!Grows, g

\* A save is a step of the journal, or changes nothing.
LEMMA JournalStep ==
    ASSUME Recorded, [SerialNext]_vars
    PROVE  [Journal!Next]_files
  <1>1. FilesFlow /\ files \in [Ids -> Incident \cup {None}]
    BY FlowNext, SerialIsNext DEF Recorded, Flow, Typing, TypeOK, StepFlow
  <1>2. ASSUME NEW i \in Ids, NEW r \in Incident,
               files' = [files EXCEPT ![i] = r],
               r \in InFlight(i),
               files[i] = None => IsNew(r)
        PROVE  Journal!Next
    <2>1. files'[i] = r /\ r # None
      BY <1>1, <1>2, NoneIsNoIncident
    <2>2. CASE files[i] = None
      BY <1>2, <2>1, <2>2, JournalOperators DEF IsNew, Journal!Next, Journal!Open
    <2>3. CASE files[i] # None
      <3>1. Edited(files[i], r) /\ files[i] \in Incident
        BY <1>1, <1>2, <2>3 DEF Recorded, Ahead, Existing
      <3>2. CASE r.events = files[i].events /\ r.state = files[i].state
        BY <1>2, <2>1, <2>3, <3>1, <3>2 DEF Edited, Journal!Next, Journal!Annotate
      <3>3. ASSUME NEW e \in Event, r.events = Append(files[i].events, e),
                   r.state = files[i].state \/ ValidateTransition(files[i].state, r.state)
            PROVE  Journal!Next
        <4>1. Journal!Grows(files[i].events, r.events)
          BY <3>1, <3>3, AppendGrows DEF Incident
        <4>2. Journal!Record(i)
          BY <1>2, <2>1, <2>3, <3>1, <3>3, <4>1, JournalOperators
          DEF Edited, Journal!Record
        <4> QED
          BY <4>2 DEF Journal!Next
      <3> QED
        BY <3>1, <3>2, <3>3 DEF Edited
    <2> QED
      BY <2>2, <2>3
  <1> QED
    BY <1>1, <1>2 DEF FilesFlow

(***************************************************************************)
(* Every behaviour with one caller at a time, whatever fails or ends, is   *)
(* one of the abstract journal.                                            *)
(***************************************************************************)
THEOREM JournalImplemented == SerialSpec => ImplementsJournal
  <1>1. Init => Journal!Init
    BY DEF Init, Journal!Init
  <1>2. Recorded /\ [SerialNext]_vars => [Journal!Next]_files
    BY JournalStep
  <1>3. Recorded /\ [SerialNext]_vars => Recorded'
    BY RecordedNext
  <1> QED
    BY <1>1, <1>2, <1>3, RecordedInit, PTL
    DEF SerialSpec, ImplementsJournal, Journal!Spec

=============================================================================

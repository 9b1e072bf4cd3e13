----------------------------- MODULE Telemetry -----------------------------
(***************************************************************************)
(* The telemetry around incidents (src/internal/ml/lifecycle_recorder.go   *)
(* and predictor_daemon.go, src/internal/incident/service.go): the daemon  *)
(* records snapshots of the services in a window on disk; the command that *)
(* starts an incident seeds it from this window or from what the logs      *)
(* tell; the command that resolves it writes its lifecycle.                *)
(*                                                                         *)
(* A snapshot says which service it is of and which incident it is tagged  *)
(* with; two snapshots of one moment, service and tag are the same. The    *)
(* order of a history, in a seed or a lifecycle, is left out. A process    *)
(* reads the window once, when it starts.                                  *)
(***************************************************************************)
EXTENDS Naturals, Sequences, FiniteSets, SequencesExt

CONSTANTS Ids,          \* incidents
          Services,     \* services with snapshots
          ServiceOf,    \* the service of each incident
          Size,         \* bufferSize, 60
          MaxTime,      \* bound on the moments at which snapshots are taken
          NoId          \* no incident

VARIABLES now,
          window,       \* telemetry_window.json
          daemon,       \* rollingBuffer of the daemon, <<>> when it is down
          running,      \* the daemon is up
          latest,       \* the incident that was created last
          checked,      \* the incident the tick took for active
          todo,         \* services the tick has yet to scan
          state,        \* of each incident: "none", "active", "resolved"
          pc,           \* of the process that starts or resolves an incident
          buffer,       \* its rollingBuffer
          seed,         \* snapshots in its seed file, {} when there is none
          lifecycle,    \* snapshots in its lifecycle file, {} when there is none
          kept          \* snapshots PersistLifecycle is about to write

vars == <<now, window, daemon, running, latest, checked, todo, state, pc, buffer,
          seed, lifecycle, kept>>
scan == <<running, daemon, checked, todo>>
files == <<seed, lifecycle>>

ConstantsAssumption ==
    /\ Size \in Nat \ {0} /\ MaxTime \in Nat \ {0}
    /\ ServiceOf \in [Ids -> Services]

Snapshot(s, i) == [at |-> now, service |-> s, tag |-> i]

TypeOK ==
    /\ now \in 1..MaxTime /\ running \in BOOLEAN
    /\ {checked, latest} \subseteq Ids \cup {NoId} /\ todo \subseteq Services
    /\ state \in [Ids -> {"none", "active", "resolved"}]
    /\ pc \in [Ids -> {"idle", "lookback", "collect", "clean", "write", "done", "lost"}]
    /\ \A buf \in {window, daemon} \cup {buffer[i] : i \in Ids} :
          Len(buf) <= Size /\ \A s \in ToSet(buf) : s.at <= now /\ s.service \in Services

Push(buf, snap) ==
    IF Len(buf) >= Size THEN Append(Tail(buf), snap) ELSE Append(buf, snap)

Init ==
    /\ now = 1 /\ window = <<>>
    /\ running = FALSE /\ daemon = <<>> /\ checked = NoId /\ todo = {}
    /\ latest = NoId
    /\ state = [i \in Ids |-> "none"] /\ pc = [i \in Ids |-> "idle"]
    /\ buffer = [i \in Ids |-> <<>>] /\ kept = [i \in Ids |-> {}]
    /\ seed = [i \in Ids |-> {}] /\ lifecycle = [i \in Ids |-> {}]

\* ------------------------------ the daemon -------------------------------

StartDaemon ==
    /\ ~running /\ running' = TRUE
    /\ daemon' = window
    /\ UNCHANGED <<now, window, latest, checked, todo, state, pc, buffer, files, kept>>

StopDaemon ==
    /\ running /\ running' = FALSE
    /\ daemon' = <<>> /\ checked' = NoId /\ todo' = {}
    /\ UNCHANGED <<now, window, latest, state, pc, buffer, files, kept>>

\* A tick: the active incident is looked up once, before the scans. It is the
\* last one that was created: its state is compared with "resolved", but files
\* have "Resolved".
Tick ==
    /\ running /\ todo = {} /\ now < MaxTime
    /\ now' = now + 1
    /\ checked' = latest
    /\ todo' = Services
    /\ UNCHANGED <<window, latest, running, daemon, state, pc, buffer, files, kept>>

\* The tag goes to the snapshots of the incident's own service only. With the
\* last scan the window is persisted, or the write fails.
Scan(s) ==
    /\ s \in todo /\ todo' = todo \ {s}
    /\ daemon' = Push(daemon, Snapshot(s,
                   IF checked # NoId /\ ServiceOf[checked] = s THEN checked ELSE NoId))
    /\ \/ window' = window
       \/ todo' = {} /\ window' = daemon'
    /\ UNCHANGED <<now, latest, running, checked, state, pc, buffer, files, kept>>

\* ------------------------- starting an incident --------------------------

\* The process begins with the window, and the incident is saved.
StartIncident(i) ==
    /\ state[i] = "none" /\ pc[i] = "idle"
    /\ state' = [state EXCEPT ![i] = "active"]
    /\ latest' = i
    /\ buffer' = [buffer EXCEPT ![i] = window]
    /\ pc' = [pc EXCEPT ![i] = "lookback"]
    /\ UNCHANGED <<now, window, scan, files, kept>>

\* GetPreIncidentBuffer: an empty buffer is read again.
PreIncident(i) == IF buffer[i] = <<>> THEN window ELSE buffer[i]

\* AutoLookbackEnrichment: a window that ends, just now, with the service of
\* the incident is taken for its history as it is; otherwise the history is
\* made up of snapshots that carry the tag of the incident.
Fresh(buf, i) == buf # <<>> /\ Last(buf).service = ServiceOf[i] /\ Last(buf).at = now

Lookback(i) ==
    /\ pc[i] = "lookback"
    /\ IF Fresh(PreIncident(i), i)
       THEN /\ seed' = [seed EXCEPT ![i] = ToSet(PreIncident(i))]
            /\ UNCHANGED <<buffer, window>>
       ELSE LET snap == Snapshot(ServiceOf[i], i) IN
            /\ seed' = [seed EXCEPT ![i] = {snap}]
            /\ buffer' = [buffer EXCEPT ![i] = Push(@, snap)]
            /\ window' = buffer'[i]
    /\ pc' = [pc EXCEPT ![i] = "idle"]
    /\ UNCHANGED <<now, latest, scan, state, lifecycle, kept>>

\* -------------------------- resolving an incident ------------------------

\* The same process goes on, as the alert listener does, or another one with
\* the window of its own.
Resolve(i) ==
    /\ state[i] = "active" /\ pc[i] = "idle"
    /\ state' = [state EXCEPT ![i] = "resolved"]
    /\ buffer' \in {buffer, [buffer EXCEPT ![i] = window]}
    /\ pc' = [pc EXCEPT ![i] = "collect"]
    /\ UNCHANGED <<now, window, latest, scan, files, kept>>

\* As Collect, taking what is of the service whatever it is tagged with.
CollectAnyTag(i) ==
    /\ pc[i] = "collect"
    /\ kept' = [kept EXCEPT ![i] = seed[i] \cup
           {s \in ToSet(PreIncident(i)) : s.tag = i \/ s.service = ServiceOf[i]}]
    /\ pc' = [pc EXCEPT ![i] = "clean"]
    /\ UNCHANGED <<now, window, latest, scan, state, buffer, files>>

\* As Collect, with the seed forgotten.
CollectWindowOnly(i) ==
    /\ pc[i] = "collect"
    /\ kept' = [kept EXCEPT ![i] =
           {s \in ToSet(PreIncident(i)) : s.tag = i \/ (s.tag = NoId /\ s.service = ServiceOf[i])}]
    /\ pc' = [pc EXCEPT ![i] = "clean"]
    /\ UNCHANGED <<now, window, latest, scan, state, buffer, files>>

\* persistLifecycle, in a goroutine: the seed, then what the window has of the
\* incident or of its service and nobody else's.
Collect(i) ==
    /\ pc[i] = "collect"
    /\ kept' = [kept EXCEPT ![i] = seed[i] \cup
           {s \in ToSet(PreIncident(i)) : s.tag = i \/ (s.tag = NoId /\ s.service = ServiceOf[i])}]
    /\ pc' = [pc EXCEPT ![i] = "clean"]
    /\ UNCHANGED <<now, window, latest, scan, state, buffer, files>>

\* PersistLifecycle removes the seed and then writes; the write may fail.
RemoveSeed(i) ==
    /\ pc[i] = "clean"
    /\ seed' = [seed EXCEPT ![i] = {}]
    /\ pc' = [pc EXCEPT ![i] = "write"]
    /\ UNCHANGED <<now, window, latest, scan, state, buffer, lifecycle, kept>>

WriteLifecycle(i) ==
    /\ pc[i] = "write"
    /\ lifecycle' \in {lifecycle, [lifecycle EXCEPT ![i] = kept[i] \cup {Snapshot(ServiceOf[i], i)}]}
    /\ pc' = [pc EXCEPT ![i] = IF lifecycle' = lifecycle THEN "lost" ELSE "done"]
    /\ kept' = [kept EXCEPT ![i] = {}]
    /\ UNCHANGED <<now, window, latest, scan, state, buffer, seed>>

\* The command ends without waiting for the goroutine.
Exit(i) ==
    /\ pc[i] \in {"lookback", "collect", "clean", "write"}
    /\ pc' = [pc EXCEPT ![i] = IF pc[i] = "lookback" THEN "idle" ELSE "lost"]
    /\ kept' = [kept EXCEPT ![i] = {}]
    /\ UNCHANGED <<now, window, latest, scan, state, buffer, files>>

Next ==
    \/ StartDaemon \/ StopDaemon \/ Tick \/ \E s \in Services : Scan(s)
    \/ \E i \in Ids : \/ StartIncident(i) \/ Lookback(i) \/ Resolve(i) \/ Collect(i)
                      \/ RemoveSeed(i) \/ WriteLifecycle(i) \/ Exit(i)

Spec == Init /\ [][Next]_vars

\* ------------------------------ properties -------------------------------

Foreign(snaps, i) == {s \in snaps : s.tag \notin {i, NoId}}

\* A lifecycle has snapshots of another incident only where its seed had: what
\* the daemon adds to the window later, whenever it looked for the active
\* incident and whenever the window was read, is told apart.
OnlySeedIsForeign ==
    [][\A i \in Ids : Foreign(kept'[i], i) \subseteq Foreign(seed[i], i) \cup Foreign(kept[i], i)]_vars

\* The history an incident was seeded with is in its lifecycle once that is
\* written, however often the daemon has overwritten the window in between.
SeedReachesLifecycle ==
    [][\A i \in Ids : seed[i] # {} /\ seed'[i] = {} => seed[i] \subseteq kept[i]]_vars

\* The daemon tags what it records with an incident only while that is active
\* (predictor_daemon.go: "an interface to check for active incidents").
TagsActiveOnly ==
    [][todo = {} /\ todo' # {} => checked' = NoId \/ state[checked'] = "active"]_vars

=============================================================================

--------------------------- MODULE AlertProcessor ---------------------------
(***************************************************************************)
(* internal/alert/handler.go: what the listener does with the alerts of a  *)
(* webhook, and the reload of its rules (alert/commands.go).               *)
(*                                                                         *)
(* The goroutines of Process are the workers; requests overlap, so they    *)
(* are one pool.  A worker takes one alert through the fingerprint cache,  *)
(* the rules and the lookups, and ends it with a note, an escalation, a    *)
(* resolution or a new incident.  Each call of the incident service is one *)
(* step here (IncidentService models what happens inside), except that     *)
(* StartForServiceFlow looks for an active incident in one step and        *)
(* creates its own in a later one.                                         *)
(***************************************************************************)
EXTENDS Integers, Sequences, FiniteSets, FiniteSetsExt

CONSTANTS
    Workers,      \* goroutines handling alerts
    Services,
    Flow,         \* the flow of each service: related services share it
    Keys,         \* fingerprints
    Alerts,       \* the alerts senders may deliver
    RuleSets,     \* the alerts.yaml of each reload: a sequence of rule lists
    Ttl,          \* AlertDedupIntervalMinutes
    Fresh,        \* the 4 hours a suggested incident stays fresh
    Stored,       \* the incidents stored when the listener starts
    MaxSends,     \* bound: deliveries
    MaxTime,      \* bound: the clock
    MaxFailed,    \* bound: failures that are counted
    None

Severity == 1..4  \* SeverityRank, of P4 to P1

Alert == [key: Keys \cup {None}, service: Services, severity: Severity,
          status: {"firing", "resolved"}, slo: BOOLEAN]

\* A rule: the alerts its match section selects, and what it makes of them.
\* Its service is Match["service"], which a rule matching on job lacks.
Rule == [alerts: SUBSET Alerts, service: Services \cup {None},
         severity: Severity, mode: {"auto", "suggest"}]

ASSUME AlertsAssumption ==
    /\ Alerts \subseteq Alert
    /\ RuleSets \in Seq(Seq(Rule)) /\ RuleSets # <<>>
    /\ {Ttl, Fresh, MaxSends, MaxTime, MaxFailed} \subseteq Nat
    /\ IsFiniteSet(Workers)

Versions == 1..Len(RuleSets)

\* An alert makes at most one incident.
MaxIncidents == Len(Stored) + MaxSends

\* What processAlert asks of the incident service: a rule's or the fallback's.
Order == [service: Services \cup {None}, severity: Severity,
          mode: {"auto", "suggest"}]

VARIABLES
    now,       \* the clock
    sends,     \* deliveries made
    worker,    \* what each worker is doing
    rules,     \* the version of the rules in p.rules
    cache,     \* the version of the cache p.Cache points to
    seen,      \* the entries of the cache of each version
    incidents, \* the incidents, oldest first
    stats      \* Metrics

vars == <<now, sends, worker, rules, cache, seen, incidents, stats>>

Label == {"idle", "seen", "match", "find", "resolve", "escalate", "note",
          "suggested", "check", "create", "suggest", "first note"}

WorkerState ==
    [pc: Label,
     alert: Alerts \cup {None},
     cache: Versions,              \* the cache it read the pointer of
     rules: Versions,              \* the rules it matched against
     order: Order \cup {None},
     target: 0..MaxIncidents,  \* the incident it acts on
     read: Severity,               \* the severity that incident had
     known: 0..MaxIncidents,   \* incidents there were when it last found none
     blind: BOOLEAN]               \* a lookup failed

Idle == [pc |-> "idle", alert |-> None, cache |-> 1, rules |-> 1,
         order |-> None, target |-> 0, read |-> 1, known |-> 0,
         blind |-> FALSE]

\* via: the call that made the incident, Start or Suggest.
Incident == [service: Services, severity: Severity, created: Int,
             state: {"Suggested", "Started", "Resolved"},
             via: {"auto", "suggest"}]

\* What is stored is older than the clock, and Start has suggested nothing.
ASSUME StoredAssumption ==
    /\ Stored \in Seq(Incident)
    /\ \A i, j \in DOMAIN Stored : i <= j => Stored[i].created <= Stored[j].created
    /\ \A i \in DOMAIN Stored :
          Stored[i].created <= 0 /\ (Stored[i].via = "auto" => Stored[i].state # "Suggested")

Counters == {"received", "deduped", "created", "suggested", "failed"}

Init ==
    /\ now = 0
    /\ sends = 0
    /\ worker = [w \in Workers |-> Idle]
    /\ rules = 1
    /\ cache = 1
    /\ seen = [v \in Versions |-> [k \in Keys |-> None]]
    /\ incidents = Stored
    /\ stats = [c \in Counters |-> 0]

-----------------------------------------------------------------------------
(* Delivery. *)

Count(c) == stats' = [stats EXCEPT ![c] = @ + 1]

At(w, label) == worker[w].pc = label

Goto(w, label) == worker' = [worker EXCEPT ![w].pc = label]

Done(w) == worker' = [worker EXCEPT ![w] = Idle]

\* HandleWebhook: refused while there are no rules; otherwise a worker takes
\* the alert and reads p.Cache, and the sender gets its 200 whatever becomes
\* of it.  (An alert that waits in the jobs channel is delivered later here.)
HandleWebhook(w, a) ==
    /\ At(w, "idle")
    /\ sends < MaxSends
    /\ RuleSets[rules] # <<>>
    /\ sends' = sends + 1
    /\ worker' = [worker EXCEPT ![w] =
                     [Idle EXCEPT !.pc = "seen", !.alert = a, !.cache = cache]]
    /\ Count("received")
    /\ UNCHANGED <<now, rules, cache, seen, incidents>>

\* prune keeps the entries of the last Ttl.
Pruned(entries) ==
    [k \in Keys |-> IF entries[k] # None /\ now - entries[k] > Ttl
                    THEN None ELSE entries[k]]

\* FingerprintCache.Seen, under its lock: a duplicate ends here, any other
\* alert is marked before it is handled.  Alerts without a key pass.
Seen(w) ==
    LET v == worker[w].cache
        k == worker[w].alert.key
        entries == Pruned(seen[v])
    IN  /\ At(w, "seen")
        /\ IF k # None /\ entries[k] # None
           THEN Done(w) /\ Count("deduped")
           ELSE Goto(w, "match") /\ UNCHANGED stats
        /\ seen' = [seen EXCEPT ![v] =
                       IF k = None THEN @
                       ELSE IF entries[k] # None THEN entries
                       ELSE [entries EXCEPT ![k] = now]]
        /\ UNCHANGED <<now, sends, rules, cache, incidents>>

-----------------------------------------------------------------------------
(* Matching. *)

\* matchRule: the first rule that selects the alert.
Matching(v, a) == {i \in DOMAIN RuleSets[v] : a \in RuleSets[v][i].alerts}

FirstRule(v, a) ==
    LET r == RuleSets[v][Min(Matching(v, a))]
    IN  [service |-> r.service, severity |-> r.severity, mode |-> r.mode]

\* As Fallback, leaving the severity unset.
FallbackUnset(a) == [service |-> a.service, severity |-> 0, mode |-> "auto"]

\* The default incident of an SLO alert no rule matches.
Fallback(a) == [service |-> a.service, severity |-> 3, mode |-> "auto"]

Match(w) ==
    LET a == worker[w].alert
        order == IF Matching(rules, a) # {} THEN FirstRule(rules, a)
                 ELSE IF a.slo THEN Fallback(a) ELSE None
    IN  /\ At(w, "match")
        /\ IF order = None THEN Done(w)
           ELSE worker' = [worker EXCEPT ![w].pc = "find", ![w].rules = rules,
                                         ![w].order = order]
        /\ UNCHANGED <<now, sends, rules, cache, seen, incidents,
                       stats>>

-----------------------------------------------------------------------------
(* Lookups.  List sorts the incidents newest first. *)

\* FindActiveByServiceFlow and FindSuggestedByServiceFlow: the same flow.
Related(s) == {i \in DOMAIN incidents :
                  s # None /\ Flow[incidents[i].service] = Flow[s]}

InState(s, st) == {i \in Related(s) : incidents[i].state = st}

Latest(S) == IF S = {} THEN 0 ELSE Max(S)

IsFresh(i) == now - incidents[i].created <= Fresh

\* The first lookup of apply.  A failed one counts, and goes on as if there
\* were no active incident.
FindActive(w, ok) ==
    LET i == IF ok THEN Latest(InState(worker[w].order.service, "Started"))
             ELSE 0
        a == worker[w].alert
    IN  /\ At(w, "find")
        /\ IF i = 0 /\ a.status = "resolved"
           THEN Done(w)
           ELSE worker' = [worker EXCEPT ![w] =
                    [Idle EXCEPT
                        !.pc = IF a.status = "resolved" THEN "resolve"
                               ELSE IF i = 0 THEN "suggested" ELSE "escalate",
                        !.order = worker[w].order,
                        !.target = i,
                        !.read = IF i = 0 THEN 1 ELSE incidents[i].severity,
                        !.known = IF i = 0 THEN Len(incidents) ELSE 0,
                        !.blind = ~ok]]
        /\ IF ok THEN UNCHANGED stats ELSE Count("failed")
        /\ UNCHANGED <<now, sends, rules, cache, seen, incidents>>

\* The second lookup: the newest suggested incident, unless it is stale.
FindSuggested(w, ok) ==
    LET j == IF ok THEN Latest(InState(worker[w].order.service, "Suggested"))
             ELSE 0
        i == IF j # 0 /\ IsFresh(j) THEN j ELSE 0
    IN  /\ At(w, "suggested")
        /\ worker' = [worker EXCEPT
               ![w].pc = IF i # 0 THEN "escalate"
                         ELSE IF worker[w].order.mode = "auto" THEN "check"
                         ELSE "suggest",
               ![w].target = i,
               ![w].read = IF i = 0 THEN 1 ELSE incidents[i].severity,
               ![w].blind = @ \/ ~ok]
        /\ IF ok THEN UNCHANGED stats ELSE Count("failed")
        /\ UNCHANGED <<now, sends, rules, cache, seen, incidents>>

-----------------------------------------------------------------------------
(* Attaching the alert to the incident found. *)

\* UpdateSeverityByID when the alert is more severe than the incident was at
\* the lookup; the failure of the call is a warning.
Escalate(w, out) ==
    LET i == worker[w].target
        sev == worker[w].order.severity
    IN  /\ At(w, "escalate")
        /\ incidents' = IF sev > worker[w].read /\ out = "done"
                        THEN [incidents EXCEPT ![i].severity = sev]
                        ELSE incidents
        /\ worker' = [worker EXCEPT ![w] = [Idle EXCEPT !.pc = "note"]]
        /\ Count("deduped")
        /\ UNCHANGED <<now, sends, rules, cache, seen>>

\* NoteByID and the history entry, on an incident in any state.
NoteByID(w, out) ==
    /\ At(w, "note")
    /\ Done(w)
    /\ IF out = "done" THEN UNCHANGED stats ELSE Count("failed")
    /\ UNCHANGED <<now, sends, rules, cache, seen, incidents>>

\* A resolved alert resolves the incident, if it is still active.
ResolveByID(w, out) ==
    LET i == worker[w].target
    IN  /\ At(w, "resolve")
        /\ incidents' = IF incidents[i].state = "Started" /\ out = "done"
                        THEN [incidents EXCEPT ![i].state = "Resolved"]
                        ELSE incidents
        /\ Done(w)
        /\ UNCHANGED <<now, sends, rules, cache, seen, stats>>

-----------------------------------------------------------------------------
(* A new incident. *)

\* As StartCheck, without the second look for an active incident.
StartUnchecked(w, ok) ==
    LET s == worker[w].order.service
    IN  /\ At(w, "check")
        /\ IF s = None \/ ~ok
           THEN Done(w) /\ Count("failed")
           ELSE /\ worker' = [worker EXCEPT ![w].pc = "create",
                                            ![w].known = Len(incidents)]
                /\ UNCHANGED stats
        /\ UNCHANGED <<now, sends, rules, cache, seen, incidents>>

\* StartForServiceFlow refuses an empty service, looks for an active incident
\* again, and "already exists" turns the alert into a suggestion.
StartCheck(w, ok) ==
    LET s == worker[w].order.service
    IN  /\ At(w, "check")
        /\ IF s = None \/ ~ok
           THEN Done(w) /\ Count("failed")
           ELSE /\ IF InState(s, "Started") # {} THEN Goto(w, "suggest")
                   ELSE worker' = [worker EXCEPT ![w].pc = "create",
                                                 ![w].known = Len(incidents)]
                /\ UNCHANGED stats
        /\ UNCHANGED <<now, sends, rules, cache, seen, incidents>>

NewIncident(w, st, via) ==
    [service |-> worker[w].order.service, created |-> now, state |-> st,
     severity |-> worker[w].order.severity, via |-> via]

\* A save that wrote the file may still return an error.
SaveNew(w, out, new) ==
    /\ incidents' = IF out = "failed" THEN incidents ELSE Append(incidents, new)
    /\ IF out = "done"
       THEN /\ worker' = [worker EXCEPT ![w] =
                            [Idle EXCEPT !.pc = "first note",
                                         !.target = Len(incidents) + 1]]
            /\ UNCHANGED stats
       ELSE Done(w) /\ Count("failed")
    /\ UNCHANGED <<now, sends, rules, cache, seen>>

Start(w, out) ==
    At(w, "create") /\ SaveNew(w, out, NewIncident(w, "Started", "auto"))

Suggest(w, out) ==
    /\ At(w, "suggest")
    /\ IF worker[w].order.service = None
       THEN /\ Done(w) /\ Count("failed")
            /\ UNCHANGED <<now, sends, rules, cache, seen, incidents>>
       ELSE SaveNew(w, out, NewIncident(w, "Suggested", "suggest"))

\* As FirstNote, giving up when the note fails.
FirstNoteOrNothing(w, out) ==
    /\ At(w, "first note")
    /\ Done(w)
    /\ IF out = "done" /\ incidents[worker[w].target].via = "auto"
       THEN Count("created")
       ELSE IF out = "done" THEN Count("suggested") ELSE UNCHANGED stats
    /\ UNCHANGED <<now, sends, rules, cache, seen, incidents>>

\* The notes of a new incident, whose failure counts but is no failure of the
\* alert; then the counter and the history entry.
FirstNote(w, out) ==
    LET c == IF incidents[worker[w].target].via = "auto"
             THEN "created" ELSE "suggested"
    IN  /\ At(w, "first note")
        /\ Done(w)
        /\ stats' = [stats EXCEPT ![c] = @ + 1,
                                  !["failed"] = IF out = "done" THEN @ ELSE @ + 1]
        /\ UNCHANGED <<now, sends, rules, cache, seen, incidents>>

-----------------------------------------------------------------------------
(* The reload goroutine: SetRules, then ResetCache.  (LoadProfileAware may   *)
(* fail, and nothing is reloaded.)                                          *)

SetRules == rules' = rules + 1 /\ UNCHANGED cache

ResetCache == cache' = cache + 1 /\ UNCHANGED rules

\* As Reload, in the other order.
ReloadCacheFirst ==
    /\ \/ rules = cache /\ cache < Len(RuleSets) /\ ResetCache
       \/ rules < cache /\ SetRules
    /\ UNCHANGED <<now, sends, worker, seen, incidents, stats>>

Reload ==
    /\ \/ rules = cache /\ rules < Len(RuleSets) /\ SetRules
       \/ cache < rules /\ ResetCache
    /\ UNCHANGED <<now, sends, worker, seen, incidents, stats>>

\* What people do meanwhile, in other processes.
Promote(i) ==
    /\ incidents[i].state = "Suggested"
    /\ incidents' = [incidents EXCEPT ![i].state = "Started"]
    /\ UNCHANGED <<now, sends, worker, rules, cache, seen, stats>>

ResolveByHand(i) ==
    /\ incidents[i].state = "Started"
    /\ incidents' = [incidents EXCEPT ![i].state = "Resolved"]
    /\ UNCHANGED <<now, sends, worker, rules, cache, seen, stats>>

Tick ==
    /\ now < MaxTime
    /\ now' = now + 1
    /\ UNCHANGED <<sends, worker, rules, cache, seen, incidents, stats>>

-----------------------------------------------------------------------------
Fails == IF stats["failed"] < MaxFailed THEN {"failed"} ELSE {}

Handle(w) ==
    \/ Seen(w) \/ Match(w)
    \/ \E ok \in {TRUE} \cup {FALSE : f \in Fails} :
          FindActive(w, ok) \/ FindSuggested(w, ok) \/ StartCheck(w, ok)
    \/ \E out \in {"done"} \cup Fails :
          Escalate(w, out) \/ NoteByID(w, out) \/ ResolveByID(w, out)
          \/ FirstNote(w, out)
    \/ \E out \in {"done"} \cup Fails \cup {"disowned" : f \in Fails} :
          Start(w, out) \/ Suggest(w, out)

Next ==
    \/ \E w \in Workers : Handle(w) \/ \E a \in Alerts : HandleWebhook(w, a)
    \/ \E i \in DOMAIN incidents : Promote(i) \/ ResolveByHand(i)
    \/ Reload
    \/ Tick

Spec == Init /\ [][Next]_vars

-----------------------------------------------------------------------------
(* Properties. *)

TypeOK ==
    /\ now \in 0..MaxTime
    /\ sends \in 0..MaxSends
    /\ worker \in [Workers -> WorkerState]
    /\ rules \in Versions
    /\ cache \in Versions
    /\ seen \in [Versions -> [Keys -> (0..MaxTime) \cup {None}]]
    /\ incidents \in Seq(Incident)
    /\ stats \in [Counters -> Nat]

\* A reload takes effect on every alert it lets through: an alert marked in
\* the cache of a reload, so that its repetitions are dropped, is matched
\* against the rules of that reload or of a later one.  (Cache and rules are
\* replaced one after the other and read one after the other.)
ReloadTakesEffect ==
    \A w \in Workers : At(w, "find") => worker[w].rules >= worker[w].cache

\* The metrics account for the incidents: each one made is counted, is about
\* to be, or is behind a failure; and none is counted that was not made.
IncidentsAccounted ==
    LET uncounted == Cardinality({w \in Workers : At(w, "first note")})
        counted == stats["created"] + stats["suggested"]
        made == Len(incidents) - Len(Stored)
    IN  /\ counted + uncounted <= made
        /\ made <= counted + uncounted + stats["failed"]

Creates(w) ==
    /\ worker[w].pc \in {"create", "suggest"}
    /\ worker'[w] # worker[w]
    /\ Len(incidents') > Len(incidents)

\* Consolidation: no incident is made for a flow that has, among the incidents
\* there were when the worker looked, an active one the listener started; nor,
\* unless a lookup failed, a suggested one of the last four hours.
Consolidated ==
    [][\A w \in Workers : Creates(w) =>
          LET known == {i \in Related(worker[w].order.service) :
                           i <= worker[w].known}
              started == {i \in known : incidents[i].state = "Started"
                                        /\ incidents[i].via = "auto"}
              recent == {i \in known : incidents[i].state = "Suggested"
                                       /\ IsFresh(i)}
          IN  /\ started = {} \/ (At(w, "suggest") /\ worker[w].blind)
              /\ recent = {} \/ At(w, "create") \/ worker[w].blind
      ]_vars

=============================================================================

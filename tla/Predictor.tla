----------------------------- MODULE Predictor -----------------------------
(***************************************************************************)
(* Predictive prevention (src/internal/ml/predictor_daemon.go, agent.go    *)
(* and commands.go): daemons scan the services, compare what they log with *)
(* the lifecycles of past incidents, and announce a match, unless one was  *)
(* announced a short while ago: in the memory of the daemon for any match  *)
(* of the service, on disk for the same pattern. The window of snapshots a *)
(* daemon keeps beside this is that of Telemetry.                          *)
(*                                                                         *)
(* A text stands for the messages of a service, Alike for the cosine of    *)
(* two of them in percent. Rates are in thousandths. What a prediction     *)
(* says beside its pattern (root cause, hints, actions) is left out.       *)
(***************************************************************************)
EXTENDS Naturals, FiniteSets

CONSTANTS Daemons,      \* processes, each of which is started once
          Services,
          Texts,        \* what is logged
          Grade,        \* "critical", "warning" or "plain", for each text
          Alike,        \* for two texts, 0..100
          Traces,       \* what the traces say: latency, rate and failed
          Past,         \* lifecycles incidents can leave: id, service, phase, text
          Quiet,        \* ten minutes
          Ages,         \* what purge is asked to keep
          MaxTime, MaxSaid,     \* bounds on the time and the announcements
          None

VARIABLES now,
          pidFile,      \* the daemon in the PID file, or None
          life,         \* of each daemon: "new", "checked", "up" or "gone"
          known,        \* KnowledgeBase
          past,         \* lifecycle files
          last,         \* lastPredictions
          scans,        \* of each daemon and service: phase, and what is announced
          disk,         \* files of predictions
          said,         \* what was announced
          overlapped    \* two daemons have been up at once

vars == <<now, pidFile, life, known, past, last, scans, disk, said, overlapped>>

ConstantsAssumption == Quiet \in Nat /\ MaxTime \in Nat /\ None \notin Nat \cup Daemons

Up == {d \in Daemons : life[d] = "up"}
Alive(d) == life[d] \in {"checked", "up"}

Done == [phase |-> "done", pattern |-> None, at |-> 0]
Resting == [s \in Services |-> Done]

\* ------------------------------ the agent --------------------------------

\* A rate of the traces is a percentage, but one of at most 1 % is taken for a
\* fraction.
Rate(t) == IF t.rate > 10 THEN t.rate ELSE 100 * t.rate

\* classifySignalInternal: what the logs say, then latency, errors and counts.
OfText(text) ==
    IF text = None THEN "steady"
    ELSE IF Grade[text] = "critical" THEN "pre-failure"
    ELSE IF Grade[text] = "warning" THEN "pre-incident" ELSE "steady"

OfTraces(t) ==
    IF t.latency > 5000 THEN "pre-failure"
    ELSE IF t.latency > 1000 THEN "pre-incident"
    ELSE IF Rate(t) > 50 /\ t.failed >= 10 THEN "pre-failure"
    ELSE IF Rate(t) > 10 THEN "pre-incident"
    ELSE IF t.failed > 50 THEN "pre-failure"
    ELSE IF t.failed > 10 THEN "pre-incident" ELSE "steady"

ClassifySignal(text, t, incident) ==
    IF OfText(text) # "steady" THEN OfText(text)
    ELSE IF OfTraces(t) # "steady" THEN OfTraces(t)
    ELSE IF incident THEN "during" ELSE "steady"

\* PredictState: similarity with a boost for the same phase and one for the
\* same service.
Similarity(s, text, phase, f) ==
    (Alike[text, f.text] * (IF f.phase = phase /\ phase # "steady" THEN 11 ELSE 10)
                         * (IF f.service = s THEN 15 ELSE 10)) \div 100

\* The best match, if it is good enough; among equals, the first that was read.
Matches(d, s, text, phase) ==
    {f \in known[d] : /\ Similarity(s, text, phase, f) > 60
                      /\ \A g \in known[d] :
                            Similarity(s, text, phase, g) <= Similarity(s, text, phase, f)}

Patterns == {f.phase : f \in Past}

\* ------------------------------ the daemons ------------------------------

Init ==
    /\ now = 0 /\ pidFile = None
    /\ life = [d \in Daemons |-> "new"]
    /\ known = [d \in Daemons |-> {}]
    /\ past \in {{}, Past}
    /\ last = [d \in Daemons |-> [s \in Services |-> None]]
    /\ scans = [d \in Daemons |-> Resting]
    /\ disk = {} /\ said = {} /\ overlapped = FALSE

Tick ==
    /\ now < MaxTime
    /\ now' = now + 1
    /\ UNCHANGED <<pidFile, life, known, past, last, scans, disk, said, overlapped>>

\* An incident leaves its lifecycle behind.
Learn(f) ==
    /\ past' = past \cup {f}
    /\ UNCHANGED <<now, pidFile, life, known, last, scans, disk, said, overlapped>>

\* handleStart: a daemon gives up when that of the PID file is alive.
Check(d) ==
    /\ life[d] = "new"
    /\ life' = [life EXCEPT ![d] = IF pidFile # None /\ Alive(pidFile) THEN "gone" ELSE "checked"]
    /\ UNCHANGED <<now, pidFile, known, past, last, scans, disk, said, overlapped>>

\* Fingerprints are replaced by those of the files, unless there are none.
Loaded(d) == IF past = {} THEN known[d] ELSE past

\* The PID file is written, or only a warning; then the first tick begins.
Start(d) ==
    /\ life[d] = "checked"
    /\ pidFile' \in {pidFile, d}
    /\ life' = [life EXCEPT ![d] = "up"]
    /\ known' = [known EXCEPT ![d] = Loaded(d)]
    /\ scans' = [scans EXCEPT ![d] = [s \in Services |-> [Done EXCEPT !.phase = "scan"]]]
    /\ overlapped' = (overlapped \/ Up # {})
    /\ UNCHANGED <<now, past, last, disk, said>>

\* The next tick comes when all scans of this one have ended; every tenth one
\* loads the fingerprints first.
NextTick(d) ==
    /\ life[d] = "up" /\ \A s \in Services : scans[d][s].phase = "done"
    /\ scans' = [scans EXCEPT ![d] = [s \in Services |-> [Done EXCEPT !.phase = "scan"]]]
    /\ known' \in {known, [known EXCEPT ![d] = Loaded(d)]}
    /\ UNCHANGED <<now, pidFile, life, past, last, disk, said, overlapped>>

Recent(d, s) == last[d][s] # None /\ now - last[d][s] < Quiet

\* As RecentOnDisk, not looking at the disk.
NothingOnDisk(s, pattern) == FALSE

RecentOnDisk(s, pattern) ==
    \E p \in disk : p.service = s /\ p.pattern = pattern /\ now - p.at <= Quiet

Scanned(d, s, scan) == scans' = [scans EXCEPT ![d][s] = scan]

\* Memory, then disk, then memory again, which nobody else has for the service.
Scan(d, s, text, t, incident) ==
    /\ life[d] = "up" /\ scans[d][s].phase = "scan"
    /\ LET found == IF text = None THEN {}
                    ELSE Matches(d, s, text, ClassifySignal(text, t, incident))
           fresh == {f \in found : ~Recent(d, s) /\ ~RecentOnDisk(s, f.phase)}
       IN \/ /\ found = {} \/ fresh # found
             /\ Scanned(d, s, Done)
             /\ UNCHANGED last
          \/ \E f \in fresh :
                /\ Scanned(d, s, [phase |-> "notify", pattern |-> f.phase, at |-> now])
                /\ last' = [last EXCEPT ![d][s] = now]
    /\ UNCHANGED <<now, pidFile, life, known, past, disk, said, overlapped>>

\* Nobody looks at whether the notifiers could be reached.
Notify(d, s) ==
    /\ scans[d][s].phase = "notify" /\ Cardinality(said) < MaxSaid
    /\ said' = said \cup {[id |-> Cardinality(said), by |-> d, service |-> s,
                           pattern |-> scans[d][s].pattern, at |-> scans[d][s].at]}
    /\ Scanned(d, s, [scans[d][s] EXCEPT !.phase = "persist"])
    /\ UNCHANGED <<now, pidFile, life, known, past, last, disk, overlapped>>

\* The file of the prediction, if it can be written, has the time of the write.
Persist(d, s) ==
    /\ scans[d][s].phase = "persist"
    /\ \/ disk' = disk
       \/ \E a \in said :
             /\ a.by = d /\ a.service = s /\ a.at = scans[d][s].at
             /\ disk' = disk \cup {[id |-> a.id, service |-> s, pattern |-> a.pattern, at |-> now]}
    /\ Scanned(d, s, Done)
    /\ UNCHANGED <<now, pidFile, life, known, past, last, said, overlapped>>

Gone(d) ==
    /\ life' = [life EXCEPT ![d] = "gone"]
    /\ scans' = [scans EXCEPT ![d] = Resting]

\* handleStop: the process ends without its scans, and the file goes.
Stop ==
    /\ pidFile # None
    /\ IF Alive(pidFile) THEN Gone(pidFile) ELSE UNCHANGED <<life, scans>>
    /\ pidFile' = None
    /\ UNCHANGED <<now, known, past, last, disk, said, overlapped>>

Crash(d) ==
    /\ Alive(d) /\ Gone(d)
    /\ UNCHANGED <<now, pidFile, known, past, last, disk, said, overlapped>>

\* handlePurge: files that are older than asked, none too young.
Purge(age) ==
    /\ disk' = {p \in disk : p.at + age >= now}
    /\ UNCHANGED <<now, pidFile, life, known, past, last, scans, said, overlapped>>

Next ==
    \/ Tick \/ Stop
    \/ \E f \in Past : Learn(f)
    \/ \E age \in Ages : Purge(age)
    \/ \E d \in Daemons : Check(d) \/ Start(d) \/ NextTick(d) \/ Crash(d)
    \/ \E d \in Daemons, s \in Services : Notify(d, s) \/ Persist(d, s)
    \/ \E d \in Daemons, s \in Services, text \in Texts \cup {None}, t \in Traces,
          incident \in BOOLEAN : Scan(d, s, text, t, incident)

Spec == Init /\ [][Next]_vars

\* ------------------------------ properties -------------------------------

TypeOK ==
    /\ now \in 0..MaxTime /\ pidFile \in Daemons \cup {None} /\ overlapped \in BOOLEAN
    /\ life \in [Daemons -> {"new", "checked", "up", "gone"}]
    /\ past \subseteq Past /\ \A d \in Daemons : known[d] \subseteq past
    /\ \A d \in Daemons, s \in Services :
          /\ last[d][s] # None => last[d][s] <= now
          /\ scans[d][s].phase \in {"done", "scan", "notify", "persist"}
          /\ scans[d][s].phase # "done" => life[d] = "up"
    /\ \A p \in disk : /\ \E a \in said : a.id = p.id
                       /\ p.service \in Services /\ p.pattern \in Patterns /\ p.at <= now

\* A service is announced once in a while: by one daemon never twice within
\* Quiet, whatever it matches; by one that follows it, after a stop or a crash,
\* not with the same pattern, as long as the file of the first announcement was
\* written and has not been purged.
QuietAfterAnnouncing ==
    [][\A b \in said' \ said, a \in said :
          a.service = b.service =>
             /\ a.by = b.by => b.at - a.at >= Quiet
             /\ a.pattern = b.pattern /\ ~overlapped /\ (\E p \in disk : p.id = a.id)
                   => b.at - a.at > Quiet]_vars

=============================================================================

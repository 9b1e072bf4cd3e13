------------------------------ MODULE Notifier ------------------------------
(***************************************************************************)
(* One notifier of a process (src/internal/notify/slack): the circuit      *)
(* breaker and the retries of resilience.go around the retries of Slack    *)
(* (sender.go), of PagerDuty (pagerduty.go) or of Jira, which has none.    *)
(* The callers are the goroutines that start and resolve incidents; they   *)
(* wait for the answer, with thirty seconds for all notifiers of an event. *)
(***************************************************************************)
EXTENDS Naturals

CONSTANTS Callers,
          Threshold,    \* failures before the circuit opens, at least 1
          MaxRetries,   \* of the resilience settings
          SlackRetries, \* 3, whatever the configuration says
          PdAttempts    \* max_retries of PagerDuty, which counts attempts; 3
                        \* when none are configured, with no upper bound

VARIABLES kind,         \* "slack", "pagerduty" or "jira"
          up,           \* the provider answers
          breaker,      \* state: "closed" or "open", never half open
          failCount,    \* capped at the threshold
          cooled,       \* resetTimeout has passed since lastFailure
          pc,           \* of each caller; "ok" and "failed" await recordResult
          round,        \* retries of the breaker's wrapper so far
          attempt,      \* retries of the notifier itself in this round
          expired,      \* the context of the caller is done
          failed        \* failures recorded since the circuit last closed, capped

vars == <<kind, up, breaker, failCount, cooled, pc, round, attempt, expired, failed>>
circuit == <<breaker, failCount, cooled, failed>>

\* backoffDurations of PagerDuty has three entries, which are waited for between
\* four attempts.
BackoffTable == 0..2

ConstantsAssumption ==
    /\ Threshold \in Nat \ {0} /\ MaxRetries \in Nat /\ SlackRetries \in Nat
    /\ PdAttempts \in Nat \ {0}

\* The last conjunct says what kills the process: too many attempts of PagerDuty.
TypeOK ==
    /\ kind \in {"slack", "pagerduty", "jira"} /\ up \in BOOLEAN
    /\ breaker \in {"closed", "open"} /\ cooled \in BOOLEAN
    /\ failCount \in 0..Threshold /\ failed \in 0..Threshold
    /\ pc \in [Callers -> {"idle", "send", "backoff", "again", "ok", "failed", "dead"}]
    /\ round \in [Callers -> 0..MaxRetries] /\ expired \in [Callers -> BOOLEAN]
    /\ attempt \in [Callers -> Nat]
    /\ \A c \in Callers : pc[c] = "dead" => kind = "pagerduty" /\ PdAttempts > 4

Capped(n) == IF n > Threshold THEN Threshold ELSE n

Init ==
    /\ kind \in {"slack", "pagerduty", "jira"} /\ up = TRUE
    /\ breaker = "closed" /\ failCount = 0 /\ cooled = FALSE
    /\ pc = [c \in Callers |-> "idle"]
    /\ round = [c \in Callers |-> 0] /\ attempt = [c \in Callers |-> 0]
    /\ expired = [c \in Callers |-> FALSE]
    /\ failed = 0

Step(c, at) == pc' = [pc EXCEPT ![c] = at]

\* allowRequest: once the circuit has cooled everyone is let through. The time
\* of an event may be over, spent by the notifiers that come before this one.
Begin(c) ==
    /\ pc[c] = "idle"
    /\ breaker = "closed" \/ cooled
    /\ Step(c, "send")
    /\ round' = [round EXCEPT ![c] = 0] /\ attempt' = [attempt EXCEPT ![c] = 0]
    /\ \E e \in BOOLEAN : expired' = [expired EXCEPT ![c] = e]
    /\ UNCHANGED <<kind, up, circuit>>

AttemptsLeft(c) ==
    CASE kind = "slack" -> attempt[c] < SlackRetries
      [] kind = "pagerduty" -> attempt[c] + 1 < PdAttempts
      [] OTHER -> FALSE

Send(c) ==
    /\ pc[c] = "send"
    /\ Step(c, IF up /\ ~expired[c] THEN "ok"
               ELSE IF kind = "slack" /\ expired[c] THEN "again"
               ELSE IF AttemptsLeft(c) THEN "backoff" ELSE "again")
    /\ UNCHANGED <<kind, up, circuit, round, attempt, expired>>

\* PagerDuty reads the table before it checks the index: past its end the panic
\* ends the process, which nothing recovers.
Backoff(c) ==
    /\ pc[c] = "backoff"
    /\ IF kind = "pagerduty" /\ attempt[c] \notin BackoffTable
       THEN pc' = [d \in Callers |-> "dead"] /\ UNCHANGED attempt
       ELSE /\ Step(c, IF expired[c] THEN "again" ELSE "send")
            /\ attempt' = [attempt EXCEPT ![c] = @ + 1]
    /\ UNCHANGED <<kind, up, circuit, round, expired>>

\* As Again, with a round too many.
AgainOnceMore(c) ==
    /\ pc[c] = "again"
    /\ IF round[c] <= MaxRetries /\ ~expired[c]
       THEN /\ Step(c, "send")
            /\ round' = [round EXCEPT ![c] = @ + 1]
            /\ attempt' = [attempt EXCEPT ![c] = 0]
       ELSE Step(c, "failed") /\ UNCHANGED <<round, attempt>>
    /\ UNCHANGED <<kind, up, circuit, expired>>

\* The next round of ResilientNotifier, unless the time is over.
Again(c) ==
    /\ pc[c] = "again"
    /\ IF round[c] < MaxRetries /\ ~expired[c]
       THEN /\ Step(c, "send")
            /\ round' = [round EXCEPT ![c] = @ + 1]
            /\ attempt' = [attempt EXCEPT ![c] = 0]
       ELSE Step(c, "failed") /\ UNCHANGED <<round, attempt>>
    /\ UNCHANGED <<kind, up, circuit, expired>>

\* recordResult. A success while the circuit is closed counts for nothing, and
\* a failure while it is open makes it cool anew.
RecordFailure ==
    /\ failCount' = Capped(failCount + 1)
    /\ failed' = Capped(failed + 1)
    /\ cooled' = FALSE
    /\ breaker' = IF failCount' >= Threshold THEN "open" ELSE breaker

\* As RecordSuccess, without setting the count back.
RecordSuccessKeepsCount ==
    /\ breaker' = "closed"
    /\ failed' = IF breaker = "open" THEN 0 ELSE failed
    /\ UNCHANGED <<cooled, failCount>>

\* As RecordSuccess, waiting for a half-open circuit, which there never is.
RecordSuccessHalfOpen ==
    /\ IF breaker = "half-open" THEN breaker' = "closed" /\ failCount' = 0 /\ failed' = 0
       ELSE UNCHANGED <<breaker, failCount, failed>>
    /\ UNCHANGED cooled

RecordSuccess ==
    /\ IF breaker = "open" THEN breaker' = "closed" /\ failCount' = 0 /\ failed' = 0
       ELSE UNCHANGED <<breaker, failCount, failed>>
    /\ UNCHANGED cooled

Record(c) ==
    /\ \/ pc[c] = "ok" /\ RecordSuccess
       \/ pc[c] = "failed" /\ RecordFailure
    /\ Step(c, "idle")
    /\ UNCHANGED <<kind, up, round, attempt, expired>>

\* --------------------------- the environment -----------------------------

Cool ==
    /\ breaker = "open" /\ cooled' = TRUE
    /\ UNCHANGED <<kind, up, breaker, failCount, pc, round, attempt, expired, failed>>

Switch ==
    /\ up' = ~up
    /\ UNCHANGED <<kind, circuit, pc, round, attempt, expired>>

\* The time of an event is over during a request or between two.
Expire(c) ==
    /\ pc[c] \in {"send", "backoff", "again"}
    /\ expired' = [expired EXCEPT ![c] = TRUE]
    /\ UNCHANGED <<kind, up, circuit, pc, round, attempt>>

Notify(c) == Begin(c) \/ Send(c) \/ Backoff(c) \/ Again(c) \/ Record(c)
Next == Cool \/ Switch \/ \E c \in Callers : Notify(c) \/ Expire(c)

Fairness ==
    /\ WF_vars(Cool)
    /\ \A c \in Callers : WF_vars(Send(c) \/ Backoff(c) \/ Again(c) \/ Record(c))

Spec == Init /\ [][Next]_vars /\ Fairness

\* ------------------------------ properties -------------------------------

\* The circuit opens only when so many notifications have failed since it last
\* closed: what had made it open before does not count again.
TripsOnFailures ==
    [][breaker = "closed" /\ breaker' = "open" => failed' >= Threshold]_vars

\* A caller has no time left, or begins with none.
TimeRunsOut == \E c \in Callers : expired'[c] /\ (expired[c] => pc[c] = "idle" /\ pc'[c] = "send")

\* When the provider answers again and there are events to notify of, which the
\* other notifiers leave some of their thirty seconds, the circuit closes and
\* stays closed, unless the process dies. The time is needed: a request that
\* has none left fails and keeps the circuit of a provider open that is up.
Recovers ==
    /\ WF_vars(\E c \in Callers : Begin(c))
    /\ <>[]up
    /\ <>[][~TimeRunsOut]_vars
    => <>[](breaker = "closed" \/ \A c \in Callers : pc[c] = "dead")

=============================================================================

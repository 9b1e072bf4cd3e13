----------------------------- MODULE PromClient -----------------------------
(***************************************************************************)
(* A client of Prometheus that the goroutines of one analysis share        *)
(* (src/internal/analyse/prometheus/prometheus.go): the spacing of         *)
(* requests, their repetition, and the answers that are kept for as long   *)
(* as the client lives: the names of the metrics and the series of one.    *)
(*                                                                         *)
(* Time is in intervals of the limit on queries per second; what is left   *)
(* of a wait is kept, not the time it ends.                                *)
(***************************************************************************)
EXTENDS Naturals

CONSTANTS Callers,      \* goroutines
          MaxRetries,   \* 2
          Interval,     \* between two requests to one address, at least 1
          Backoffs,     \* what is waited before each repetition
          MaxCalls,     \* bound on the calls of a goroutine
          None

ConstantsAssumption ==
    /\ None \notin Callers
    /\ MaxRetries \in Nat /\ Interval \in Nat /\ MaxCalls \in Nat
    /\ Backoffs \in [1..MaxRetries -> Nat]

Queries == {"names", "series", "instant", "vector"}

VARIABLES server,       \* "up", "failing" (times out, or 5xx), "refusing"
          rest,         \* until the limiter's interval has passed
          pc,           \* of each goroutine
          asked,        \* its call
          wait,         \* what is left of its sleep
          attempt,      \* repetitions so far
          answer,       \* of its last call
          calls,
          names,        \* metricNamesLoaded: the names are kept, even none at all
          series,       \* the series are in the cache
          lock          \* who holds mu for writing

vars == <<server, rest, pc, asked, wait, attempt, answer, calls, names, series, lock>>
call == <<asked, calls>>
cache == <<names, series, lock>>

Answers == {None, "value", "no data", "error"}

Init ==
    /\ server = "up" /\ rest = 0
    /\ pc = [c \in Callers |-> "idle"] /\ asked = [c \in Callers |-> None]
    /\ wait = [c \in Callers |-> 0] /\ attempt = [c \in Callers |-> 0]
    /\ answer = [c \in Callers |-> None] /\ calls = [c \in Callers |-> 0]
    /\ names = FALSE /\ series = FALSE /\ lock = None

Step(c, at) == pc' = [pc EXCEPT ![c] = at]

Turn(s) ==
    /\ server # s
    /\ server' = s
    /\ UNCHANGED <<rest, pc, call, wait, attempt, answer, cache>>

\* Time passes for all who sleep.
Less(n) == IF n = 0 THEN 0 ELSE n - 1

Tick ==
    /\ rest > 0 \/ \E c \in Callers : wait[c] > 0
    /\ rest' = Less(rest)
    /\ wait' = [c \in Callers |-> Less(wait[c])]
    /\ UNCHANGED <<server, pc, call, attempt, answer, cache>>

\* ------------------------------- the calls -------------------------------

Begins(c, kind) ==
    /\ pc[c] = "idle" /\ calls[c] < MaxCalls
    /\ asked' = [asked EXCEPT ![c] = kind]
    /\ calls' = [calls EXCEPT ![c] = @ + 1]
    /\ attempt' = [attempt EXCEPT ![c] = 0]

Return(c, what) == Step(c, "idle") /\ answer' = [answer EXCEPT ![c] = what]

\* QueryInstant and QueryVector, which nothing keeps; TargetsStatus asks as the
\* latter does, and no targets are an answer like any other.
Query(c, kind) ==
    /\ kind \in {"instant", "vector"}
    /\ Begins(c, kind)
    /\ Step(c, "throttle")
    /\ UNCHANGED <<server, rest, wait, answer, cache>>

\* Series looks into the cache, for which nobody may be writing: whoever
\* fetches the names does so with the lock held.
Series(c) ==
    /\ lock = None
    /\ Begins(c, "series")
    /\ IF series THEN Return(c, "value") ELSE Step(c, "throttle") /\ UNCHANGED answer
    /\ UNCHANGED <<server, rest, wait, cache>>

MetricNames(c) ==
    /\ lock = None
    /\ Begins(c, "names")
    /\ IF names THEN Return(c, "value") ELSE Step(c, "lock") /\ UNCHANGED answer
    /\ UNCHANGED <<server, rest, wait, cache>>

\* As LockNames, without the second look at the cache.
LockNamesUnchecked(c) ==
    /\ pc[c] = "lock" /\ lock = None
    /\ Step(c, "throttle") /\ lock' = c
    /\ UNCHANGED <<server, rest, call, wait, attempt, answer, names, series>>

\* "Double check after acquiring write lock".
LockNames(c) ==
    /\ pc[c] = "lock" /\ lock = None
    /\ IF names THEN Return(c, "value") /\ UNCHANGED lock
                ELSE Step(c, "throttle") /\ lock' = c /\ UNCHANGED answer
    /\ UNCHANGED <<server, rest, call, wait, attempt, names, series>>

\* ------------------------------- a request -------------------------------

\* throttle: what there is to wait is read once, with the lock of the limiters;
\* the sleep is without it.
Throttle(c) ==
    /\ pc[c] = "throttle"
    /\ IF rest > 0 THEN /\ Step(c, "sleep")
                        /\ wait' = [wait EXCEPT ![c] = rest]
                        /\ UNCHANGED rest
                   ELSE Step(c, "send") /\ rest' = Interval /\ UNCHANGED wait
    /\ UNCHANGED <<server, call, attempt, answer, cache>>

\* The time of the last request is set anew; that another one was let through
\* since is not looked at.
Wake(c) ==
    /\ pc[c] = "sleep" /\ wait[c] = 0
    /\ Step(c, "send") /\ rest' = Interval
    /\ UNCHANGED <<server, call, wait, attempt, answer, cache>>

\* isRetryableError: a refused connection is final, and so is any other status.
Retryable == server = "failing"

Unlocked(c) == IF lock = c THEN None ELSE lock

\* What was asked is answered with none, one or many results.
InstantAnswer(n) == IF n = 0 THEN "no data" ELSE IF n = 1 THEN "value" ELSE "error"
VectorAnswer(n) == IF n = 0 THEN "no data" ELSE "value"

ReadWhole(c) ==
    \E n \in 0..2 :
        CASE asked[c] = "names" -> /\ Return(c, "value") /\ names' = TRUE
                                   /\ lock' = Unlocked(c) /\ UNCHANGED series
          [] asked[c] = "series" ->
                /\ IF n = 0 THEN Return(c, "no data") ELSE Step(c, "store") /\ UNCHANGED answer
                /\ UNCHANGED cache
          [] asked[c] = "instant" -> Return(c, InstantAnswer(n)) /\ UNCHANGED cache
          [] asked[c] = "vector" -> Return(c, VectorAnswer(n)) /\ UNCHANGED cache

\* A body that is not what was asked for, or breaks off, is an error; but
\* QueryVector goes on with the next sample when one cannot be decoded, and of
\* a body that breaks off within a sample it reads that one for ever.
ReadBroken(c) ==
    \/ /\ asked[c] = "vector" /\ Step(c, "decoding")
       /\ UNCHANGED <<answer, cache>>
    \/ /\ Return(c, "error") /\ lock' = Unlocked(c)
       /\ UNCHANGED <<names, series>>

Read(c) == ReadWhole(c) \/ ReadBroken(c)

\* As Send, returning an error without the unlock.
SendKeepsLock(c) ==
    /\ pc[c] = "send"
    /\ IF server = "up" THEN Read(c) /\ UNCHANGED <<wait, attempt>>
       ELSE IF Retryable /\ attempt[c] < MaxRetries
       THEN /\ Step(c, "backoff")
            /\ attempt' = [attempt EXCEPT ![c] = @ + 1]
            /\ wait' = [wait EXCEPT ![c] = Backoffs[attempt[c] + 1]]
            /\ UNCHANGED <<answer, cache>>
       ELSE Return(c, "error") /\ UNCHANGED <<wait, attempt, cache>>
    /\ UNCHANGED <<server, rest, call>>

\* A request ends in an answer, a repetition, or an error, with which the lock
\* of the names is given back.
Send(c) ==
    /\ pc[c] = "send"
    /\ IF server = "up" THEN Read(c) /\ UNCHANGED <<wait, attempt>>
       ELSE IF Retryable /\ attempt[c] < MaxRetries
       THEN /\ Step(c, "backoff")
            /\ attempt' = [attempt EXCEPT ![c] = @ + 1]
            /\ wait' = [wait EXCEPT ![c] = Backoffs[attempt[c] + 1]]
            /\ UNCHANGED <<answer, cache>>
       ELSE /\ Return(c, "error") /\ lock' = Unlocked(c)
            /\ UNCHANGED <<wait, attempt, names, series>>
    /\ UNCHANGED <<server, rest, call>>

Again(c) ==
    /\ pc[c] = "backoff" /\ wait[c] = 0
    /\ Step(c, "throttle")
    /\ UNCHANGED <<server, rest, call, wait, attempt, answer, cache>>

Store(c) ==
    /\ pc[c] = "store" /\ lock = None
    /\ Return(c, "value") /\ series' = TRUE
    /\ UNCHANGED <<server, rest, call, wait, attempt, names, lock>>

\* What a goroutine does once it has called.
Proceed(c) ==
    LockNames(c) \/ Throttle(c) \/ Wake(c) \/ Send(c) \/ Again(c) \/ Store(c)

Next ==
    \/ Tick
    \/ \E s \in {"up", "failing", "refusing"} : Turn(s)
    \/ \E c \in Callers : MetricNames(c) \/ Series(c) \/ Proceed(c)
    \/ \E c \in Callers, kind \in Queries : Query(c, kind)

Spec == Init /\ [][Next]_vars

\* Goroutines run, sleeps end, and whoever waits for the lock gets it in the end,
\* as waiters for a RWMutex do. That Prometheus answers is not assumed.
FairSpec == Spec /\ WF_vars(Tick) /\ \A c \in Callers : SF_vars(Proceed(c))

\* ------------------------------ properties -------------------------------

\* In range: no more repetitions than there are waits for, and only a vector is
\* decoded without end.
TypeOK ==
    /\ server \in {"up", "failing", "refusing"} /\ rest \in 0..Interval
    /\ pc \in [Callers -> {"idle", "lock", "throttle", "sleep", "send", "backoff", "store",
                         "decoding"}]
    /\ \A c \in Callers : pc[c] = "decoding" => asked[c] = "vector"
    /\ asked \in [Callers -> Queries \cup {None}] /\ answer \in [Callers -> Answers]
    /\ attempt \in [Callers -> 0..MaxRetries] /\ calls \in [Callers -> 0..MaxCalls]
    /\ wait \in [Callers -> Nat]
    /\ names \in BOOLEAN /\ series \in BOOLEAN /\ lock \in Callers \cup {None}

\* The names of all metrics, the largest answer there is, are fetched by one
\* goroutine at a time, and never again once they are known, however many ask
\* for them at once and however often a fetch failed before (prometheus.go: the
\* lock is held over the request).
Fetching(c) == asked[c] = "names" /\ pc[c] \in {"throttle", "sleep", "send", "backoff"}

NamesFetchedOnce ==
    \A c \in Callers : Fetching(c) => ~names /\ \A d \in Callers \ {c} : ~Fetching(d)

\* A call that was begun comes to an end, with whatever answer, also while
\* another goroutine fetches the names with the lock held, Prometheus does not
\* answer, or others never get out of the loop of QueryVector: the retries are
\* bounded, errors unlock, and that loop holds no lock (prometheus.go). A call
\* does not end when it is itself in that loop.
CallsEnd == \A c \in Callers : pc[c] # "idle" ~> pc[c] \in {"idle", "decoding"}

=============================================================================

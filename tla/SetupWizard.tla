---------------------------- MODULE SetupWizard ----------------------------
(***************************************************************************)
(* The wizard of --init (src/internal/config/wizard.go): one question per  *)
(* step, connection tests and the discovery of services in the background. *)
(*                                                                         *)
(* The user presses enter, on a text or on nothing, or gives up. A text is *)
(* reduced to whether there is one. The wizard never puts "elastic" among  *)
(* the backends and never sees the key of the instant test: both are left  *)
(* out, as are the steps that only fill in numbers.                        *)
(***************************************************************************)
EXTENDS Naturals, FiniteSets

CONSTANTS Offered       \* backends that can be chosen

VARIABLES step,
          backends,     \* the backends chosen
          urls,         \* backends whose URL is not empty
          creds,        \* backends with credentials in the configuration
          infra,        \* answers about the cluster that are still missing
          testing,      \* testingConn
          result,       \* the backend testResult speaks of, or "none"
          tests,        \* connection tests in flight
          discovery     \* what the discovery will answer next, or "none"

vars == <<step, backends, urls, creds, infra, testing, result, tests, discovery>>
test == <<testing, result, tests>>

Tested == {"prometheus", "loki", "trace"}

\* The steps that ask about a backend, in order, and the answers about the
\* cluster.
UrlStep(b) == [ask |-> "url", of |-> b]
AuthStep(b) == [ask |-> "auth", of |-> b]
Infra(a) == [ask |-> "infra", of |-> a]
Ask(a) == [ask |-> a, of |-> "none"]
Backends == <<"prometheus", "loki", "grafana", "trace">>
InfraOrder == <<"kubeconfig", "context", "awsconfig", "awsprofile", "region">>
Tail == <<"flows", "alerts", "slack", "pagerduty", "capacity", "summary", "done">>

ConstantsAssumption == Offered \subseteq {Backends[i] : i \in 1..4}

TypeOK ==
    /\ step.ask \in {"name", "backends", "infra", "url", "auth", "discovery"} \cup {Tail[i] : i \in 1..7}
    /\ backends \subseteq Offered /\ urls \subseteq backends /\ creds \subseteq backends
    /\ infra \subseteq {InfraOrder[i] : i \in 1..5}
    /\ testing \in BOOLEAN /\ tests \subseteq Tested
    /\ result \in Tested \cup {"none"}
    /\ discovery \in {"none", "global", "services", "deep"}

FirstIn(order, set) ==
    order[CHOOSE i \in DOMAIN order :
             order[i] \in set /\ \A j \in 1..(i - 1) : order[j] \notin set]

\* A cluster asks for its kubeconfig, its context and the three answers about
\* AWS; preferences from the command line may have filled in two of them.
Init ==
    /\ step = Ask("name")
    /\ backends = {} /\ urls = {} /\ creds = {}
    /\ infra \in {{}} \cup {{"context", "awsconfig", "awsprofile"} \cup m :
                              m \in SUBSET {"kubeconfig", "region"}}
    /\ testing = FALSE /\ result = "none" /\ tests = {}
    /\ discovery = "none"

NextStep(us, inf) ==
    LET missing == (backends' \ us) \ (IF step = AuthStep("loki") THEN {"loki"} ELSE {})
    IN IF inf # {} THEN Infra(FirstIn(InfraOrder, inf))
       ELSE IF missing # {} THEN UrlStep(FirstIn(Backends, missing))
       ELSE Ask("discovery")

GoToNextBackendStep ==
    /\ step' = NextStep(urls', infra')
    /\ discovery' = IF step' = Ask("discovery") THEN "global" ELSE discovery
    /\ result' = "none"

ProfileName ==
    /\ step = Ask("name")
    /\ step' = Ask("backends")
    /\ UNCHANGED <<backends, urls, creds, infra, test, discovery>>

ChooseBackends ==
    /\ step = Ask("backends")
    /\ backends' \in SUBSET Offered
    /\ UNCHANGED <<urls, creds, infra, testing, tests>>
    /\ GoToNextBackendStep

\* The answers about the cluster follow one another once the first is asked;
\* an empty context or region, also when it was known, is asked for again.
AnswerInfra(filled) ==
    /\ step.ask = "infra"
    /\ infra' = IF step.of \in {"context", "region"} /\ ~filled THEN infra \cup {step.of}
                ELSE infra \ {step.of}
    /\ UNCHANGED <<backends, urls, creds, testing, tests>>
    /\ IF step.of = "region" THEN GoToNextBackendStep
       ELSE /\ step' = Infra(InfraOrder[(CHOOSE i \in 1..4 : InfraOrder[i] = step.of) + 1])
            /\ UNCHANGED <<result, discovery>>

AnswerUrl(filled) ==
    /\ step.ask = "url"
    /\ urls' = IF filled THEN urls \cup {step.of} ELSE urls \ {step.of}
    /\ step' = AuthStep(step.of)
    /\ UNCHANGED <<backends, creds, infra, test, discovery>>

CredsAfter(b, filled) ==
    IF filled THEN {creds \cup {b}}
    ELSE CASE b = "loki" -> {creds \ {b}}
           [] b = "grafana" -> {creds, creds \ {b}}
           [] OTHER -> {creds}

\* The first enter tests the connection, the next one goes on, without waiting
\* for the test; a test still under way elsewhere stands in for this one.
AnswerAuth(filled) ==
    LET b == step.of IN
    /\ step.ask = "auth"
    /\ creds' \in CredsAfter(b, filled)
    /\ UNCHANGED <<backends, urls, infra>>
    /\ IF b \in Tested /\ ~testing /\ result # b
       THEN /\ testing' = TRUE /\ tests' = tests \cup {b}
            /\ result' = "none"
            /\ UNCHANGED <<step, discovery>>
       ELSE UNCHANGED <<testing, tests>> /\ GoToNextBackendStep

\* The questions after the discovery, up to the summary.
AnswerTail ==
    \E i \in 1..6 :
        /\ step = Ask(Tail[i])
        /\ step' = Ask(Tail[i + 1])
        /\ result' = IF i <= 2 THEN "none" ELSE result
        /\ UNCHANGED <<backends, urls, creds, infra, testing, tests, discovery>>

GiveUp ==
    /\ step.ask # "done"
    /\ step' = Ask("done")
    /\ UNCHANGED <<backends, urls, creds, infra, test, discovery>>

\* ------------------------------- messages --------------------------------

\* textResultMsg, whatever step the wizard is in by now.
TestReturns(b) ==
    /\ b \in tests /\ tests' = tests \ {b}
    /\ testing' = FALSE /\ result' = b
    /\ UNCHANGED <<step, backends, urls, creds, infra, discovery>>

\* As GlobalMetadata, not asking for the services.
GlobalMetadataOnly ==
    /\ discovery = "global" /\ discovery' = "none"
    /\ UNCHANGED <<step, backends, urls, creds, infra, test>>

\* globalMetadataResultMsg asks for the services, servicesResultMsg for their
\* metrics; both the services and the metrics set the step.
GlobalMetadata ==
    /\ discovery = "global" /\ discovery' = "services"
    /\ UNCHANGED <<step, backends, urls, creds, infra, test>>

ServicesReturn ==
    /\ discovery = "services" /\ discovery' = "deep"
    /\ step' = Ask("flows")
    /\ result' = "none"
    /\ UNCHANGED <<backends, urls, creds, infra, testing, tests>>

DeepDiscovery ==
    /\ discovery = "deep" /\ discovery' = "none"
    /\ step' = Ask("flows")
    /\ UNCHANGED <<backends, urls, creds, infra, test>>

Returns ==
    \/ \E b \in tests : TestReturns(b)
    \/ GlobalMetadata \/ ServicesReturn \/ DeepDiscovery

Enter ==
    \/ ProfileName \/ ChooseBackends \/ AnswerTail
    \/ \E filled \in BOOLEAN : AnswerInfra(filled) \/ AnswerUrl(filled) \/ AnswerAuth(filled)

Next == step.ask # "done" /\ (Enter \/ GiveUp \/ Returns)

Fairness == WF_vars(step.ask # "done" /\ Returns)

Spec == Init /\ [][Next]_vars /\ Fairness

\* ------------------------------ properties -------------------------------

\* The wizard does not stay with the discovery: its answers come, and with the
\* last of them the next question.
DiscoveryEnds == (step = Ask("discovery")) ~> (step # Ask("discovery"))

=============================================================================

----------------------------- MODULE TeamWizard -----------------------------
(***************************************************************************)
(* The wizard for teams (src/internal/config/wizard_teams.go): a preset,   *)
(* the infrastructure, a name, the backends one after the other, and a     *)
(* test of all connections that may be repeated while it runs.             *)
(*                                                                         *)
(* An answer is reduced to whether there is one. Conflicts with other      *)
(* profiles are never looked for, so their question is left out.           *)
(***************************************************************************)
EXTENDS Naturals, Sequences

CONSTANTS Optional,     \* backends that can be skipped, in their order
          MaxTests      \* bound on the tests that run at once

VARIABLES step,
          infra,        \* infraType
          eks,          \* EKS.Enabled
          urls,         \* backends with a URL; "prometheus" may be among them
          asked,        \* answers about the cluster that were asked for
          result,       \* testResult: "none", "running", or what it tells
          tests,        \* tests in flight
          sampling,     \* samplings in flight
          saved         \* the profile was written when the wizard ended

vars == <<step, infra, eks, urls, asked, result, tests, sampling, saved>>

Infras == {"bare-metal", "kubernetes", "eks"}
Cluster == {"kubeconfig", "context", "awsconfig", "awsprofile", "region"}
Outcomes == {"failures", "prometheus", "others"}

At(a, b) == [ask |-> a, of |-> b]
Ask(a) == At(a, "none")

\* One test can run at least.
ConstantsAssumption == MaxTests \in Nat \ {0}

TypeOK ==
    /\ step.ask \in {"intro", "preset", "confirm", "infra", "cluster", "name", "url", "auth",
                     "index", "slack", "pagerduty", "test", "sampling", "done", "over"}
    /\ infra \in Infras /\ eks \in BOOLEAN /\ saved \in BOOLEAN
    /\ asked \subseteq Cluster
    /\ result \in Outcomes \cup {"none", "running"}
    /\ tests \in 0..MaxTests /\ sampling \in {0, 1}

\* Preferences of the command line set the infrastructure and EKS.Enabled.
Init ==
    /\ step = Ask("intro")
    /\ infra \in Infras /\ eks = (infra # "bare-metal")
    /\ urls = {} /\ asked = {}
    /\ result = "none" /\ tests = 0 /\ sampling = 0 /\ saved = FALSE

\* ------------------------------ the start --------------------------------

Confirm ==
    /\ \/ step = Ask("intro") /\ step' = Ask("preset")
       \/ step = Ask("preset") /\ step' = Ask("confirm")
       \/ step = Ask("confirm") /\ step' = Ask("infra")
    /\ UNCHANGED <<infra, eks, urls, asked, result, tests, sampling, saved>>

\* The arrow keys change the infrastructure, not EKS.Enabled.
Arrow ==
    /\ step = Ask("infra")
    /\ infra' \in Infras \ {infra}
    /\ UNCHANGED <<step, eks, urls, asked, result, tests, sampling, saved>>

ChooseInfra ==
    /\ step = Ask("infra")
    /\ step' = IF infra = "bare-metal" THEN Ask("name") ELSE At("cluster", "kubeconfig")
    /\ UNCHANGED <<infra, eks, urls, asked, result, tests, sampling, saved>>

\* As AfterCluster, going by the flag of the command line alone.
AfterClusterByPrefs(a) ==
    CASE a = "kubeconfig" -> At("cluster", "context")
      [] a = "context" -> IF eks THEN At("cluster", "awsconfig") ELSE Ask("name")
      [] a = "awsconfig" -> At("cluster", "awsprofile")
      [] a = "awsprofile" -> IF infra = "eks" THEN At("cluster", "region") ELSE Ask("name")
      [] OTHER -> Ask("name")

AfterCluster(a) ==
    CASE a = "kubeconfig" -> At("cluster", "context")
      [] a = "context" -> IF infra = "eks" \/ eks THEN At("cluster", "awsconfig")
                          ELSE Ask("name")
      [] a = "awsconfig" -> At("cluster", "awsprofile")
      [] a = "awsprofile" -> IF infra = "eks" THEN At("cluster", "region") ELSE Ask("name")
      [] OTHER -> Ask("name")

AnswerCluster ==
    /\ step.ask = "cluster"
    /\ asked' = asked \cup {step.of}
    /\ step' = AfterCluster(step.of)
    /\ UNCHANGED <<infra, eks, urls, result, tests, sampling, saved>>

\* applyPresetDefaults sets EKS.Enabled; an empty name is refused.
ApplyPresetDefaults == eks' = (infra # "bare-metal")

Name ==
    /\ step = Ask("name")
    /\ ApplyPresetDefaults
    /\ step' = At("url", "prometheus")
    /\ UNCHANGED <<infra, urls, asked, result, tests, sampling, saved>>

\* ----------------------------- the backends ------------------------------

Order == <<"prometheus">> \o Optional

After(b) ==
    LET i == CHOOSE k \in DOMAIN Order : Order[k] = b
    IN IF i < Len(Order) THEN At("url", Order[i + 1]) ELSE Ask("slack")

\* Only Prometheus is asked for its credentials without a URL.
AnswerUrl(filled) ==
    /\ step.ask = "url"
    /\ urls' = IF filled THEN urls \cup {step.of} ELSE urls
    /\ step' = IF filled \/ step.of = "prometheus" THEN At("auth", step.of)
               ELSE After(step.of)
    /\ UNCHANGED <<infra, eks, asked, result, tests, sampling, saved>>

AnswerAuth ==
    /\ \/ step.ask = "auth" /\ step' = IF step.of = "elastic" THEN At("index", step.of)
                                       ELSE After(step.of)
       \/ step.ask = "index" /\ step' = After(step.of)
    /\ UNCHANGED <<infra, eks, urls, asked, result, tests, sampling, saved>>

Slack ==
    /\ step = Ask("slack") /\ step' = Ask("pagerduty")
    /\ UNCHANGED <<infra, eks, urls, asked, result, tests, sampling, saved>>

\* ------------------------------- the test --------------------------------

PagerDuty ==
    /\ step = Ask("pagerduty") /\ step' = Ask("test")
    /\ result' = "running" /\ tests' = tests + 1
    /\ UNCHANGED <<infra, eks, urls, asked, sampling, saved>>

\* The key r, also while a test runs.
Retest ==
    /\ step = Ask("test") /\ tests < MaxTests
    /\ result' = "running" /\ tests' = tests + 1
    /\ UNCHANGED <<step, infra, eks, urls, asked, sampling, saved>>

\* testResultMsg, of any of the tests; a test without Prometheus cannot
\* tell that it is connected.
TestReturns ==
    /\ tests > 0 /\ tests' = tests - 1
    /\ result' \in {o \in Outcomes : o = "prometheus" => "prometheus" \in urls}
    /\ UNCHANGED <<step, infra, eks, urls, asked, sampling, saved>>

\* Enter: failures hold the wizard, a test that runs does not.
Proceed ==
    /\ step = Ask("test") /\ result # "failures"
    /\ IF result = "prometheus" THEN step' = Ask("sampling") /\ sampling' = sampling + 1
       ELSE step' = Ask("done") /\ UNCHANGED sampling
    /\ UNCHANGED <<infra, eks, urls, asked, result, tests, saved>>

\* The key s of the test, and enter while metrics are sampled.
Skip ==
    /\ step \in {Ask("test"), Ask("sampling")} /\ step' = Ask("done")
    /\ UNCHANGED <<infra, eks, urls, asked, result, tests, sampling, saved>>

SamplingReturns ==
    /\ sampling > 0 /\ sampling' = sampling - 1
    /\ step' = Ask("done")
    /\ UNCHANGED <<infra, eks, urls, asked, result, tests, saved>>

\* Esc at any step, or enter on the last one, ends the program; the profile is
\* written once it has a name, however far the wizard has come.
Quit ==
    /\ step' = Ask("over")
    /\ saved' = (step.ask \in {"url", "auth", "index", "slack", "pagerduty", "test",
                               "sampling", "done"})
    /\ eks' = (eks \/ (saved' /\ infra # "bare-metal"))
    /\ UNCHANGED <<infra, urls, asked, result, tests, sampling>>

Next ==
    /\ step.ask # "over"
    /\ \/ Confirm \/ Arrow \/ ChooseInfra \/ AnswerCluster \/ Name
       \/ \E filled \in BOOLEAN : AnswerUrl(filled)
       \/ AnswerAuth \/ Slack \/ PagerDuty \/ Retest \/ TestReturns \/ Proceed
       \/ Skip \/ SamplingReturns \/ Quit

Spec == Init /\ [][Next]_vars

\* ------------------------------ properties -------------------------------

\* However the infrastructure of the command line was changed with the arrow
\* keys, a profile is saved for a cluster when and only when one was chosen,
\* and one for EKS only after all five questions about the cluster.
ProfileFitsInfra ==
    saved => /\ eks = (infra # "bare-metal")
             /\ infra = "eks" => asked = Cluster

=============================================================================

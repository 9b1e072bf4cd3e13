-------------------------- MODULE MCAlertProcessor --------------------------
(***************************************************************************)
(* Instances of AlertProcessor for TLC: two services of one flow, an alert *)
(* firing and resolved under one fingerprint, one of another severity, and *)
(* an SLO breach without a rule.                                           *)
(***************************************************************************)
EXTENDS AlertProcessor, TLC

CONSTANTS s1, s2, f1, k1, k2

OneFlow == [s \in Services |-> f1]

Firing == [key |-> k1, service |-> s1, severity |-> 2, status |-> "firing",
           slo |-> FALSE]
Cleared == [Firing EXCEPT !.status = "resolved"]
Worse == [Firing EXCEPT !.key = k2, !.service = s2, !.severity = 4]
Breach == [Firing EXCEPT !.key = None, !.severity = 1, !.slo = TRUE]

MCAlerts == {Firing, Cleared, Worse, Breach}

RuleFor(as, s, sev, mode) ==
    [alerts |-> as, service |-> s, severity |-> sev, mode |-> mode]

\* First the alert of s1 suggests; after the reload it starts incidents.
MCRuleSets ==
    << <<RuleFor({Firing, Cleared}, s1, 2, "suggest"), RuleFor({Worse}, s2, 4, "auto")>>,
       <<RuleFor({Firing, Cleared, Worse}, s1, 2, "auto")>> >>

\* An incident suggested before the listener was restarted.
OneSuggested == << [service |-> s2, severity |-> 1, created |-> 0,
                    state |-> "Suggested", via |-> "suggest"] >>

WorkerSymmetry == Permutations(Workers)

=============================================================================

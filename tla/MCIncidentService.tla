------------------------- MODULE MCIncidentService -------------------------
(***************************************************************************)
(* Instances of IncidentService for TLC.                                   *)
(***************************************************************************)
EXTENDS IncidentService, TLC

CONSTANTS a1, a2, p1, p2, s1, s2, f1

\* The workers of one listener, or the sessions of one SSH server.
OneProcess == [a \in Actors |-> p1]

\* A command beside a listener, or two commands.
TwoProcesses == (a1 :> p1) @@ (a2 :> p2)

\* Both services are steps of one flow.
SharedFlow == [s \in Services |-> {f1}]

\* The first service is in no flow: services are compared by name.
PartFlow == (s1 :> {}) @@ (s2 :> {f1})

ActorSymmetry == Permutations(Actors)

=============================================================================

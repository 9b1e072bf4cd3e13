-------------------------- MODULE IncidentRegistry --------------------------
(***************************************************************************)
(* What the incident store promises when its operations run concurrently   *)
(* in one process: a registry of incidents.  An ID that is taken stays     *)
(* taken by the same incident, and what is stored under it is always the   *)
(* record of a legal life, though not always the latest one written.       *)
(***************************************************************************)
EXTENDS IncidentRecord

CONSTANTS Ids, None

VARIABLE registry

Init == registry = [i \in Ids |-> None]

\* A free ID is taken by an incident whose life begins.
Register(i) ==
    /\ registry[i] = None
    /\ registry'[i] # None
    /\ Len(registry'[i].events) = 1
    /\ Consistent(registry'[i])
    /\ registry' = [registry EXCEPT ![i] = registry'[i]]

\* A version of the incident replaces another one.
Replace(i) ==
    /\ registry[i] # None
    /\ registry'[i] # None
    /\ SameIncident(registry[i], registry'[i])
    /\ Consistent(registry'[i])
    /\ registry' = [registry EXCEPT ![i] = registry'[i]]

Next == \E i \in Ids : Register(i) \/ Replace(i)

Spec == Init /\ [][Next]_registry

=============================================================================

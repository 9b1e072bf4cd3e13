-------------------------- MODULE IncidentJournal --------------------------
(***************************************************************************)
(* What the incident operations promise to a caller who is alone: every    *)
(* incident is a journal.  Its log only grows, one event at a time, and    *)
(* its state only moves along the transitions of state.go, so a resolved   *)
(* incident stays resolved.                                                *)
(***************************************************************************)
EXTENDS IncidentRecord

CONSTANTS Ids, None

VARIABLE journal

Init == journal = [i \in Ids |-> None]

\* An incident is opened, started or only suggested.
Open(i) ==
    /\ journal[i] = None
    /\ journal'[i] # None
    /\ Len(journal'[i].events) = 1
    /\ Consistent(journal'[i])
    /\ journal' = [journal EXCEPT ![i] = journal'[i]]

Grows(h, g) == Len(g) = Len(h) + 1 /\ SubSeq(g, 1, Len(h)) = h

\* One event is appended; the state stays or makes a legal transition.
Record(i) ==
    LET old == journal[i] new == journal'[i]
    IN  /\ old # None
        /\ new # None
        /\ new.service = old.service
        /\ Grows(old.events, new.events)
        /\ new.state = old.state \/ ValidateTransition(old.state, new.state)
        /\ journal' = [journal EXCEPT ![i] = new]

\* The other fields of the record change freely.
Annotate(i) ==
    LET old == journal[i] new == journal'[i]
    IN  /\ old # None
        /\ new # None
        /\ <<new.service, new.events, new.state>>
             = <<old.service, old.events, old.state>>
        /\ journal' = [journal EXCEPT ![i] = new]

Next == \E i \in Ids : Open(i) \/ Record(i) \/ Annotate(i)

Spec == Init /\ [][Next]_journal

=============================================================================

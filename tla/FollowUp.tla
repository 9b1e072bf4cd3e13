------------------------------ MODULE FollowUp ------------------------------
(***************************************************************************)
(* The commands that finish an incident (src/internal/incident/            *)
(* commands.go, action_commands.go and the prompts they ask): start with a *)
(* description, resolve with its analysis, and the action items. A command *)
(* reads the incident before it asks its questions; the service reads it   *)
(* again, edits the copy and saves all of it.                              *)
(*                                                                         *)
(* An item is the number in its ID, what it is about (a tag nothing else   *)
(* has) and whether it was updated. An analysis is the incident that what  *)
(* was not typed is taken from. Owners, priorities and dates are left out; *)
(* the life of an incident is that of IncidentService.                     *)
(***************************************************************************)
EXTENDS Naturals, Sequences, FiniteSets, Selections

CONSTANTS Procs,        \* commands
          Ids,          \* incidents
          MaxAdded,     \* bound on the items that are added
          MaxCommands,  \* bound on the commands that are given
          None

VARIABLES store,        \* incidents on disk
          cmd,          \* by process: phase, id, chosen item, copy, what comes next
          added, commands,
          deleted       \* an item was deleted

vars == <<store, cmd, added, commands, deleted>>

Item(n, tag) == [seq |-> n, tag |-> tag, updated |-> FALSE]

New(i) == [open |-> TRUE, analysis |-> None, impact |-> FALSE, notes |-> {}, items |-> <<>>]

\* What the file of an incident may hold of this.
Records == [open: BOOLEAN, analysis: Ids \cup {None}, impact: BOOLEAN, notes: SUBSET Ids,
            items: Seq([seq: Nat, tag: Nat, updated: BOOLEAN])]

ConstantsAssumption ==
    None \notin Records /\ None \notin Ids /\ MaxAdded \in Nat /\ MaxCommands \in Nat

Idle == [phase |-> "idle", id |-> None, named |-> FALSE, seq |-> 0, copy |-> None,
         next |-> "idle", analysis |-> None]

Known == {i \in Ids : store[i] # None}

\* Without an ID a command means the only incident that is active.
Active == {i \in Known : store[i].open}
OnlyActive(i) == Active = {i}

Init ==
    /\ store = [i \in Ids |-> None]
    /\ cmd = [p \in Procs |-> Idle]
    /\ added = 0 /\ commands = 0 /\ deleted = FALSE

Goto(p, c) == cmd' = [cmd EXCEPT ![p] = c]

Give(p) ==
    /\ cmd[p].phase = "idle" /\ commands < MaxCommands
    /\ commands' = commands + 1

\* A question that is not answered, or answered with what cannot be parsed.
GiveUp(p) ==
    /\ cmd[p].phase \in {"add", "update", "delete", "resolve", "ask"}
    /\ Goto(p, Idle)
    /\ UNCHANGED <<store, added, commands, deleted>>

\* -------------------------------- start ----------------------------------

\* Start refuses while an incident is active. The description is added by Note,
\* to the incident that is active by then.
Start(p, i) ==
    /\ Give(p)
    /\ store[i] = None /\ Active = {}
    /\ store' = [store EXCEPT ![i] = New(i)]
    /\ \/ Goto(p, [Idle EXCEPT !.phase = "describe", !.id = i])
       \/ UNCHANGED cmd
    /\ UNCHANGED <<added, deleted>>

\* The note says the ID of the incident that was started, by a user who is the
\* description.
Describe(p) ==
    /\ cmd[p].phase = "describe"
    /\ \/ \E i \in Active :
             /\ OnlyActive(i)
             /\ Goto(p, [Idle EXCEPT !.phase = "write", !.id = i,
                                     !.copy = [store[i] EXCEPT !.notes = @ \cup {cmd[p].id}]])
       \/ Cardinality(Active) # 1 /\ Goto(p, Idle)
    /\ UNCHANGED <<store, added, commands, deleted>>

\* ------------------------------ action items -----------------------------

ChooseForAdd(p, i) ==
    /\ Give(p)
    /\ i \in Known
    /\ Goto(p, [Idle EXCEPT !.phase = "add", !.id = i, !.copy = store[i]])
    /\ UNCHANGED <<store, added, deleted>>

\* The operator points at an item of the list; its ID is what is remembered.
ChooseItem(p, i, n, what) ==
    /\ Give(p)
    /\ i \in Known /\ n \in DOMAIN store[i].items
    /\ Goto(p, [Idle EXCEPT !.phase = what, !.id = i, !.seq = store[i].items[n].seq,
                            !.copy = store[i]])
    /\ UNCHANGED <<store, added, deleted>>

\* As Sequence, counting the items of the copy read before the questions.
SequenceOfPrompt(p) == Len(cmd[p].copy.items) + 1

\* The number is one more than there are items.
Sequence(p) == Len(store[cmd[p].id].items) + 1

Write(p, copy) == Goto(p, [cmd[p] EXCEPT !.phase = "write", !.copy = copy])

AddActionItem(p) ==
    /\ cmd[p].phase = "add" /\ added < MaxAdded
    /\ added' = added + 1
    /\ LET r == store[cmd[p].id]
       IN Write(p, [r EXCEPT !.items = Append(@, Item(Sequence(p), added'))])
    /\ UNCHANGED <<store, commands, deleted>>

Numbered(r, n) == {k \in DOMAIN r.items : r.items[k].seq = n}

\* The first item that has the ID, whatever is changed of it.
UpdateActionItem(p) ==
    /\ cmd[p].phase = "update"
    /\ LET r == store[cmd[p].id]
           hits == Numbered(r, cmd[p].seq)
       IN IF hits = {} THEN Goto(p, Idle)
          ELSE LET k == CHOOSE k \in hits : \A j \in hits : k <= j
               IN Write(p, [r EXCEPT !.items[k].updated = TRUE])
    /\ UNCHANGED <<store, added, commands, deleted>>

\* Every item that has the ID.
DeleteActionItem(p) ==
    /\ cmd[p].phase = "delete"
    /\ LET r == store[cmd[p].id]
       IN IF Numbered(r, cmd[p].seq) = {} THEN Goto(p, Idle) /\ UNCHANGED deleted
          ELSE /\ Write(p, [r EXCEPT !.items =
                               Selected(@, DOMAIN @ \ Numbered(r, cmd[p].seq))])
               /\ deleted' = TRUE
    /\ UNCHANGED <<store, added, commands>>

\* Saves the copy, as it was read.
Save(p) ==
    /\ cmd[p].phase = "write"
    /\ store' \in {store, [store EXCEPT ![cmd[p].id] = cmd[p].copy]}
    /\ IF cmd[p].next = "idle" THEN Goto(p, Idle)
       ELSE Goto(p, [Idle EXCEPT !.phase = cmd[p].next, !.id = cmd[p].id,
                                 !.copy = cmd[p].copy])
    /\ UNCHANGED <<added, commands, deleted>>

\* -------------------------------- resolve --------------------------------

\* What is missing of the analysis is taken from the incident as it is now, if
\* there is one; without a full analysis an operator has to confirm.
BeginResolve(p, i, named) ==
    /\ Give(p)
    /\ IF named THEN i \in Known ELSE OnlyActive(i) \/ (Active = {} /\ i = None)
    /\ Goto(p, [Idle EXCEPT !.phase = "resolve", !.id = i, !.named = named,
                            !.analysis = i])
    /\ UNCHANGED <<store, added, deleted>>

\* ResolveByIDWithAnalysis, or ResolveWithAnalysis of what is active by then.
Resolve(p) ==
    /\ cmd[p].phase = "resolve"
    /\ LET targets == IF cmd[p].named THEN {cmd[p].id} ELSE {i \in Active : OnlyActive(i)}
       IN \/ /\ \A i \in targets : ~store[i].open
             /\ Goto(p, Idle)
          \/ \E i \in targets :
                /\ store[i].open
                /\ Goto(p, [cmd[p] EXCEPT !.phase = "save", !.id = i,
                              !.copy = [store[i] EXCEPT !.open = FALSE,
                                                        !.analysis = cmd[p].analysis]])
    /\ UNCHANGED <<store, added, commands, deleted>>

\* The first save must succeed; then the logs are fetched and all is saved
\* again, with the downtime once more: always the same copy.
SaveResolved(p) ==
    /\ cmd[p].phase = "save"
    /\ \/ /\ store' = [store EXCEPT ![cmd[p].id] = cmd[p].copy]
          /\ Goto(p, [cmd[p] EXCEPT !.phase = "sync"])
       \/ UNCHANGED store /\ Goto(p, Idle)
    /\ UNCHANGED <<added, commands, deleted>>

PerformFinalSync(p) ==
    /\ cmd[p].phase = "sync"
    /\ store' \in {store, [store EXCEPT ![cmd[p].id] = cmd[p].copy]}
    /\ \E phase \in {"impact", "ask"} : Goto(p, [cmd[p] EXCEPT !.phase = phase])
    /\ UNCHANGED <<added, commands, deleted>>

SaveImpact(p) ==
    /\ cmd[p].phase = "impact"
    /\ LET copy == [cmd[p].copy EXCEPT !.impact = TRUE]
       IN store' \in {store, [store EXCEPT ![cmd[p].id] = copy]}
    /\ Goto(p, [cmd[p] EXCEPT !.phase = "ask"])
    /\ UNCHANGED <<added, commands, deleted>>

\* "Would you like to add action items for follow-up?", again after each.
AddAnother(p) ==
    /\ cmd[p].phase = "ask"
    /\ Goto(p, [Idle EXCEPT !.phase = "add", !.id = cmd[p].id, !.copy = cmd[p].copy,
                            !.next = "ask"])
    /\ UNCHANGED <<store, added, commands, deleted>>

\* -------------------------------------------------------------------------

Next ==
    \E p \in Procs :
       \/ \E i \in Ids : Start(p, i) \/ ChooseForAdd(p, i)
       \/ \E i \in Ids, n \in 1..MaxAdded, what \in {"update", "delete"} :
             ChooseItem(p, i, n, what)
       \/ \E i \in Ids \cup {None}, named \in BOOLEAN : BeginResolve(p, i, named)
       \/ Describe(p) \/ AddActionItem(p) \/ UpdateActionItem(p) \/ DeleteActionItem(p)
       \/ Save(p) \/ Resolve(p) \/ SaveResolved(p) \/ PerformFinalSync(p)
       \/ SaveImpact(p) \/ AddAnother(p) \/ GiveUp(p)

Spec == Init /\ [][Next]_vars

\* ------------------------------ properties -------------------------------

Phases == {"idle", "describe", "add", "update", "delete", "write", "resolve", "save",
           "sync", "impact", "ask"}

TypeOK ==
    /\ added \in 0..MaxAdded /\ commands \in 0..MaxCommands /\ deleted \in BOOLEAN
    /\ \A p \in Procs : /\ cmd[p].phase \in Phases
                        /\ cmd[p].phase \notin {"idle", "resolve"} => cmd[p].id \in Known
    /\ \A i \in Known : /\ Len(store[i].items) <= MaxAdded /\ store[i].notes \subseteq Ids
                        /\ store[i].analysis # None => ~store[i].open

\* GenerateActionItemID (models.go): "generates a unique action item ID".
ActionItemIdsUnique ==
    \A i \in Known : \A j, k \in DOMAIN store[i].items :
        store[i].items[j].seq = store[i].items[k].seq => j = k

\* Until an item is deleted the IDs are unique, however the commands of several
\* operators overlap and whichever of them overwrites another: an item that is
\* lost frees its number, and no copy that is saved later brings it back.
UniqueUntilDeleted == ~deleted => ActionItemIdsUnique

=============================================================================

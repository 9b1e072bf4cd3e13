--------------------------- MODULE CollabSession ---------------------------
(***************************************************************************)
(* A collaborative session on one incident: the server of the guests       *)
(* (src/internal/remote/server.go), each with a bounded channel for        *)
(* broadcasts, a prompt and wizards, and the view of the host              *)
(* (src/internal/incident/tui_view.go), which broadcasts its own actions.  *)
(*                                                                         *)
(* Every save makes a new version of the incident: of an action that is    *)
(* announced, and of changes that nobody is told of. What they change, the *)
(* history and the scrolling are left out.                                 *)
(***************************************************************************)
EXTENDS Naturals

CONSTANTS Guests,
          Wizards,      \* wizards a guest can open
          StepsOf,      \* number of questions of each wizard
          Buffer,       \* messages a channel holds, 10
          MaxVersion,   \* bound on the saves of the incident
          MaxReads      \* bound on the reads of the host that are under way

VARIABLES version,      \* the incident as stored
          told,         \* the version the last announced action left behind
          open,         \* sessions that are registered
          queue,        \* number of messages in the channel of each guest
          ready,        \* the window size of the guest has arrived
          shown,        \* the version each guest sees
          commands,     \* commands of each guest that are under way
          announce,     \* broadcasts that are due
          wizard,       \* activeInput of each guest, or "none"
          step,         \* currentStep
          focused,      \* the prompt of the guest takes what is typed
          hostShown,    \* the version the host sees
          hostPrompt,   \* the host has a prompt open
          results,      \* results of actions on their way to the host's view
          asked,        \* reads of the host under way
          fetched,      \* versions on their way to the host's view
          missed        \* a result reached the host while the prompt was open

vars == <<version, told, open, queue, ready, shown, commands, announce, wizard, step,
          focused, hostShown, hostPrompt, results, asked, fetched, missed>>
stored == <<version, told>>
prompt == <<wizard, step, focused>>
guests == <<open, queue, ready, shown, commands, prompt>>
host == <<hostShown, hostPrompt, results, asked, fetched, missed>>

\* A channel holds a message at least.
ConstantsAssumption == Buffer \in Nat \ {0} /\ MaxVersion \in Nat /\ MaxReads \in Nat

TypeOK ==
    /\ version \in 0..MaxVersion /\ told \in 0..version
    /\ open \subseteq Guests /\ announce \in 0..MaxVersion
    /\ queue \in [Guests -> 0..Buffer] /\ ready \in [Guests -> BOOLEAN]
    /\ shown \in [Guests -> 0..version] /\ commands \in [Guests -> SUBSET (Wizards \cup {"ack"})]
    /\ wizard \in [Guests -> Wizards \cup {"none"}] /\ step \in [Guests -> Nat]
    /\ focused \in [Guests -> BOOLEAN]
    /\ hostShown \in 0..version /\ fetched \subseteq 0..version
    /\ hostPrompt \in BOOLEAN /\ missed \in BOOLEAN
    /\ results \in 0..MaxVersion /\ asked \in 0..(MaxReads + MaxVersion)

Init ==
    /\ version = 0 /\ told = 0 /\ open = {} /\ announce = 0
    /\ queue = [g \in Guests |-> 0] /\ ready = [g \in Guests |-> FALSE]
    /\ shown = [g \in Guests |-> 0] /\ commands = [g \in Guests |-> {}]
    /\ wizard = [g \in Guests |-> "none"] /\ step = [g \in Guests |-> 0]
    /\ focused = [g \in Guests |-> TRUE]
    /\ hostShown = 0 /\ hostPrompt = FALSE /\ results = 0
    /\ asked = 0 /\ fetched = {} /\ missed = FALSE

\* RenderFunc reads the incident again.
Render(g) == shown' = [shown EXCEPT ![g] = IF ready'[g] THEN version ELSE @]

\* ------------------------------ connections ------------------------------

Connect(g) ==
    /\ g \notin open /\ commands[g] = {}
    /\ open' = open \cup {g}
    /\ UNCHANGED <<stored, queue, ready, shown, commands, announce, prompt, host>>

\* Ctrl+c, the exit command or a lost connection: the model of the session goes,
\* its commands run on.
Disconnect(g) ==
    /\ g \in open /\ open' = open \ {g}
    /\ queue' = [queue EXCEPT ![g] = 0] /\ ready' = [ready EXCEPT ![g] = FALSE]
    /\ shown' = [shown EXCEPT ![g] = 0]
    /\ wizard' = [wizard EXCEPT ![g] = "none"] /\ step' = [step EXCEPT ![g] = 0]
    /\ focused' = [focused EXCEPT ![g] = TRUE]
    /\ UNCHANGED <<stored, commands, announce, host>>

WindowSize(g) ==
    /\ g \in open
    /\ ready' = [ready EXCEPT ![g] = TRUE]
    /\ Render(g)
    /\ UNCHANGED <<stored, open, queue, commands, announce, prompt, host>>

\* As Broadcast, to full channels as well.
BroadcastBeyond ==
    /\ announce > 0 /\ announce' = announce - 1
    /\ queue' = [g \in Guests |-> IF g \in open THEN queue[g] + 1 ELSE queue[g]]
    /\ UNCHANGED <<stored, open, ready, shown, commands, prompt, host>>

\* Broadcast, under the lock: a full channel is passed over. The host is told
\* as well, and writes the same copy of the incident again.
Broadcast ==
    /\ announce > 0 /\ announce' = announce - 1
    /\ queue' = [g \in Guests |-> IF g \in open /\ queue[g] < Buffer THEN queue[g] + 1
                                  ELSE queue[g]]
    /\ UNCHANGED <<stored, open, ready, shown, commands, prompt, host>>

\* As Receive, without rendering the view.
ReceiveHistoryOnly(g) ==
    /\ g \in open /\ queue[g] > 0
    /\ queue' = [queue EXCEPT ![g] = @ - 1]
    /\ UNCHANGED <<stored, open, ready, shown, commands, announce, prompt, host>>

\* broadcastMsg: a message is taken, and the view rendered.
Receive(g) ==
    /\ g \in open /\ queue[g] > 0
    /\ queue' = [queue EXCEPT ![g] = @ - 1]
    /\ UNCHANGED ready
    /\ Render(g)
    /\ UNCHANGED <<stored, open, commands, announce, prompt, host>>

\* --------------------------- guests at work ------------------------------

Save == version < MaxVersion /\ version' = version + 1
Disowned == Save /\ UNCHANGED told

\* The commander carries an action out, or returns an error, before it saved or
\* with the file saved and its owner not set: nothing is announced then.
Act ==
    \/ Save /\ told' = version' /\ announce' = announce + 1
    \/ Disowned /\ UNCHANGED announce
    \/ UNCHANGED <<stored, announce>>

\* Enter on a command starts its goroutine, and renders at once.
EnterCommand(g) ==
    /\ g \in open /\ wizard[g] = "none" /\ focused[g]
    /\ \E k \in Wizards \cup {"ack"} : commands' = [commands EXCEPT ![g] = @ \cup {k}]
    /\ UNCHANGED ready
    /\ Render(g)
    /\ UNCHANGED <<stored, open, queue, announce, prompt, host>>

\* "ack" stands for "note" as well.
RunAck(g) ==
    /\ "ack" \in commands[g]
    /\ commands' = [commands EXCEPT ![g] = @ \ {"ack"}]
    /\ Act
    /\ UNCHANGED <<open, queue, ready, shown, prompt, host>>

\* A wizard opens whenever its goroutine runs, in place of one that was open.
OpenWizard(g) ==
    /\ \E k \in Wizards \cap commands[g] :
          /\ commands' = [commands EXCEPT ![g] = @ \ {k}]
          /\ wizard' = [wizard EXCEPT ![g] = IF g \in open THEN k ELSE @]
    /\ step' = [step EXCEPT ![g] = 0]
    /\ focused' = [focused EXCEPT ![g] = TRUE]
    /\ UNCHANGED <<stored, open, queue, ready, shown, announce, host>>

\* Enter in a wizard: the next question, or finishWizard, in the update itself.
Answer(g) ==
    /\ g \in open /\ wizard[g] # "none"
    /\ step' = [step EXCEPT ![g] = @ + 1]
    /\ IF step[g] + 1 < StepsOf[wizard[g]] THEN UNCHANGED <<stored, announce, wizard, focused>>
       ELSE /\ Act
            /\ wizard' = [wizard EXCEPT ![g] = "none"]
            /\ focused' = [focused EXCEPT ![g] = TRUE]
    /\ UNCHANGED <<open, queue, ready, shown, commands, host>>

\* Esc blurs the prompt, which only a wizard focuses again.
Escape(g) ==
    /\ g \in open /\ wizard[g] # "none"
    /\ wizard' = [wizard EXCEPT ![g] = "none"]
    /\ focused' = [focused EXCEPT ![g] = FALSE]
    /\ UNCHANGED <<stored, open, queue, ready, shown, commands, announce, step, host>>

\* -------------------------------- the host -------------------------------

\* The keys that open a prompt, and enter or esc on the last question.
HostPrompt ==
    /\ hostPrompt' = ~hostPrompt
    /\ UNCHANGED <<stored, announce, guests, hostShown, results, asked, fetched, missed>>

\* The goroutine of an action the host asked for, by key or by prompt. The result
\* of one that failed does no more than the key r.
HostAct ==
    /\ \/ Save /\ told' = version' /\ results' = results + 1
       \/ Disowned /\ UNCHANGED results
    /\ UNCHANGED <<announce, guests, hostShown, hostPrompt, asked, fetched, missed>>

\* The key m: GeneratePostmortem adds a note, and the copy the host has is drawn
\* again. Nobody is told.
HostPostmortem ==
    /\ ~hostPrompt /\ Disowned
    /\ UNCHANGED <<announce, guests, host>>

\* actionResult: broadcast and read again. With a prompt open the result goes
\* to the prompt, which has no use for it.
HostResult ==
    /\ results > 0 /\ results' = results - 1
    /\ IF hostPrompt THEN missed' = TRUE /\ UNCHANGED <<announce, asked>>
       ELSE announce' = announce + 1 /\ asked' = asked + 1 /\ UNCHANGED missed
    /\ UNCHANGED <<stored, guests, hostShown, hostPrompt, fetched>>

\* The key r.
HostRefresh ==
    /\ ~hostPrompt /\ asked < MaxReads /\ asked' = asked + 1
    /\ UNCHANGED <<stored, announce, guests, hostShown, hostPrompt, results, fetched, missed>>

\* refreshIncident, in a goroutine of its own.
HostRead ==
    /\ asked > 0 /\ asked' = asked - 1
    /\ fetched' = fetched \cup {version}
    /\ UNCHANGED <<stored, announce, guests, hostShown, hostPrompt, results, missed>>

\* incidentUpdated, in whatever order the goroutines end.
HostUpdated(v) ==
    /\ v \in fetched /\ fetched' = fetched \ {v}
    /\ hostShown' = IF hostPrompt THEN hostShown ELSE v
    /\ UNCHANGED <<stored, announce, guests, hostPrompt, results, asked, missed>>

Guest(g) ==
    \/ Connect(g) \/ Disconnect(g) \/ WindowSize(g) \/ Receive(g)
    \/ EnterCommand(g) \/ RunAck(g) \/ OpenWizard(g) \/ Answer(g) \/ Escape(g)

Host == HostPrompt \/ HostAct \/ HostPostmortem \/ HostResult \/ HostRefresh \/ HostRead
            \/ \E v \in fetched : HostUpdated(v)

\* Other commands and the goroutines of an earlier one save the incident as well.
SavedElsewhere ==
    /\ Disowned
    /\ UNCHANGED <<announce, guests, host>>

Next == Broadcast \/ SavedElsewhere \/ Host \/ \E g \in Guests : Guest(g)

Spec == Init /\ [][Next]_vars

\* ------------------------------ properties -------------------------------

\* A guest who has read all broadcasts sees every action that was announced,
\* although broadcasts to a full channel are dropped: the ones it holds are
\* enough. Changes nobody announces are seen with the next one that is, and the
\* host's own actions must not have been lost to an open prompt.
FreshOnceDrained ==
    \A g \in open : ready[g] /\ queue[g] = 0 /\ announce = 0 /\ results = 0 /\ ~missed
                    => shown[g] >= told

=============================================================================

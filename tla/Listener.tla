------------------------------ MODULE Listener ------------------------------
(***************************************************************************)
(* The life cycle of the alert listener (src/internal/alert/commands.go,   *)
(* pidfile.go): "alert listen --background", "alert stop", "alert status"  *)
(* and "alert reload", which find the listening process through a PID file *)
(* that nothing locks. The port keeps a second listener from serving.      *)
(*                                                                         *)
(* A slot is a command line being run; a listener process is named by the  *)
(* start that spawned it. Process ids are not reused. Systemd is left out. *)
(***************************************************************************)
EXTENDS Naturals, FiniteSets

CONSTANTS Slots,        \* commands that can be run, each once
          NoPid         \* no PID file, or no process

VARIABLES kind,         \* what each slot is running: "unused", "start", "stop"...
          pc,
          pid,          \* the PID a command has read
          proc,         \* state of the listener process of each start
          port,         \* the process that holds the port, or NoPid
          file,         \* the PID file
          overlapped    \* a command began while another, or a listener's start, was underway

vars == <<kind, pc, pid, proc, port, file, overlapped>>

ConstantsAssumption == NoPid \notin Slots

TypeOK ==
    /\ kind \in [Slots -> {"unused", "start", "stop", "status", "reload"}]
    /\ pc \in [Slots -> {"idle", "spawn", "poll", "check", "kill", "remove"}]
    /\ pid \in [Slots -> Slots \cup {NoPid}]
    /\ proc \in [Slots -> {"none", "starting", "bound", "serving", "exited"}]
    /\ port \in Slots \cup {NoPid} /\ file \in Slots \cup {NoPid}
    /\ overlapped \in BOOLEAN

Alive(p) == p # NoPid /\ proc[p] \in {"starting", "bound", "serving"}

Begin(s, k, at) ==
    /\ kind[s] = "unused"
    /\ kind' = [kind EXCEPT ![s] = k]
    /\ pc' = [pc EXCEPT ![s] = at]
    /\ overlapped' = (overlapped \/ \E t \in Slots :
                       pc[t] # "idle" \/ proc[t] \in {"starting", "bound"})

Step(s, at) ==
    /\ pc' = [pc EXCEPT ![s] = at]
    /\ UNCHANGED <<kind, overlapped>>

Init ==
    /\ kind = [s \in Slots |-> "unused"]
    /\ pc = [s \in Slots |-> "idle"]
    /\ pid = [s \in Slots |-> NoPid]
    /\ proc = [s \in Slots |-> "none"]
    /\ port = NoPid /\ file = NoPid /\ overlapped = FALSE

\* ---------------------------- alert listen -------------------------------

\* startBackground tries the port, lets go of it, and spawns the listener.
Start(s) ==
    /\ Begin(s, "start", IF port = NoPid THEN "spawn" ELSE "idle")
    /\ UNCHANGED <<pid, proc, port, file>>

Spawn(s) ==
    /\ pc[s] = "spawn" /\ Step(s, "poll")
    /\ proc' = [proc EXCEPT ![s] = "starting"]
    /\ UNCHANGED <<pid, port, file>>

\* The listener binds the port or exits; then it writes its PID and serves.
Bind(s) ==
    /\ proc[s] = "starting"
    /\ IF port = NoPid THEN port' = s /\ proc' = [proc EXCEPT ![s] = "bound"]
       ELSE UNCHANGED port /\ proc' = [proc EXCEPT ![s] = "exited"]
    /\ UNCHANGED <<kind, pc, pid, file, overlapped>>

WritePIDFile(s) ==
    /\ proc[s] = "bound"
    /\ file' = s
    /\ proc' = [proc EXCEPT ![s] = "serving"]
    /\ UNCHANGED <<kind, pc, pid, port, overlapped>>

\* The parent is content with any live process the PID file names.
PollSeen(s) ==
    /\ pc[s] = "poll" /\ Alive(file) /\ Step(s, "idle")
    /\ UNCHANGED <<pid, proc, port, file>>

\* After 40 looks: give up when the listener is gone, or write its PID for it.
PollOut(s) ==
    /\ pc[s] = "poll" /\ ~Alive(file)
    /\ IF Alive(s) THEN file' = s ELSE UNCHANGED file
    /\ Step(s, "idle")
    /\ UNCHANGED <<pid, proc, port>>

\* --------------------- alert stop, status and reload ---------------------

\* All three read the PID file first and end when there is none.
Look(s, k) ==
    /\ Begin(s, k, IF file = NoPid THEN "idle" ELSE "check")
    /\ pid' = [pid EXCEPT ![s] = file]
    /\ UNCHANGED <<proc, port, file>>

\* As Check, without asking whether the process is there.
CheckAny(s) ==
    /\ pc[s] = "check" /\ kind[s] # "reload"
    /\ Step(s, IF kind[s] = "stop" THEN "kill" ELSE "remove")
    /\ UNCHANGED <<pid, proc, port, file>>

\* Status and stop: is the process there? A stale file is removed later.
Check(s) ==
    /\ pc[s] = "check" /\ kind[s] # "reload"
    /\ Step(s, IF ~Alive(pid[s]) THEN "remove"
               ELSE IF kind[s] = "stop" THEN "kill" ELSE "idle")
    /\ UNCHANGED <<pid, proc, port, file>>

\* SIGTERM ends the listener on the spot: it handles no signal but SIGHUP.
Kill(s) ==
    /\ pc[s] = "kill"
    /\ IF Alive(pid[s])
       THEN /\ proc' = [proc EXCEPT ![pid[s]] = "exited"]
            /\ port' = IF port = pid[s] THEN NoPid ELSE port
            /\ Step(s, "remove")
       ELSE UNCHANGED <<proc, port>> /\ Step(s, "idle")
    /\ UNCHANGED <<pid, file>>

\* The file is removed whatever it names by now.
Remove(s) ==
    /\ pc[s] = "remove" /\ Step(s, "idle")
    /\ file' = NoPid
    /\ UNCHANGED <<pid, proc, port>>

\* Reload sends SIGHUP without looking: a listener that is still starting up
\* may have no handler for it yet, and end.
Reload(s) ==
    /\ pc[s] = "check" /\ kind[s] = "reload" /\ Step(s, "idle")
    /\ \/ UNCHANGED proc
       \/ proc[pid[s]] = "starting" /\ proc' = [proc EXCEPT ![pid[s]] = "exited"]
    /\ UNCHANGED <<pid, port, file>>

\* A listener ends by itself: a crash, or a signal from elsewhere.
Die(s) ==
    /\ Alive(s)
    /\ proc' = [proc EXCEPT ![s] = "exited"]
    /\ port' = IF port = s THEN NoPid ELSE port
    /\ UNCHANGED <<kind, pc, pid, file, overlapped>>

Next == \E s \in Slots :
    \/ Start(s) \/ Spawn(s) \/ Bind(s) \/ WritePIDFile(s) \/ PollSeen(s) \/ PollOut(s)
    \/ \E k \in {"stop", "status", "reload"} : Look(s, k)
    \/ Check(s) \/ Kill(s) \/ Remove(s) \/ Reload(s) \/ Die(s)

Spec == Init /\ [][Next]_vars

\* ------------------------------ properties -------------------------------

\* Run one at a time, commands lose no listener: between commands, whatever
\* crashed before, the PID file names the process that serves on the port.
ListenerIsFound ==
    /\ ~overlapped /\ port # NoPid
    /\ \A s \in Slots : pc[s] = "idle" /\ proc[s] \notin {"starting", "bound"}
    => file = port

=============================================================================

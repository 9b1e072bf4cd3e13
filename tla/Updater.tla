------------------------------ MODULE Updater ------------------------------
(***************************************************************************)
(* The update of the program by itself (pkg/update/updater.go): a process  *)
(* downloads the latest version, verifies it and puts it in the place of   *)
(* the binary it was started from. It goes on in a goroutine that is left  *)
(* alone after forty seconds and ends with the process, at any step.       *)
(*                                                                         *)
(* The binary, .new and .backup are names of inodes, which all processes   *)
(* share; the download is a file of its own. A file is copied by cutting   *)
(* the target off and filling it up.                                       *)
(***************************************************************************)
EXTENDS Naturals, FiniteSets

CONSTANTS Procs,
          MaxVersion,   \* bound on the versions that are published
          NoFile

VARIABLES published,    \* the latest version on the server
          names,        \* the inodes of "binary", "new" and "backup"
          data,         \* what each inode holds: a version, or Part of one
          pc,
          running,      \* the version each process runs
          started,      \* the inode each process was started from
          download,     \* what each process has downloaded
          fd            \* the inode each process writes

vars == <<published, names, data, pc, running, started, download, fd>>
files == <<names, data>>

Versions == 1..MaxVersion
Part == 0               \* cut off, or not a program
Inodes == 1..(3 + 2 * Cardinality(Procs))
Installed == data[names["binary"]]

\* NoFile is no inode.
ConstantsAssumption == MaxVersion \in Nat \ {0} /\ NoFile \notin Inodes

TypeOK ==
    /\ published \in Versions
    /\ names \in [{"binary", "new", "backup"} -> Inodes \cup {NoFile}]
    /\ data \in [Inodes -> Versions \cup {Part}]
    /\ running \in [Procs -> Versions \cup {Part}]
    /\ started \in [Procs -> Inodes \cup {NoFile}]
    /\ fd \in [Procs -> Inodes \cup {NoFile}]
    /\ download \in [Procs -> Versions \cup {Part}]

Init ==
    /\ published = 1
    /\ names = [binary |-> 1, new |-> NoFile, backup |-> NoFile]
    /\ data = [i \in Inodes |-> IF i = 1 THEN 1 ELSE Part]
    /\ pc = [p \in Procs |-> "off"]
    /\ running = [p \in Procs |-> Part] /\ download = [p \in Procs |-> Part]
    /\ started = [p \in Procs |-> NoFile] /\ fd = [p \in Procs |-> NoFile]

Goto(p, at) == pc' = [pc EXCEPT ![p] = at]

\* ------------------------------- copyFile --------------------------------

InUse == {names[n] : n \in DOMAIN names} \cup {started[p] : p \in Procs} \cup {fd[p] : p \in Procs}
Unused == CHOOSE i \in Inodes \ InUse : \A j \in Inodes \ InUse : i <= j

\* The system refuses to write to a file that a process runs from.
Busy(i) == \E p \in Procs : pc[p] # "off" /\ started[p] = i

Create(p, name) ==
    LET i == IF names[name] = NoFile THEN Unused ELSE names[name] IN
    /\ ~Busy(i)
    /\ names' = [names EXCEPT ![name] = i]
    /\ data' = [data EXCEPT ![i] = Part]
    /\ fd' = [fd EXCEPT ![p] = i]

\* When two write different versions to one file, it may end up with neither.
Fill(p, content) ==
    /\ \/ data' = [data EXCEPT ![fd[p]] = content]
       \/ /\ \E q \in Procs \ {p} : fd[q] = fd[p]
          /\ data' = [data EXCEPT ![fd[p]] = Part]
    /\ fd' = [fd EXCEPT ![p] = NoFile]

Stop(p) == data' = data /\ fd' = [fd EXCEPT ![p] = NoFile]

Remove(some) == names' = [n \in DOMAIN names |-> IF n \in some THEN NoFile ELSE names[n]]

\* ----------------------------- PerformUpdate -----------------------------

Publish ==
    /\ published < MaxVersion /\ published' = published + 1
    /\ UNCHANGED <<files, pc, running, started, download, fd>>

Launch(p) ==
    /\ pc[p] = "off" /\ Installed # Part
    /\ Goto(p, "check")
    /\ running' = [running EXCEPT ![p] = Installed]
    /\ started' = [started EXCEPT ![p] = names["binary"]]
    /\ UNCHANGED <<published, files, download, fd>>

\* The download fails, or brings the version or something else.
Download(p) ==
    /\ pc[p] = "check"
    /\ \/ Goto(p, "over") /\ UNCHANGED download
       \/ /\ published > running[p]
          /\ Goto(p, "verify")
          /\ download' \in {[download EXCEPT ![p] = f] : f \in {published, Part}}
    /\ UNCHANGED <<published, files, running, started, fd>>

\* As Verify, which nothing fails.
VerifyNothing(p) ==
    /\ pc[p] = "verify" /\ Goto(p, "backup")
    /\ UNCHANGED <<published, files, running, started, download, fd>>

\* The checksum, where there is one, and a run with --version.
Verify(p) ==
    /\ pc[p] = "verify"
    /\ \/ download[p] # Part /\ Goto(p, "backup")
       \/ Goto(p, "over")
    /\ UNCHANGED <<published, files, running, started, download, fd>>

\* A backup that fails is no reason to stop.
Backup(p) ==
    /\ \/ pc[p] = "backup" /\ Create(p, "backup") /\ Goto(p, "backingup")
       \/ pc[p] = "backup" /\ Goto(p, "copy") /\ UNCHANGED <<files, fd>>
       \/ /\ pc[p] = "backingup" /\ Goto(p, "copy")
          /\ Fill(p, Installed) \/ Stop(p)
          /\ UNCHANGED names
    /\ UNCHANGED <<published, running, started, download>>

\* A copy that fails leaves its part of .new behind, one that cannot be made
\* executable takes it away.
Copy(p) ==
    /\ \/ pc[p] = "copy" /\ Create(p, "new") /\ Goto(p, "copying")
       \/ pc[p] = "copy" /\ Remove({"backup"}) /\ Goto(p, "over") /\ UNCHANGED <<data, fd>>
       \/ pc[p] = "copying" /\ Fill(p, download[p]) /\ Goto(p, "rename") /\ UNCHANGED names
       \/ pc[p] = "copying" /\ Fill(p, download[p]) /\ Remove({"new", "backup"}) /\ Goto(p, "over")
       \/ pc[p] = "copying" /\ Stop(p) /\ Remove({"backup"}) /\ Goto(p, "over")
    /\ UNCHANGED <<published, running, started, download>>

Rename(p) ==
    /\ pc[p] = "rename"
    /\ \/ /\ names["new"] # NoFile
          /\ names' = [binary |-> names["new"], new |-> NoFile, backup |-> NoFile]
          /\ Goto(p, "over")
       \/ Remove({"new"}) /\ Goto(p, "restore")
    /\ UNCHANGED <<published, data, running, started, download, fd>>

\* After a rename that failed the backup is copied over the binary in place.
Restore(p) ==
    /\ \/ /\ pc[p] = "restore" /\ names["backup"] # NoFile
          /\ Create(p, "binary") /\ Goto(p, "restoring")
       \/ /\ pc[p] = "restore"
          /\ names["backup"] = NoFile \/ Busy(names["binary"])
          /\ Goto(p, "over") /\ UNCHANGED <<files, fd>>
       \/ /\ pc[p] = "restoring" /\ names["backup"] # NoFile
          /\ Fill(p, data[names["backup"]]) /\ Remove({"backup"}) /\ Goto(p, "over")
       \/ pc[p] = "restoring" /\ Stop(p) /\ Goto(p, "over") /\ UNCHANGED names
    /\ UNCHANGED <<published, running, started, download>>

\* The process ends, with the goroutine at any step.
Exit(p) ==
    /\ pc[p] # "off" /\ Goto(p, "off")
    /\ started' = [started EXCEPT ![p] = NoFile]
    /\ fd' = [fd EXCEPT ![p] = NoFile]
    /\ UNCHANGED <<published, files, running, download>>

Update(p) == Download(p) \/ Verify(p) \/ Backup(p) \/ Copy(p) \/ Rename(p) \/ Restore(p)

Next == Publish \/ \E p \in Procs : Launch(p) \/ Update(p) \/ Exit(p)

Spec == Init /\ [][Next]_vars

\* ------------------------------ properties -------------------------------

\* Whatever fails and whenever the process ends, the binary that is installed
\* can be started.
CurrentBinaryWorks == Installed # Part

=============================================================================

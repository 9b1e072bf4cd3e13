--------------------------- MODULE ToolParts_proofs ---------------------------
(***************************************************************************)
(* Proofs about the parts of ToolParts, for all values of the constants.   *)
(***************************************************************************)
EXTENDS ToolParts, Selections, FiniteSets, FiniteSetTheorems, SequenceTheorems,
        SumTheorems, WellFoundedInduction, TLAPS

-----------------------------------------------------------------------------
(***************************************************************************)
(* The profiles.  No copy of a profile carries a user with a password of   *)
(* its own: what the profile was set up with is in its state directory,    *)
(* and read from there before the files of the user.                       *)
(***************************************************************************)

Copies == Config!Stored \cup {None}
Given == [Backends -> Credentials \cup {None}]

ProfilesTyped ==
    /\ files \in [ProfileNames -> Copies] /\ legacy \in Copies
    /\ activeFile \in ProfileNames /\ env \in Environments
    /\ active \in [Procs -> ProfileNames \cup {None}]
    /\ cache \in [Procs -> [ProfileNames -> Copies]]
    /\ migrating \subseteq {r \in Procs : active[r] = "default"}
    /\ own \in [ProfileNames -> Credentials \cup {None}]
    /\ secrets \in [ProfileNames -> [token : Given, basic : Given]]

OwnKept ==
    /\ legacy # None => legacy.basic = Config!NoCreds
    /\ \A p \in ProfileNames : own[p] # None => /\ files[p].basic = Config!NoCreds
                                         /\ secrets[p].basic["prometheus"] = own[p]

\* What is saved is a profile without credentials.
LEMMA PlainIsStored ==
    ASSUME NEW u \in Urls
    PROVE  /\ Config!NoCreds \in Given
           /\ Config!Config(u, Config!NoCreds, Config!NoCreds) \in Config!Stored
           /\ Config!Config(u, Config!NoCreds, Config!NoCreds).basic = Config!NoCreds
  BY DEF Config!NoCreds, Given, Config!Config, Config!Stored

\* The first that is there is the one before which there is none.
LEMMA FirstFound ==
    ASSUME NEW n \in Nat, NEW s, DOMAIN s = 1..n,
           NEW k \in 1..n, s[k] # None, \A i \in 1..(k - 1) : s[i] = None
    PROVE  Config!FirstOf(s) = s[k]
  <1> DEFINE some == {i \in DOMAIN s : s[i] # None}
  <1>1. k \in some /\ \A j \in some : k <= j
    OBVIOUS
  <1>2. \A i \in some : (\A j \in some : i <= j) => i = k
    BY <1>1
  <1>3. (CHOOSE i \in some : \A j \in some : i <= j) = k
    BY <1>1, <1>2
  <1>4. some # {}
    BY <1>1
  <1>5. Config!FirstOf(s) = IF some = {} THEN None
                            ELSE s[CHOOSE i \in some : \A j \in some : i <= j]
    BY DEF Config!FirstOf
  <1> QED
    BY <1>3, <1>4, <1>5

\* What comes after the one that is there, or is not there, makes no difference.
LEMMA FirstOfTwo ==
    ASSUME NEW a, NEW b, NEW c, b # None
    PROVE  Config!FirstOf(<<a, None, b, c>>) = Config!FirstOf(<<a, b>>)
  <1> DEFINE s == <<a, None, b, c>>
  <1> DEFINE t == <<a, b>>
  <1>1. DOMAIN s = 1..4 /\ s[1] = a /\ s[2] = None /\ s[3] = b
    OBVIOUS
  <1>2. DOMAIN t = 1..2 /\ t[1] = a /\ t[2] = b
    OBVIOUS
  <1> HIDE DEF s, t
  <1>3. CASE a # None
    <2>1. 1 \in 1..4 /\ 1 \in 1..2 /\ 4 \in Nat /\ 2 \in Nat
      OBVIOUS
    <2>2. (\A i \in 1..(1 - 1) : s[i] = None) /\ (\A i \in 1..(1 - 1) : t[i] = None)
      OBVIOUS
    <2>3. Config!FirstOf(s) = s[1]
      BY <1>1, <1>3, <2>1, <2>2, FirstFound, Zenon
    <2>4. Config!FirstOf(t) = t[1]
      BY <1>2, <1>3, <2>1, <2>2, FirstFound, Zenon
    <2> QED
      BY <1>1, <1>2, <2>3, <2>4 DEF s, t
  <1>4. CASE a = None
    <2>1. 3 \in 1..4 /\ 2 \in 1..2 /\ 4 \in Nat /\ 2 \in Nat
      OBVIOUS
    <2>2. (\A i \in 1..(3 - 1) : s[i] = None) /\ (\A i \in 1..(2 - 1) : t[i] = None)
      BY <1>1, <1>2, <1>4
    <2>3. Config!FirstOf(s) = s[3]
      BY <1>1, <2>1, <2>2, FirstFound, Zenon
    <2>4. Config!FirstOf(t) = t[2]
      BY <1>2, <2>1, <2>2, FirstFound, Zenon
    <2> QED
      BY <1>1, <1>2, <2>3, <2>4 DEF s, t
  <1> QED
    BY <1>3, <1>4

LEMMA ProfilesNext ==
    ASSUME Config!ConstantsAssumption, ProfilesTyped, OwnKept, [Config!Next]_(Config!vars)
    PROVE  ProfilesTyped' /\ OwnKept'
  <1>0. /\ "default" \in ProfileNames /\ "prometheus" \in Backends /\ None \notin ProfileNames
        /\ Typed \subseteq [token : Credentials \cup {None}, basic : Credentials \cup {None}]
    BY DEF Config!ConstantsAssumption
  <1> USE <1>0 DEF Copies
  <1>1. ASSUME NEW r \in Procs, NEW p \in ProfileNames, Config!Open(r, p)
        PROVE  ProfilesTyped' /\ OwnKept'
    <2> DEFINE Copied(cfg) ==
                 /\ cache' = [cache EXCEPT ![r][p] = cfg]
                 /\ migrating' \subseteq migrating \cup {q \in {r} : p = "default"}
                 /\ \/ files' = files
                    \/ files' = [files EXCEPT ![p] = cfg] /\ (cfg.basic = Config!NoCreds)
    <2>1. \E cfg \in Copies : Copied(cfg)
      <3>1. CASE files[p] # None /\ Config!Cached(r, p, files[p])
                   /\ UNCHANGED <<files, legacy, migrating>>
        BY <3>1 DEF Config!Cached, ProfilesTyped
      <3>2. CASE p = "default" /\ legacy # None /\ Config!Migrate(r)
        BY <3>2 DEF Config!Cached, Config!Migrate, ProfilesTyped, OwnKept
      <3>3. ASSUME NEW u \in Urls,
                   files' = [files EXCEPT ![p] = Config!Config(u, Config!NoCreds, Config!NoCreds)],
                   Config!Cached(r, p, Config!Config(u, Config!NoCreds, Config!NoCreds)),
                   UNCHANGED <<legacy, migrating>>
            PROVE  \E cfg \in Copies : Copied(cfg)
        BY <3>3, PlainIsStored DEF Config!Cached
      <3> QED
        BY <1>1, <3>1, <3>2, <3>3 DEF Config!Open, Config!LoadProfile
    <2>2. PICK cfg \in Copies : Copied(cfg)
      BY <2>1
    <2>3. /\ UNCHANGED <<secrets, user, env, own, legacy>>
          /\ active[r] = None /\ active' = [active EXCEPT ![r] = p]
          /\ activeFile' \in ProfileNames
      BY <1>1 DEF Config!Open, Config!LoadProfile, Config!Migrate, ProfilesTyped
    <2>4. ProfilesTyped'
      <3>1. files' \in [ProfileNames -> Copies] /\ cache' \in [Procs -> [ProfileNames -> Copies]]
        BY <2>2 DEF ProfilesTyped
      <3>2. migrating' \subseteq {q \in Procs : active'[q] = "default"}
        BY <2>2, <2>3 DEF ProfilesTyped
      <3>3. active' \in [Procs -> ProfileNames \cup {None}]
        BY <2>3 DEF ProfilesTyped
      <3> QED
        BY <2>3, <3>1, <3>2, <3>3 DEF ProfilesTyped
    <2>5. OwnKept'
      BY <2>2, <2>3 DEF ProfilesTyped, OwnKept
    <2> QED
      BY <2>4, <2>5
  <1>2. ASSUME NEW r \in Procs, Config!RenameLegacy(r) PROVE ProfilesTyped' /\ OwnKept'
    BY <1>2 DEF Config!RenameLegacy, ProfilesTyped, OwnKept
  <1>3. ASSUME NEW r \in Procs, Config!Exit(r) PROVE ProfilesTyped' /\ OwnKept'
    BY <1>3 DEF Config!Exit, ProfilesTyped, OwnKept
  <1>4. ASSUME NEW r \in Procs, NEW b \in Backends, NEW u \in Urls,
               NEW t \in Credentials \cup {None}, NEW c \in Credentials \cup {None},
               Config!Edit(r, b, u, t, c)
        PROVE  ProfilesTyped' /\ OwnKept'
    <2> DEFINE p == active[r]
    <2> DEFINE cfg == Config!Config(u, Config!NoCreds, Config!NoCreds)
    <2>1. /\ p \in ProfileNames
          /\ cache' = [cache EXCEPT ![r][p] = cfg]
          /\ files' = files \/ files' = [files EXCEPT ![p] = cfg]
          /\ UNCHANGED <<legacy, activeFile, secrets, env, active, migrating, own>>
      BY <1>4 DEF Config!Edit, Config!Ready, Config!Save, Config!Cached, Config!Sanitized,
                  Config!Load, Config!Config, ProfilesTyped
    <2>2. cfg \in Copies /\ cfg.basic = Config!NoCreds
      BY PlainIsStored
    <2> QED
      BY <2>1, <2>2 DEF ProfilesTyped, OwnKept
  <1>5. ASSUME NEW r \in Procs, NEW p \in ProfileNames, NEW b \in Backends, NEW u \in Urls,
               NEW t \in Credentials \cup {None}, NEW c \in Credentials \cup {None},
               Config!SetUp(r, p, b, u, t, c)
        PROVE  ProfilesTyped' /\ OwnKept'
    <2> DEFINE cfg == Config!Config(u, Config!NoCreds, Config!NoCreds)
    <2>1. /\ cache' = [cache EXCEPT ![r][p] = cfg]
          /\ UNCHANGED <<legacy, activeFile, env, active, migrating>>
          /\ files' = files \/ files' = [files EXCEPT ![p] = cfg]
          /\ own' = [own EXCEPT ![p] = own'[p]] /\ own'[p] \in Credentials \cup {None}
          /\ b # "prometheus" => own' = own
          /\ b = "prometheus" /\ own'[p] # None => own'[p] = c /\ files' = [files EXCEPT ![p] = cfg]
      BY <1>5 DEF Config!SetUp, Config!Save, Config!Cached, ProfilesTyped
    <2>2. cfg \in Copies /\ cfg.basic = Config!NoCreds
      BY PlainIsStored
    <2>3. /\ secrets' \in [ProfileNames -> [token : Given, basic : Given]]
          /\ \A q \in ProfileNames \ {p} : secrets'[q] = secrets[q]
          /\ \A d \in Backends \ {b} : secrets'[p].basic[d] = secrets[p].basic[d]
          /\ secrets'[p].basic[b] = IF c # None THEN c ELSE secrets[p].basic[b]
      <3> DEFINE x == IF t # None THEN t ELSE secrets[p].token[b]
      <3> DEFINE y == IF c # None THEN c ELSE secrets[p].basic[b]
      <3> DEFINE w == [token |-> [secrets[p].token EXCEPT ![b] = x],
                       basic |-> [secrets[p].basic EXCEPT ![b] = y]]
      <3>1. secrets \in [ProfileNames -> [token : Given, basic : Given]]
        BY DEF ProfilesTyped
      <3>2. secrets[p] \in [token : Given, basic : Given]
        BY <3>1
      <3>3. DOMAIN secrets' = ProfileNames /\ \A q \in ProfileNames \ {p} : secrets'[q] = secrets[q]
        BY <1>5, <3>1 DEF Config!SetUp
      <3>4. secrets'[p] = w
        BY <1>5, <3>1, <3>2 DEF Given, Config!SetUp
      <3>5. w \in [token : Given, basic : Given]
        BY <1>5, <3>2 DEF Given
      <3>6. /\ \A d \in Backends \ {b} : w.basic[d] = secrets[p].basic[d]
            /\ w.basic[b] = y
        BY <3>2 DEF Given
      <3> HIDE DEF w
      <3>7. secrets' \in [ProfileNames -> [token : Given, basic : Given]]
        <4>1. secrets' = [secrets EXCEPT
                             ![p].token[b] = IF t # None THEN t ELSE @,
                             ![p].basic[b] = IF c # None THEN c ELSE @]
          BY <1>5, Zenon DEF Config!SetUp
        <4>2. secrets' = [q \in ProfileNames |-> secrets'[q]]
          BY <3>1, <4>1
        <4>3. \A q \in ProfileNames : secrets'[q] \in [token : Given, basic : Given]
          BY <3>1, <3>3, <3>4, <3>5
        <4> QED
          BY <4>2, <4>3
      <3> QED
        BY <3>3, <3>4, <3>6, <3>7
    <2> HIDE DEF cfg
    <2>4. ProfilesTyped'
      <3>1. files' \in [ProfileNames -> Copies] /\ cache' \in [Procs -> [ProfileNames -> Copies]]
        BY <2>1, <2>2 DEF ProfilesTyped
      <3>2. own' \in [ProfileNames -> Credentials \cup {None}]
        BY <2>1 DEF ProfilesTyped
      <3> QED
        BY <2>1, <2>3, <3>1, <3>2 DEF ProfilesTyped
    <2>5. OwnKept'
      BY <2>1, <2>2, <2>3 DEF ProfilesTyped, OwnKept
    <2> QED
      BY <2>4, <2>5
  <1>6. ASSUME NEW r \in Procs, NEW b \in Backends, Config!ClearFile(r, b)
        PROVE  ProfilesTyped' /\ OwnKept'
    BY <1>6 DEF Config!ClearFile, ProfilesTyped, OwnKept
  <1>7. CASE UNCHANGED Config!vars
    BY <1>7 DEF Config!vars, ProfilesTyped, OwnKept
  <1> QED
    BY <1>1, <1>2, <1>3, <1>4, <1>5, <1>6, <1>7 DEF Config!Next

LEMMA ProfilesAlways ==
    Config!ConstantsAssumption => (Config!Spec => [](ProfilesTyped /\ OwnKept))
  <1> SUFFICES ASSUME Config!ConstantsAssumption
               PROVE  Config!Spec => [](ProfilesTyped /\ OwnKept)
    OBVIOUS
  <1>1. ASSUME Config!Init PROVE ProfilesTyped /\ OwnKept
    <2>1. files \in [ProfileNames -> Copies]
      BY <1>1, PlainIsStored DEF Config!Init, Copies
    <2>2. legacy \in Copies /\ (legacy # None => legacy.basic = Config!NoCreds)
      BY <1>1 DEF Config!Init, Copies, Config!Config, Config!Stored, Config!NoCreds
    <2>3. secrets \in [ProfileNames -> [token : Given, basic : Given]]
      BY <1>1 DEF Config!Init, Given, Config!Empty, Config!Kept, Config!NoCreds
    <2> QED
      BY <1>1, <2>1, <2>2, <2>3 DEF Config!Init, ProfilesTyped, OwnKept, Copies
  <1>2. ProfilesTyped /\ OwnKept /\ [Config!Next]_(Config!vars) => (ProfilesTyped /\ OwnKept)'
    BY ProfilesNext
  <1> QED
    BY <1>1, <1>2, PTL DEF Config!Spec

\* Every process and every file hold a profile or nothing, and only a process
\* that works on the default profile has yet to rename config.json (config.go).
THEOREM ProfilesTypeCorrect == Config!Spec => []Config!TypeOK
  <1>1. ProfilesTyped /\ OwnKept => Config!TypeOK
    BY DEF ProfilesTyped, Copies, Config!TypeOK
  <1> QED
    BY <1>1, ProfilesAlways, ConfigAssumption, PTL

\* A profile set up with a user of its own for Prometheus is used with this one,
\* unless the environment names one (config.go, LoadForProfile), for any number
\* of processes and profiles and whatever the environment holds.
THEOREM OwnUserCorrect == Config!Spec => []OwnUserStays
  <1> USE ConfigAssumption
  <1>1. ProfilesTyped /\ OwnKept => OwnUserStays
    <2> SUFFICES ASSUME ProfilesTyped, OwnKept,
                        NEW p \in ProfileNames, own[p] # None
                 PROVE  Config!OnDisk(p).basic["prometheus"] =
                            Config!FirstOf(<<Config!EnvBasic(p, "prometheus"), own[p]>>)
      BY DEF OwnUserStays, Config!OwnUserStays
    <2>1. /\ files[p].basic["prometheus"] = None
          /\ secrets[p].basic["prometheus"] = own[p]
          /\ "prometheus" \in Backends
      BY DEF OwnKept, Config!NoCreds, Config!ConstantsAssumption
    <2>2. Config!OnDisk(p).basic["prometheus"] = Config!Basic(p, files[p], "prometheus")
      BY <2>1 DEF Config!OnDisk, Config!Load, Config!Config
    <2>3. Config!Basic(p, files[p], "prometheus") =
            Config!FirstOf(<<Config!EnvBasic(p, "prometheus"), None, own[p],
                             user.basic["prometheus"]>>)
      BY <2>1 DEF Config!Basic
    <2> QED
      BY <2>2, <2>3, FirstOfTwo
  <1> QED
    BY <1>1, ProfilesAlways, PTL

-----------------------------------------------------------------------------
(***************************************************************************)
(* The editors of the console.                                             *)
(***************************************************************************)

LEMMA SavedNext ==
    ASSUME Edit!SavedIsOnDisk, [Edit!Next]_(Edit!vars)
    PROVE  Edit!SavedIsOnDisk'
  <1> USE DEF Edit!SavedIsOnDisk, Edit!profile, Edit!budget
  <1>1. ASSUME NEW e \in Opened, Edit!Open(e) PROVE Edit!SavedIsOnDisk'
    BY <1>1 DEF Edit!Open
  <1>2. ASSUME NEW v \in {"", "new", "bad"}, Edit!Type(v) PROVE Edit!SavedIsOnDisk'
    BY <1>2 DEF Edit!Type
  <1>3. ASSUME NEW k \in {"token", "basic"}, Edit!Clear(k) PROVE Edit!SavedIsOnDisk'
    BY <1>3 DEF Edit!Clear
  <1>4. CASE Edit!Close \/ Edit!Move
    BY <1>4 DEF Edit!Close, Edit!Move
  <1>5. CASE Edit!Apply
    <2>1. CASE Edit!Refuse(editor)
      BY <2>1 DEF Edit!Refuse
    <2>2. CASE Edit!Fail(editor)
      BY <2>2 DEF Edit!Fail
    <2>3. CASE Edit!Save(editor)
      BY <2>3 DEF Edit!Save, Edit!SaveProfile
    <2> QED
      BY <1>5, <2>1, <2>2, <2>3 DEF Edit!Apply
  <1>6. CASE UNCHANGED Edit!vars
    BY <1>6 DEF Edit!vars
  <1> QED
    BY <1>1, <1>2, <1>3, <1>4, <1>5, <1>6 DEF Edit!Next

\* An editor that says it has saved has written all the console has in memory
\* (interactive_tui.go), whatever editors there are and however often earlier
\* saves failed.
THEOREM SavedCorrect == Edit!Spec => []SavedIsOnDisk
  <1>1. Edit!Init => Edit!SavedIsOnDisk
    BY DEF Edit!Init, Edit!SavedIsOnDisk
  <1> QED
    BY <1>1, SavedNext, PTL DEF Edit!Spec, SavedIsOnDisk

\* No file is due without a token, and none is written without a password.
LEMMA NothingWritten ==
    ASSUME NEW e, NEW done, Edit!WriteFiles(e, done),
           Edit!HasCreds(e) => Edit!TypedCreds(e).token = "" /\ Edit!TypedCreds(e).pass = ""
    PROVE  editFiles' = editFiles
  <1>1. "token" \notin done /\ "basic" \notin done
    BY DEF Edit!WriteFiles, Edit!Due, Edit!Complete
  <1>2. done = {}
    BY <1>1 DEF Edit!WriteFiles, Edit!Due
  <1> QED
    BY <1>2 DEF Edit!WriteFiles

\* A save without a password and a token takes nobody's access away
\* (interactive_tui.go), whatever writes fail and whichever editors share files:
\* such a save writes no file of the user, and no other step of an open editor
\* does but the keys that clear one.
THEOREM SecretsCorrect == Edit!Spec => SecretsKept
  <1> DEFINE Silent == /\ editor' = editor /\ editor # NoEditor /\ says' # "cleared"
                       /\ Edit!HasCreds(editor) => /\ Edit!TypedCreds(editor).token = ""
                                                   /\ Edit!TypedCreds(editor).pass = ""
  <1>1. ASSUME [Edit!Next]_(Edit!vars), Silent PROVE editFiles' = editFiles
    <2>1. ASSUME NEW e \in Opened, Edit!Open(e) PROVE editFiles' = editFiles
      BY <1>1, <2>1 DEF Edit!Open
    <2>2. ASSUME NEW v \in {"", "new", "bad"}, Edit!Type(v) PROVE editFiles' = editFiles
      BY <2>2 DEF Edit!Type
    <2>3. ASSUME NEW k \in {"token", "basic"}, Edit!Clear(k) PROVE editFiles' = editFiles
      BY <1>1, <2>3 DEF Edit!Clear
    <2>4. CASE Edit!Close \/ Edit!Move
      BY <2>4 DEF Edit!Close, Edit!Move
    <2>5. CASE Edit!Apply
      <3>1. CASE Edit!Refuse(editor) \/ Edit!Fail(editor)
        BY <3>1 DEF Edit!Refuse, Edit!Fail
      <3>2. CASE Edit!Save(editor)
        BY <1>1, <3>2, NothingWritten DEF Edit!Save
      <3> QED
        BY <2>5, <3>1, <3>2 DEF Edit!Apply
    <2>6. CASE UNCHANGED Edit!vars
      BY <2>6 DEF Edit!vars
    <2> QED
      BY <1>1, <2>1, <2>2, <2>3, <2>4, <2>5, <2>6 DEF Edit!Next
  <1>2. ASSUME [Edit!Next]_(Edit!vars), Silent,
               NEW o \in Edit!Owners \ {"elastic", "correlation", "backend"}
        PROVE  Edit!Creds(o, disk)' = Edit!Creds(o, disk)
    BY <1>1, <1>2 DEF Edit!Creds
  <1>3. [Edit!Next]_(Edit!vars) =>
            [\A o \in Edit!Owners \ {"elastic", "correlation", "backend"} :
                /\ editor' = editor /\ editor # NoEditor /\ says' # "cleared"
                /\ Edit!HasCreds(editor) =>
                      Edit!TypedCreds(editor).token = "" /\ Edit!TypedCreds(editor).pass = ""
                => Edit!Creds(o, disk)' = Edit!Creds(o, disk)]_(Edit!vars)
    BY <1>2
  <1> QED
    BY <1>3, PTL DEF Edit!Spec, SecretsKept, Edit!SecretsKept

-----------------------------------------------------------------------------
(***************************************************************************)
(* Typing: which slots have a process, and who holds the port.             *)
(***************************************************************************)
ListenLooking == {"check", "kill", "remove"}

ListenTyping ==
    /\ Listen!TypeOK
    /\ \A s \in Slots :
          /\ proc[s] # "none" \/ pc[s] \in {"spawn", "poll"} => kind[s] = "start"
          /\ pc[s] \in ListenLooking => kind[s] \in {"stop", "status", "reload"} /\ pid[s] \in Slots
          /\ pc[s] = "spawn" => proc[s] = "none"
          /\ kind[s] = "unused" => pc[s] = "idle"
          /\ port = s <=> proc[s] \in {"bound", "serving"}

LEMMA ListenTypingInit == Listen!ConstantsAssumption /\ Listen!Init => ListenTyping
  <1> SUFFICES ASSUME Listen!ConstantsAssumption, Listen!Init PROVE ListenTyping
    OBVIOUS
  <1>1. Listen!TypeOK
    BY DEF Listen!Init, Listen!TypeOK
  <1>2. ASSUME NEW s \in Slots
        PROVE  /\ proc[s] = "none" /\ pc[s] = "idle" /\ kind[s] = "unused"
               /\ port # s
    BY DEF Listen!Init, Listen!ConstantsAssumption
  <1> QED
    BY <1>1, <1>2 DEF ListenTyping, ListenLooking

\* The PID file is written with the name of a process that was spawned.
LEMMA ListenTypingStep ==
    ASSUME Listen!ConstantsAssumption, ListenTyping, NEW s \in Slots,
           \/ Listen!Start(s) \/ Listen!Spawn(s) \/ Listen!Bind(s) \/ Listen!WritePIDFile(s) \/ Listen!PollSeen(s) \/ Listen!PollOut(s)
           \/ \E k \in {"stop", "status", "reload"} : Listen!Look(s, k)
           \/ Listen!Check(s) \/ Listen!Kill(s) \/ Listen!Remove(s) \/ Listen!Reload(s) \/ Listen!Die(s)
    PROVE  ListenTyping'
  <1> USE DEF ListenTyping, Listen!TypeOK, Listen!ConstantsAssumption
  <1>1. CASE Listen!Start(s)
    BY <1>1 DEF Listen!Start, Listen!Begin, ListenLooking
  <1>2. CASE Listen!Spawn(s)
    BY <1>2 DEF Listen!Spawn, Listen!Step, ListenLooking
  <1>3. CASE Listen!Bind(s)
    BY <1>3 DEF Listen!Bind, ListenLooking
  <1>4. CASE Listen!WritePIDFile(s)
    BY <1>4 DEF Listen!WritePIDFile, ListenLooking
  <1>5. CASE Listen!PollSeen(s)
    BY <1>5 DEF Listen!PollSeen, Listen!Step, ListenLooking
  <1>6. CASE Listen!PollOut(s)
    BY <1>6 DEF Listen!PollOut, Listen!Step, ListenLooking
  <1>7. ASSUME NEW k \in {"stop", "status", "reload"}, Listen!Look(s, k) PROVE ListenTyping'
    BY <1>7 DEF Listen!Look, Listen!Begin, ListenLooking
  <1>8. CASE Listen!Check(s)
    BY <1>8 DEF Listen!Check, Listen!Step, ListenLooking
  <1>9. CASE Listen!Kill(s)
    BY <1>9 DEF Listen!Kill, Listen!Step, ListenLooking, Listen!Alive
  <1>10. CASE Listen!Remove(s)
    BY <1>10 DEF Listen!Remove, Listen!Step, ListenLooking
  <1>11. CASE Listen!Reload(s)
    BY <1>11 DEF Listen!Reload, Listen!Step, ListenLooking
  <1>12. CASE Listen!Die(s)
    BY <1>12 DEF Listen!Die, ListenLooking, Listen!Alive
  <1> QED
    BY <1>1, <1>2, <1>3, <1>4, <1>5, <1>6, <1>7, <1>8, <1>9, <1>10, <1>11, <1>12

LEMMA ListenTypingNext ==
    Listen!ConstantsAssumption /\ ListenTyping /\ [Listen!Next]_(Listen!vars) => ListenTyping'
  <1> SUFFICES ASSUME Listen!ConstantsAssumption, ListenTyping, [Listen!Next]_(Listen!vars)
               PROVE  ListenTyping'
    OBVIOUS
  <1>1. CASE UNCHANGED Listen!vars
    BY <1>1 DEF Listen!vars, ListenTyping, Listen!TypeOK
  <1> QED
    BY <1>1, ListenTypingStep DEF Listen!Next

-----------------------------------------------------------------------------
(***************************************************************************)
(* Commands run one at a time.  Only one slot is busy then: the command    *)
(* that is run, and the listener it spawned until that serves.  The port   *)
(* belongs to no other while a listener is on its way to it, and the       *)
(* command that removes the PID file has seen the port let go.             *)
(***************************************************************************)
ListenBusy(s) == pc[s] # "idle" \/ proc[s] \in {"starting", "bound"}

ListenNamed == \A s \in Slots : port = s /\ proc[s] = "serving" => file = s

ListenAlone ==
    /\ \A s, t \in Slots : ListenBusy(s) /\ ListenBusy(t) => s = t
    /\ ListenNamed
    /\ \A s \in Slots :
          /\ pc[s] \in {"spawn", "poll"} \/ proc[s] = "starting" => port \in {NoPid, s}
          /\ pc[s] \in {"check", "kill"} => port \in {NoPid, pid[s]}
          /\ pc[s] = "remove" => port = NoPid

ListenFound == ~overlapped => ListenAlone

LEMMA ListenFoundInit == Listen!ConstantsAssumption /\ Listen!Init => ListenFound
  BY DEF Listen!ConstantsAssumption, Listen!Init, ListenFound, ListenAlone,
     ListenNamed, ListenBusy

\* A command that overlaps nothing begins when nothing is busy.
LEMMA ListenBeginAlone ==
    ASSUME Listen!ConstantsAssumption, ListenTyping, ListenFound, ~overlapped', NEW s \in Slots, NEW k, NEW at,
           Listen!Begin(s, k, at)
    PROVE  /\ ListenAlone /\ \A t \in Slots : ~ListenBusy(t)
           /\ \A t \in Slots \ {s} : pc'[t] = pc[t]
           /\ pc'[s] = at
  <1>1. ~overlapped /\ \A t \in Slots : ~(pc[t] # "idle" \/ proc[t] \in {"starting", "bound"})
    BY Zenon DEF Listen!Begin
  <1>2. pc' = [pc EXCEPT ![s] = at] /\ pc \in [Slots -> {"idle", "spawn", "poll", "check", "kill", "remove"}]
    BY DEF Listen!Begin, ListenTyping, Listen!TypeOK
  <1> QED
    BY <1>1, <1>2 DEF ListenFound, ListenBusy

LEMMA ListenFoundStep ==
    ASSUME Listen!ConstantsAssumption, ListenTyping, ListenFound, ~overlapped', NEW s \in Slots,
           \/ Listen!Start(s) \/ Listen!Spawn(s) \/ Listen!Bind(s) \/ Listen!WritePIDFile(s) \/ Listen!PollSeen(s) \/ Listen!PollOut(s)
           \/ \E k \in {"stop", "status", "reload"} : Listen!Look(s, k)
           \/ Listen!Check(s) \/ Listen!Kill(s) \/ Listen!Remove(s) \/ Listen!Reload(s) \/ Listen!Die(s)
    PROVE  ListenAlone'
  <1> USE DEF ListenTyping, Listen!TypeOK, Listen!ConstantsAssumption
  <1>1. CASE Listen!Start(s)
    <2>1. /\ ListenAlone /\ \A t \in Slots : ~ListenBusy(t)
          /\ \A t \in Slots \ {s} : pc'[t] = pc[t]
          /\ pc'[s] = IF port = NoPid THEN "spawn" ELSE "idle"
          /\ UNCHANGED <<pid, proc, port, file>>
      BY <1>1, ListenBeginAlone DEF Listen!Start
    <2>2. \A t \in Slots \ {s} : pc'[t] = "idle" /\ proc'[t] \notin {"starting", "bound"}
      BY <2>1 DEF ListenBusy
    <2>3. proc'[s] \notin {"starting", "bound"} /\ (pc'[s] = "spawn" => port' = NoPid)
          /\ pc'[s] \in {"spawn", "idle"}
      BY <2>1 DEF ListenBusy
    <2>4. ListenNamed'
      BY <2>1 DEF ListenAlone, ListenNamed
    <2>5. \A t, u \in Slots : ListenBusy(t)' /\ ListenBusy(u)' => t = u
      BY <2>2, <2>3 DEF ListenBusy
    <2>6. ASSUME NEW t \in Slots
          PROVE  /\ pc'[t] \in {"spawn", "poll"} \/ proc'[t] = "starting" => port' \in {NoPid, t}
                 /\ pc'[t] \notin {"check", "kill", "remove"}
      <3>1. CASE t = s
        BY <2>3, <3>1
      <3>2. CASE t # s
        BY <2>2, <3>2
      <3> QED
        BY <3>1, <3>2
    <2> HIDE DEF ListenTyping, Listen!TypeOK
    <2>7. (\A t, u \in Slots : ListenBusy(t) /\ ListenBusy(u) => t = u)'
      BY <2>5
    <2>8. (\A t \in Slots :
             /\ pc[t] \in {"spawn", "poll"} \/ proc[t] = "starting" => port \in {NoPid, t}
             /\ pc[t] \in {"check", "kill"} => port \in {NoPid, pid[t]}
             /\ pc[t] = "remove" => port = NoPid)'
      BY <2>6
    <2> QED
      BY <2>4, <2>7, <2>8 DEF ListenAlone
  <1>2. CASE Listen!Spawn(s)
    BY <1>2 DEF Listen!Spawn, Listen!Step, ListenFound, ListenAlone, ListenNamed, ListenBusy
  <1>3. CASE Listen!Bind(s)
    <2>1. /\ ListenAlone /\ ListenBusy(s) /\ port = NoPid
          /\ \A t \in Slots \ {s} : ~ListenBusy(t)
      BY <1>3 DEF Listen!Bind, ListenFound, ListenAlone, ListenBusy
    <2>2. /\ port' = s /\ proc' = [proc EXCEPT ![s] = "bound"]
          /\ UNCHANGED <<pc, pid, file>>
      BY <1>3, <2>1 DEF Listen!Bind
    <2>3. /\ proc'[s] = "bound"
          /\ pc[s] \notin ListenLooking
      BY <1>3, <2>2 DEF Listen!Bind
    <2>4. ASSUME NEW t \in Slots \ {s}
          PROVE  proc'[t] = proc[t] /\ pc'[t] = "idle" /\ proc'[t] \notin {"starting", "bound"}
      BY <2>1, <2>2 DEF ListenBusy
    <2> QED
      BY <2>1, <2>2, <2>3, <2>4 DEF ListenAlone, ListenNamed, ListenBusy, ListenLooking
  <1>4. CASE Listen!WritePIDFile(s)
    BY <1>4 DEF Listen!WritePIDFile, ListenFound, ListenAlone, ListenNamed, ListenBusy
  <1>5. CASE Listen!PollSeen(s)
    BY <1>5
       DEF Listen!PollSeen, Listen!Step, ListenFound, ListenAlone, ListenNamed,
           ListenBusy
  <1>6. CASE Listen!PollOut(s)
    BY <1>6
       DEF Listen!PollOut, Listen!Step, Listen!Alive, ListenFound, ListenAlone,
           ListenNamed, ListenBusy
  <1>7. ASSUME NEW k \in {"stop", "status", "reload"}, Listen!Look(s, k) PROVE ListenAlone'
    <2>1. /\ ListenAlone /\ \A t \in Slots : ~ListenBusy(t)
          /\ \A t \in Slots \ {s} : pc'[t] = pc[t]
          /\ pc'[s] = IF file = NoPid THEN "idle" ELSE "check"
          /\ pid' = [pid EXCEPT ![s] = file]
          /\ UNCHANGED <<proc, port, file>>
      BY <1>7, ListenBeginAlone DEF Listen!Look
    <2>2. port # NoPid => file = port
      BY <2>1 DEF ListenAlone, ListenNamed, ListenBusy
    <2> QED
      BY <2>1, <2>2 DEF ListenAlone, ListenNamed, ListenBusy
  <1>8. CASE Listen!Check(s)
    BY <1>8
       DEF Listen!Check, Listen!Step, Listen!Alive, ListenFound, ListenAlone,
           ListenNamed, ListenBusy
  <1>9. CASE Listen!Kill(s)
    BY <1>9
       DEF Listen!Kill, Listen!Step, Listen!Alive, ListenFound, ListenAlone,
           ListenNamed, ListenBusy
  <1>10. CASE Listen!Remove(s)
    BY <1>10
       DEF Listen!Remove, Listen!Step, ListenFound, ListenAlone, ListenNamed,
           ListenBusy
  <1>11. CASE Listen!Reload(s)
    BY <1>11
       DEF Listen!Reload, Listen!Step, ListenLooking, ListenFound, ListenAlone,
           ListenNamed, ListenBusy
  <1>12. CASE Listen!Die(s)
    BY <1>12 DEF Listen!Die, Listen!Alive, ListenFound, ListenAlone, ListenNamed, ListenBusy
  <1> QED
    BY <1>1, <1>2, <1>3, <1>4, <1>5, <1>6, <1>7, <1>8, <1>9, <1>10, <1>11, <1>12

LEMMA ListenFoundNext ==
    Listen!ConstantsAssumption /\ ListenTyping /\ ListenFound /\ [Listen!Next]_(Listen!vars) => ListenFound'
  <1> SUFFICES ASSUME Listen!ConstantsAssumption, ListenTyping, ListenFound, [Listen!Next]_(Listen!vars), ~overlapped'
               PROVE  ListenAlone'
    BY DEF ListenFound
  <1>1. CASE UNCHANGED Listen!vars
    BY <1>1 DEF Listen!vars, ListenFound, ListenAlone, ListenNamed, ListenBusy
  <1> QED
    BY <1>1, ListenFoundStep DEF Listen!Next

LEMMA ListenFoundIsFound ==
    Listen!ConstantsAssumption /\ ListenTyping /\ ListenFound => Listen!ListenerIsFound
  <1> SUFFICES ASSUME Listen!ConstantsAssumption, ListenTyping, ListenFound, ~overlapped, port # NoPid,
                      \A s \in Slots : pc[s] = "idle" /\ proc[s] \notin {"starting", "bound"}
               PROVE  file = port
    BY DEF Listen!ListenerIsFound
  <1>1. port \in Slots /\ proc[port] = "serving"
    BY DEF ListenTyping, Listen!TypeOK
  <1> QED
    BY <1>1 DEF ListenFound, ListenAlone, ListenNamed

(***************************************************************************)
(* Every variable keeps its type, however the commands overlap; a process  *)
(* holds the port exactly from its bind to its end.                        *)
(***************************************************************************)
THEOREM ListenTypeCorrect == Listen!Spec => []Listen!TypeOK
  <1> USE ListenAssumption
  <1>1. Listen!Init => ListenTyping
    BY ListenTypingInit
  <1>2. ListenTyping /\ [Listen!Next]_(Listen!vars) => ListenTyping'
    BY ListenTypingNext
  <1>3. ListenTyping => Listen!TypeOK
    BY DEF ListenTyping
  <1> QED
    BY <1>1, <1>2, <1>3, PTL DEF Listen!Spec

(***************************************************************************)
(* Run one at a time, the commands lose no listener: whatever crashed and  *)
(* whenever, between commands the PID file names the process that serves.  *)
(***************************************************************************)
THEOREM ListenerFound == Listen!Spec => []ListenerIsFound
  <1> USE ListenAssumption
  <1>1. Listen!Init => ListenTyping /\ ListenFound
    BY ListenTypingInit, ListenFoundInit
  <1>2. ListenTyping /\ ListenFound /\ [Listen!Next]_(Listen!vars) => ListenTyping' /\ ListenFound'
    BY ListenTypingNext, ListenFoundNext
  <1>3. ListenTyping /\ ListenFound => ListenerIsFound
    BY ListenFoundIsFound DEF ListenerIsFound
  <1> QED
    BY <1>1, <1>2, <1>3, PTL DEF Listen!Spec

-----------------------------------------------------------------------------
(***************************************************************************)
(* The collaborative session.  A broadcast may be dropped, by a channel    *)
(* that is full; but then the channel holds messages, and whoever takes    *)
(* one of them renders the incident as it is by then.  Saves nobody is     *)
(* told of only add to what is rendered.                                   *)
(***************************************************************************)

\* What is announced, or on its way through the host's view, is a version each.
SessionTyped ==
    /\ Collab!TypeOK
    /\ announce + results <= version
    /\ asked + results <= MaxReads + version
    /\ \A g \in Guests \ open : ~ready[g]

LEMMA SessionTypedInit == Collab!ConstantsAssumption /\ Collab!Init => SessionTyped
  <1> SUFFICES ASSUME Collab!ConstantsAssumption, Collab!Init PROVE SessionTyped
    OBVIOUS
  <1> USE DEF Collab!ConstantsAssumption, Collab!Init
  <1>1. /\ version \in 0..MaxVersion /\ told \in 0..version
        /\ open \subseteq Guests /\ announce \in 0..MaxVersion
        /\ hostShown \in 0..version /\ fetched \subseteq 0..version
        /\ results \in 0..MaxVersion /\ asked \in 0..(MaxReads + MaxVersion)
        /\ announce + results <= version
        /\ asked + results <= MaxReads + version
    OBVIOUS
  <1>2. /\ queue \in [Guests -> 0..Buffer] /\ shown \in [Guests -> 0..version]
        /\ step \in [Guests -> Nat]
    OBVIOUS
  <1>3. /\ commands \in [Guests -> SUBSET (Wizards \cup {"ack"})]
        /\ wizard \in [Guests -> Wizards \cup {"none"}]
    OBVIOUS
  <1>4. /\ ready \in [Guests -> BOOLEAN] /\ focused \in [Guests -> BOOLEAN]
        /\ hostPrompt \in BOOLEAN /\ missed \in BOOLEAN
        /\ \A g \in Guests \ open : ~ready[g]
    BY Zenon
  <1> QED
    BY <1>1, <1>2, <1>3, <1>4 DEF SessionTyped, Collab!TypeOK

\* A step of one guest.
LEMMA GuestTyped ==
    ASSUME Collab!ConstantsAssumption, SessionTyped, NEW g \in Guests, Collab!Guest(g)
    PROVE  SessionTyped'
  <1> USE DEF Collab!ConstantsAssumption, SessionTyped, Collab!TypeOK, Collab!stored
  <1>1. CASE Collab!Connect(g)
    BY <1>1 DEF Collab!Connect, Collab!prompt, Collab!host
  <1>2. CASE Collab!Disconnect(g)
    BY <1>2 DEF Collab!Disconnect, Collab!host
  <1>3. CASE Collab!WindowSize(g)
    BY <1>3 DEF Collab!WindowSize, Collab!Render, Collab!prompt, Collab!host
  <1>4. CASE Collab!Receive(g)
    BY <1>4 DEF Collab!Receive, Collab!Render, Collab!prompt, Collab!host
  <1>5. CASE Collab!EnterCommand(g)
    BY <1>5 DEF Collab!EnterCommand, Collab!Render, Collab!prompt, Collab!host
  <1>6. CASE Collab!RunAck(g)
    BY <1>6 DEF Collab!RunAck, Collab!Act, Collab!Disowned, Collab!Save, Collab!prompt, Collab!host
  <1>7. CASE Collab!OpenWizard(g)
    BY <1>7 DEF Collab!OpenWizard, Collab!host
  <1>8. CASE Collab!Answer(g)
    <2>1. CASE UNCHANGED <<Collab!stored, announce, wizard, focused>>
      BY <1>8, <2>1 DEF Collab!Answer, Collab!host
    <2>2. CASE /\ Collab!Act
               /\ wizard' = [wizard EXCEPT ![g] = "none"]
               /\ focused' = [focused EXCEPT ![g] = TRUE]
      <3>1. \/ UNCHANGED <<version, told, announce>>
            \/ /\ version < MaxVersion /\ version' = version + 1
               /\ \/ told' = version' /\ announce' = announce + 1
                  \/ UNCHANGED <<told, announce>>
        BY <2>2 DEF Collab!Act, Collab!Disowned, Collab!Save
      <3>2. /\ version' \in 0..MaxVersion /\ 0..version \subseteq 0..version'
            /\ told' \in 0..version' /\ announce' \in 0..MaxVersion
            /\ announce' + results <= version' /\ asked + results <= MaxReads + version'
        BY <3>1
      <3>3. wizard' \in [Guests -> Wizards \cup {"none"}]
        BY <2>2
      <3>4. focused' \in [Guests -> BOOLEAN]
        BY <2>2
      <3>5. step' \in [Guests -> Nat]
        BY <1>8 DEF Collab!Answer
      <3> QED
        BY <1>8, <3>2, <3>3, <3>4, <3>5 DEF Collab!Answer, Collab!host
    <2> QED
      BY <1>8, <2>1, <2>2 DEF Collab!Answer
  <1>9. CASE Collab!Escape(g)
    BY <1>9 DEF Collab!Escape, Collab!host
  <1> QED
    BY <1>1, <1>2, <1>3, <1>4, <1>5, <1>6, <1>7, <1>8, <1>9 DEF Collab!Guest

LEMMA SessionTypedNext ==
    ASSUME Collab!ConstantsAssumption, SessionTyped, [Collab!Next]_(Collab!vars)
    PROVE  SessionTyped'
  <1> USE DEF Collab!ConstantsAssumption, SessionTyped, Collab!TypeOK, Collab!stored
  <1>1. CASE Collab!Broadcast
    BY <1>1 DEF Collab!Broadcast, Collab!prompt, Collab!host
  <1>2. CASE Collab!HostPrompt
    <2>1. hostPrompt' \in BOOLEAN
      BY <1>2, Zenon DEF Collab!HostPrompt
    <2> QED
      BY <1>2, <2>1 DEF Collab!HostPrompt, Collab!guests, Collab!prompt
  <1>3. CASE Collab!HostAct
    <2>1. /\ version' \in 0..MaxVersion /\ 0..version \subseteq 0..version' /\ told' \in 0..version'
          /\ results' \in 0..MaxVersion /\ announce + results' <= version'
          /\ asked + results' <= MaxReads + version'
      BY <1>3 DEF Collab!HostAct, Collab!Disowned, Collab!Save
    <2>2. shown \in [Guests -> 0..version'] /\ hostShown \in 0..version' /\ fetched \subseteq 0..version'
      BY <2>1
    <2> QED
      BY <1>3, <2>1, <2>2 DEF Collab!HostAct, Collab!guests, Collab!prompt
  <1>4. CASE Collab!HostResult
    <2>1. CASE hostPrompt
      BY <1>4, <2>1 DEF Collab!HostResult, Collab!guests, Collab!prompt
    <2>2. CASE ~hostPrompt
      BY <1>4, <2>2 DEF Collab!HostResult, Collab!guests, Collab!prompt
    <2> QED
      BY <2>1, <2>2
  <1>5. CASE Collab!HostRefresh
    BY <1>5 DEF Collab!HostRefresh, Collab!guests, Collab!prompt
  <1>6. CASE Collab!HostRead
    <2>1. fetched' \subseteq 0..version /\ asked' \in 0..(MaxReads + MaxVersion)
          /\ asked' + results <= MaxReads + version
      BY <1>6 DEF Collab!HostRead
    <2> QED
      BY <1>6, <2>1 DEF Collab!HostRead, Collab!guests, Collab!prompt
  <1>7. ASSUME NEW v \in fetched, Collab!HostUpdated(v) PROVE SessionTyped'
    BY <1>7 DEF Collab!HostUpdated, Collab!guests, Collab!prompt
  <1>8. CASE Collab!HostPostmortem \/ Collab!SavedElsewhere
    <2>1. /\ version' \in 0..MaxVersion /\ version' = version + 1
          /\ UNCHANGED <<told, announce, Collab!guests, Collab!host>>
      BY <1>8 DEF Collab!HostPostmortem, Collab!SavedElsewhere, Collab!Disowned, Collab!Save
    <2>2. /\ 0..version \subseteq 0..version'
          /\ announce + results <= version' /\ asked + results <= MaxReads + version'
      BY <2>1
    <2>3. /\ told \in 0..version' /\ shown \in [Guests -> 0..version']
          /\ hostShown \in 0..version' /\ fetched \subseteq 0..version'
      BY <2>1, <2>2
    <2> QED
      BY <2>1, <2>2, <2>3 DEF Collab!guests, Collab!prompt, Collab!host
  <1>9. CASE UNCHANGED Collab!vars
    BY <1>9 DEF Collab!vars
  <1> QED
    BY <1>1, <1>2, <1>3, <1>4, <1>5, <1>6, <1>7, <1>8, <1>9, GuestTyped
       DEF Collab!Next, Collab!Host

\* A guest who does not see what was announced last has a message to come.
Told ==
    \A g \in open : ready[g] => \/ shown[g] >= told
                                \/ queue[g] > 0 \/ announce > 0 \/ results > 0 \/ missed

LEMMA GuestTold ==
    ASSUME Collab!ConstantsAssumption, SessionTyped, Told, NEW g \in Guests, Collab!Guest(g)
    PROVE  Told'
  <1> USE DEF Collab!ConstantsAssumption, SessionTyped, Collab!TypeOK, Told, Collab!stored
  <1>1. CASE Collab!Connect(g)
    BY <1>1 DEF Collab!Connect, Collab!prompt, Collab!host
  <1>2. CASE Collab!Disconnect(g)
    BY <1>2 DEF Collab!Disconnect, Collab!host
  <1>3. CASE Collab!WindowSize(g)
    BY <1>3 DEF Collab!WindowSize, Collab!Render, Collab!prompt, Collab!host
  <1>4. CASE Collab!Receive(g)
    BY <1>4 DEF Collab!Receive, Collab!Render, Collab!prompt, Collab!host
  <1>5. CASE Collab!EnterCommand(g)
    BY <1>5 DEF Collab!EnterCommand, Collab!Render, Collab!prompt, Collab!host
  <1>6. CASE Collab!RunAck(g)
    BY <1>6 DEF Collab!RunAck, Collab!Act, Collab!Disowned, Collab!Save, Collab!prompt, Collab!host
  <1>7. CASE Collab!OpenWizard(g)
    BY <1>7 DEF Collab!OpenWizard, Collab!host
  <1>8. CASE Collab!Answer(g)
    <2>1. \/ UNCHANGED <<told, announce>>
          \/ announce' = announce + 1
      BY <1>8 DEF Collab!Answer, Collab!Act, Collab!Disowned
    <2> QED
      BY <1>8, <2>1 DEF Collab!Answer, Collab!host
  <1>9. CASE Collab!Escape(g)
    BY <1>9 DEF Collab!Escape, Collab!host
  <1> QED
    BY <1>1, <1>2, <1>3, <1>4, <1>5, <1>6, <1>7, <1>8, <1>9 DEF Collab!Guest

LEMMA ToldNext ==
    ASSUME Collab!ConstantsAssumption, SessionTyped, Told, [Collab!Next]_(Collab!vars)
    PROVE  Told'
  <1> USE DEF Collab!ConstantsAssumption, SessionTyped, Collab!TypeOK, Told, Collab!stored
  <1>1. CASE Collab!Broadcast
    BY <1>1 DEF Collab!Broadcast, Collab!prompt, Collab!host
  <1>2. CASE Collab!HostPrompt \/ Collab!HostAct
    BY <1>2 DEF Collab!HostPrompt, Collab!HostAct, Collab!Disowned, Collab!guests, Collab!prompt
  <1>3. CASE Collab!HostResult
    <2>1. CASE hostPrompt
      BY <1>3, <2>1 DEF Collab!HostResult, Collab!guests, Collab!prompt
    <2>2. CASE ~hostPrompt
      BY <1>3, <2>2 DEF Collab!HostResult, Collab!guests, Collab!prompt
    <2> QED
      BY <2>1, <2>2
  <1>4. CASE Collab!HostRefresh \/ Collab!HostRead
    BY <1>4 DEF Collab!HostRefresh, Collab!HostRead, Collab!guests, Collab!prompt
  <1>5. ASSUME NEW v \in fetched, Collab!HostUpdated(v) PROVE Told'
    BY <1>5 DEF Collab!HostUpdated, Collab!guests, Collab!prompt
  <1>6. CASE Collab!HostPostmortem \/ Collab!SavedElsewhere
    BY <1>6 DEF Collab!HostPostmortem, Collab!SavedElsewhere, Collab!Disowned,
                Collab!guests, Collab!prompt, Collab!host
  <1>7. CASE UNCHANGED Collab!vars
    BY <1>7 DEF Collab!vars
  <1> QED
    BY <1>1, <1>2, <1>3, <1>4, <1>5, <1>6, <1>7, GuestTold DEF Collab!Next, Collab!Host

LEMMA SessionAlways ==
    Collab!ConstantsAssumption => (Collab!Spec => [](SessionTyped /\ Told))
  <1> SUFFICES ASSUME Collab!ConstantsAssumption
               PROVE  Collab!Spec => [](SessionTyped /\ Told)
    OBVIOUS
  <1>1. Collab!Init => SessionTyped /\ Told
    BY SessionTypedInit DEF Collab!Init, Told
  <1>2. SessionTyped /\ Told /\ [Collab!Next]_(Collab!vars) => (SessionTyped /\ Told)'
    BY SessionTypedNext, ToldNext
  <1> QED
    BY <1>1, <1>2, PTL DEF Collab!Spec

\* The server, the guests and the host keep to their types (server.go,
\* tui_view.go): no channel holds more than its buffer, and neither a guest nor
\* the host ever shows a version the incident has not reached.
THEOREM SessionTypeCorrect == Collab!Spec => []Collab!TypeOK
  <1>1. SessionTyped /\ Told => Collab!TypeOK
    BY DEF SessionTyped
  <1> QED
    BY <1>1, SessionAlways, CollabAssumption, PTL

\* A guest with nothing left to read sees every action that was announced, for any
\* number of guests, any size of the channels Broadcast fills (server.go) and any
\* number of saves nobody is told of in between, disowned ones and the note of a
\* postmortem (tui_view.go) among them, unless a result of the host was lost to
\* an open prompt.
THEOREM FreshCorrect == Collab!Spec => []FreshOnceDrained
  <1>1. SessionTyped /\ Told => FreshOnceDrained
    BY DEF SessionTyped, Told, Collab!TypeOK, FreshOnceDrained, Collab!FreshOnceDrained
  <1> QED
    BY <1>1, SessionAlways, CollabAssumption, PTL

-----------------------------------------------------------------------------
(***************************************************************************)
(* The wizard for teams.  What a profile is saved with was settled steps   *)
(* before: every question about the cluster leaves its trace in asked, and *)
(* the name ends them.                                                     *)
(***************************************************************************)

\* The steps of the test and those behind it.
Tested == {"test", "sampling", "done", "over"}
\* The steps at which an end of the program saves the profile.
Named == {"url", "auth", "index", "slack", "pagerduty", "test", "sampling", "done"}

\* The questions that come before a question about the cluster.
Before(q) ==
    {r \in Team!Cluster : \/ r = "kubeconfig" /\ q # "kubeconfig"
                          \/ r = "context" /\ q \notin {"kubeconfig", "context"}
                          \/ r = "awsconfig" /\ q \in {"awsprofile", "region"}
                          \/ r = "awsprofile" /\ q = "region"}

Settled == infra = "eks" => teamAsked = Team!Cluster

TeamTyped ==
    /\ Team!TypeOK
    /\ tests > 0 => teamStep.ask \in Tested
    /\ sampling > 0 => teamStep.ask \in {"sampling", "done", "over"}

TeamSettled ==
    /\ teamStep.ask = "cluster" => /\ teamStep.of \in Team!Cluster /\ infra # "bare-metal"
                                   /\ Before(teamStep.of) \subseteq teamAsked
    /\ teamStep.ask \in Named \cup {"name"} => Settled
    /\ teamStep.ask \in Named => eks = (infra # "bare-metal")
    /\ saved => teamStep.ask = "over" /\ Team!ProfileFitsInfra

LEMMA TeamTypedNext ==
    ASSUME Team!ConstantsAssumption, TeamTyped, TeamSettled, [Team!Next]_(Team!vars)
    PROVE  TeamTyped'
  <1> USE DEF Team!ConstantsAssumption, TeamTyped, Team!TypeOK, Tested, Team!Ask, Team!At
  <1>1. CASE Team!Confirm
    BY <1>1 DEF Team!Confirm
  <1>2. CASE Team!Arrow \/ Team!ChooseInfra
    BY <1>2 DEF Team!Arrow, Team!ChooseInfra
  <1>3. CASE Team!AnswerCluster
    <2>1. teamAsked' \subseteq Team!Cluster
      BY <1>3 DEF Team!AnswerCluster, TeamSettled
    <2>2. teamStep'.ask \in {"cluster", "name"}
      BY <1>3 DEF Team!AnswerCluster, Team!AfterCluster
    <2> QED
      BY <1>3, <2>1, <2>2 DEF Team!AnswerCluster
  <1>4. CASE Team!Name
    BY <1>4 DEF Team!Name, Team!ApplyPresetDefaults
  <1>5. ASSUME NEW filled \in BOOLEAN, Team!AnswerUrl(filled) PROVE TeamTyped'
    BY <1>5 DEF Team!AnswerUrl, Team!After
  <1>6. CASE Team!AnswerAuth
    BY <1>6 DEF Team!AnswerAuth, Team!After
  <1>7. CASE Team!Slack \/ Team!PagerDuty
    BY <1>7 DEF Team!Slack, Team!PagerDuty
  <1>8. CASE Team!Retest \/ Team!TestReturns
    BY <1>8 DEF Team!Retest, Team!TestReturns
  <1>9. CASE Team!Proceed \/ Team!Skip \/ Team!SamplingReturns
    BY <1>9 DEF Team!Proceed, Team!Skip, Team!SamplingReturns
  <1>10. CASE Team!Quit
    BY <1>10 DEF Team!Quit
  <1>11. CASE UNCHANGED Team!vars
    BY <1>11 DEF Team!vars
  <1> QED
    BY <1>1, <1>2, <1>3, <1>4, <1>5, <1>6, <1>7, <1>8, <1>9, <1>10, <1>11 DEF Team!Next

LEMMA TeamSettledNext ==
    ASSUME TeamTyped, TeamSettled, [Team!Next]_(Team!vars)
    PROVE  TeamSettled'
  <1> USE DEF TeamTyped, TeamSettled, Team!TypeOK, Named, Settled, Team!Ask, Team!At,
              Team!ProfileFitsInfra
  <1>1. CASE Team!Confirm
    BY <1>1 DEF Team!Confirm
  <1>2. CASE Team!Arrow \/ Team!ChooseInfra
    BY <1>2 DEF Team!Arrow, Team!ChooseInfra, Before, Team!Cluster, Team!Infras
  <1>3. CASE Team!AnswerCluster
    BY <1>3 DEF Team!AnswerCluster, Team!AfterCluster, Before, Team!Cluster
  <1>4. CASE Team!Name
    BY <1>4 DEF Team!Name, Team!ApplyPresetDefaults
  <1>5. ASSUME NEW filled \in BOOLEAN, Team!AnswerUrl(filled) PROVE TeamSettled'
    BY <1>5 DEF Team!AnswerUrl, Team!After
  <1>6. CASE Team!AnswerAuth
    BY <1>6 DEF Team!AnswerAuth, Team!After
  <1>7. CASE Team!Slack \/ Team!PagerDuty
    BY <1>7 DEF Team!Slack, Team!PagerDuty
  <1>8. CASE Team!Retest \/ Team!TestReturns
    BY <1>8 DEF Team!Retest, Team!TestReturns
  <1>9. CASE teamStep.ask # "over" /\ (Team!Proceed \/ Team!Skip \/ Team!SamplingReturns)
    BY <1>9 DEF Team!Proceed, Team!Skip, Team!SamplingReturns
  <1>10. CASE Team!Quit
    BY <1>10 DEF Team!Quit
  <1>11. CASE UNCHANGED Team!vars
    BY <1>11 DEF Team!vars
  <1> QED
    BY <1>1, <1>2, <1>3, <1>4, <1>5, <1>6, <1>7, <1>8, <1>9, <1>10, <1>11 DEF Team!Next

LEMMA TeamAlways ==
    Team!ConstantsAssumption => (Team!Spec => [](TeamTyped /\ TeamSettled))
  <1> SUFFICES ASSUME Team!ConstantsAssumption
               PROVE  Team!Spec => [](TeamTyped /\ TeamSettled)
    OBVIOUS
  <1>1. Team!Init => TeamTyped
    <2>1. Team!Init => eks \in BOOLEAN
      BY Zenon DEF Team!Init
    <2>2. Team!Init => saved \in BOOLEAN /\ infra \in Team!Infras
      BY DEF Team!Init
    <2>3. Team!Init => /\ teamStep.ask = "intro" /\ teamAsked = {} /\ result = "none"
                       /\ tests = 0 /\ sampling = 0
      BY DEF Team!Init, Team!Ask, Team!At
    <2> QED
      BY <2>1, <2>2, <2>3 DEF TeamTyped, Team!TypeOK, Team!ConstantsAssumption
  <1>2. Team!Init => TeamSettled
    BY DEF Team!Init, TeamSettled, Named, Team!Ask, Team!At
  <1>3. TeamTyped /\ TeamSettled /\ [Team!Next]_(Team!vars) => (TeamTyped /\ TeamSettled)'
    BY TeamTypedNext, TeamSettledNext
  <1> QED
    BY <1>1, <1>2, <1>3, PTL DEF Team!Spec

\* The wizard keeps to its steps (wizard_teams.go): however often a test is
\* repeated, one sampling at most is in flight.
THEOREM TeamTypeCorrect == Team!Spec => []Team!TypeOK
  <1>1. TeamTyped /\ TeamSettled => Team!TypeOK
    BY DEF TeamTyped
  <1> QED
    BY <1>1, TeamAlways, TeamAssumption, PTL

\* A profile is saved for a cluster when and only when one was chosen, and for
\* EKS only after all its questions (wizard_teams.go), whatever backends can be
\* skipped, in whatever order, and however many tests run at once.
THEOREM ProfileCorrect == Team!Spec => []ProfileFitsInfra
  <1>1. TeamTyped /\ TeamSettled => ProfileFitsInfra
    BY DEF TeamSettled, ProfileFitsInfra, Team!ProfileFitsInfra
  <1> QED
    BY <1>1, TeamAlways, TeamAssumption, PTL

-----------------------------------------------------------------------------
(***************************************************************************)
(* The self update, by one process.  It runs from the binary until it puts *)
(* another file in its place, so nothing can be written to the binary; and *)
(* the file it puts there is one that was filled, with what was verified.  *)
(***************************************************************************)

File(name) == names[name]
Step == updatePc[Updating]

UpdateTyped ==
    /\ Update!TypeOK
    /\ updatePc \in [{Updating} -> {"off", "check", "verify", "backup", "backingup", "copy",
                                    "copying", "rename", "restore", "over"}]

UpdateSafe ==
    /\ File("binary") \in Update!Inodes /\ Update!CurrentBinaryWorks
    /\ File("new") # File("binary") /\ File("backup") # File("binary")
    /\ Step \notin {"off", "over"} => started[Updating] = File("binary")
    /\ Step \notin {"backingup", "copying"} => fd[Updating] = NoFile
    /\ Step = "backingup" => fd[Updating] = File("backup") /\ File("backup") # NoFile
    /\ Step = "copying" => fd[Updating] = File("new") /\ File("new") # NoFile
    /\ Step \in {"backup", "backingup", "copy", "copying"} => download[Updating] # Update!Part
    /\ Step = "rename" => File("new") = NoFile \/ data[File("new")] # Update!Part

LEMMA FiveInodes == Update!Inodes = 1..5
  <1>1. Update!Cardinality({Updating}) = Cardinality({Updating})
    BY Zenon DEF Update!Cardinality, Cardinality
  <1>2. Cardinality({Updating}) = 1
    BY FS_Singleton
  <1> QED
    BY <1>1, <1>2 DEF Update!Inodes

\* There is an inode to spare.
LEMMA UnusedIsFree ==
    ASSUME Update!ConstantsAssumption, UpdateTyped, UpdateSafe,
           Step \notin {"off", "over"}, fd[Updating] = NoFile
    PROVE  Update!Unused \in Update!Inodes \ Update!InUse
  <1> DEFINE Free == Update!Inodes \ Update!InUse
  <1>1. Update!InUse \subseteq {File("binary"), File("new"), File("backup"), NoFile}
    BY DEF Update!InUse, UpdateTyped, Update!TypeOK, UpdateSafe, File, Step
  <1>2. 1 \in Free \/ 2 \in Free \/ 3 \in Free \/ 4 \in Free
    <2>1. \A i \in 1..4 : i \in Free \/ i \in {File("binary"), File("new"), File("backup")}
      BY <1>1, FiveInodes DEF Update!ConstantsAssumption
    <2> HIDE DEF Free
    <2> QED
      BY <2>1
  <1>3. Free \subseteq 1..5
    BY FiveInodes
  <1> HIDE DEF Free
  <1>4. \E i \in Free : \A j \in Free : i <= j
    <2>1. CASE 1 \in Free
      BY <1>3, <2>1
    <2>2. CASE 1 \notin Free /\ 2 \in Free
      BY <1>3, <2>2
    <2>3. CASE 1 \notin Free /\ 2 \notin Free /\ 3 \in Free
      BY <1>3, <2>3
    <2>4. CASE 1 \notin Free /\ 2 \notin Free /\ 3 \notin Free /\ 4 \in Free
      BY <1>3, <2>4
    <2> QED
      BY <1>2, <2>1, <2>2, <2>3, <2>4
  <1>5. (CHOOSE i \in Free : \A j \in Free : i <= j) \in Free
    BY <1>4
  <1> QED
    BY <1>5 DEF Update!Unused, Free

\* A file that is created is never the binary, and the binary stays.
LEMMA CreatedBeside ==
    ASSUME Update!ConstantsAssumption, UpdateTyped, UpdateSafe, NEW name \in {"new", "backup"},
           Step \notin {"off", "over"}, fd[Updating] = NoFile, Update!Create(Updating, name)
    PROVE  \E i \in Update!Inodes \ {File("binary")} :
              /\ names' = [names EXCEPT ![name] = i]
              /\ data' = [data EXCEPT ![i] = Update!Part]
              /\ fd' = [fd EXCEPT ![Updating] = i]
  <1> DEFINE i == IF names[name] = NoFile THEN Update!Unused ELSE names[name]
  <1>1. i \in Update!Inodes
    BY UnusedIsFree DEF UpdateTyped, Update!TypeOK
  <1>2. File("binary") \in Update!InUse
    BY DEF File, Update!InUse, UpdateTyped, Update!TypeOK
  <1>3. i # File("binary")
    BY <1>2, UnusedIsFree DEF UpdateSafe, File
  <1>4. /\ names' = [names EXCEPT ![name] = i]
        /\ data' = [data EXCEPT ![i] = Update!Part]
        /\ fd' = [fd EXCEPT ![Updating] = i]
    BY DEF Update!Create
  <1> QED
    BY <1>1, <1>3, <1>4

\* Nobody else writes.
LEMMA FilledAlone ==
    ASSUME NEW content, Update!Fill(Updating, content)
    PROVE  /\ data' = [data EXCEPT ![fd[Updating]] = content]
           /\ fd' = [fd EXCEPT ![Updating] = NoFile]
  BY DEF Update!Fill

LEMMA UpdateNext ==
    ASSUME Update!ConstantsAssumption, UpdateTyped, UpdateSafe, [Update!Next]_(Update!vars)
    PROVE  UpdateTyped' /\ UpdateSafe'
  <1> USE DEF Update!ConstantsAssumption, UpdateTyped, Update!TypeOK, UpdateSafe, File, Step,
              Update!CurrentBinaryWorks, Update!Installed, Update!Part, Update!files
  <1>1. CASE Update!Publish
    BY <1>1 DEF Update!Publish, Update!Versions
  <1>2. CASE Update!Launch(Updating)
    BY <1>2 DEF Update!Launch, Update!Goto
  <1>3. CASE Update!Download(Updating)
    BY <1>3 DEF Update!Download, Update!Goto
  <1>4. CASE Update!Verify(Updating)
    BY <1>4 DEF Update!Verify, Update!Goto
  <1>5. CASE Update!Backup(Updating)
    <2> USE DEF Update!Goto
    <2>1. CASE Step = "backup" /\ Update!Create(Updating, "backup")
               /\ Update!Goto(Updating, "backingup")
      BY <1>5, <2>1, CreatedBeside DEF Update!Backup
    <2>2. CASE Step = "backup" /\ Update!Goto(Updating, "copy") /\ UNCHANGED <<names, data, fd>>
      BY <1>5, <2>2 DEF Update!Backup
    <2>3. CASE Step = "backingup"
      <3>1. updatePc' = [updatePc EXCEPT ![Updating] = "copy"]
            /\ UNCHANGED <<names, published, running, started, download>>
        BY <1>5, <2>3 DEF Update!Backup
      <3>2. CASE Update!Fill(Updating, data[names["binary"]])
        BY <2>3, <3>1, <3>2, FilledAlone
      <3>3. CASE Update!Stop(Updating)
        BY <2>3, <3>1, <3>3 DEF Update!Stop
      <3> QED
        BY <1>5, <2>3, <3>2, <3>3 DEF Update!Backup
    <2> QED
      BY <1>5, <2>1, <2>2, <2>3 DEF Update!Backup
  <1>6. CASE Update!Copy(Updating)
    <2> USE DEF Update!Goto
    <2>1. CASE Step = "copy" /\ Update!Create(Updating, "new") /\ Update!Goto(Updating, "copying")
      BY <1>6, <2>1, CreatedBeside DEF Update!Copy
    <2>2. CASE Step = "copy" /\ Update!Remove({"backup"}) /\ Update!Goto(Updating, "over")
               /\ UNCHANGED <<data, fd>>
      BY <1>6, <2>2 DEF Update!Copy, Update!Remove
    <2>3. CASE Step = "copying" /\ Update!Fill(Updating, download[Updating])
               /\ Update!Goto(Updating, "rename") /\ UNCHANGED names
      BY <1>6, <2>3, FilledAlone DEF Update!Copy
    <2>4. CASE Step = "copying" /\ Update!Fill(Updating, download[Updating])
               /\ Update!Remove({"new", "backup"}) /\ Update!Goto(Updating, "over")
      BY <1>6, <2>4, FilledAlone DEF Update!Copy, Update!Remove
    <2>5. CASE Step = "copying" /\ Update!Stop(Updating) /\ Update!Remove({"backup"})
               /\ Update!Goto(Updating, "over")
      BY <1>6, <2>5 DEF Update!Copy, Update!Remove, Update!Stop
    <2> QED
      BY <1>6, <2>1, <2>2, <2>3, <2>4, <2>5 DEF Update!Copy
  <1>7. CASE Update!Rename(Updating)
    BY <1>7 DEF Update!Rename, Update!Goto, Update!Remove
  <1>8. CASE Update!Restore(Updating)
    <2>1. Update!Busy(names["binary"]) \/ Step # "restore"
      BY DEF Update!Busy
    <2>2. Step = "restore" /\ updatePc' = [updatePc EXCEPT ![Updating] = "over"]
          /\ UNCHANGED <<names, data, fd, published, running, started, download>>
      BY <1>8, <2>1 DEF Update!Restore, Update!Create, Update!Goto
    <2> QED
      BY <2>2
  <1>9. CASE Update!Exit(Updating)
    BY <1>9 DEF Update!Exit, Update!Goto
  <1>10. CASE UNCHANGED Update!vars
    BY <1>10 DEF Update!vars
  <1> QED
    BY <1>1, <1>2, <1>3, <1>4, <1>5, <1>6, <1>7, <1>8, <1>9, <1>10
       DEF Update!Next, Update!Update

LEMMA UpdateAlways ==
    Update!ConstantsAssumption => (Update!Spec => [](UpdateTyped /\ UpdateSafe))
  <1> SUFFICES ASSUME Update!ConstantsAssumption
               PROVE  Update!Spec => [](UpdateTyped /\ UpdateSafe)
    OBVIOUS
  <1>1. Update!Init => UpdateTyped /\ UpdateSafe
    BY FiveInodes DEF Update!Init, UpdateTyped, UpdateSafe, Update!TypeOK, Update!Versions,
       Update!Part, File, Step, Update!CurrentBinaryWorks, Update!Installed,
       Update!ConstantsAssumption
  <1>2. UpdateTyped /\ UpdateSafe /\ [Update!Next]_(Update!vars) => (UpdateTyped /\ UpdateSafe)'
    BY UpdateNext
  <1> QED
    BY <1>1, <1>2, PTL DEF Update!Spec

\* The files and the process keep to their types (updater.go).
THEOREM UpdateTypeCorrect == Update!Spec => []Update!TypeOK
  <1>1. UpdateTyped /\ UpdateSafe => Update!TypeOK
    BY DEF UpdateTyped
  <1> QED
    BY <1>1, UpdateAlways, UpdateAssumption, PTL

\* When one process updates, the binary that is installed can be started
\* (updater.go), whichever step fails or is the last, and whatever versions are
\* published meanwhile. Two that update at once share a file: for them it fails.
THEOREM BinaryCorrect == Update!Spec => []CurrentBinaryWorks
  <1>1. UpdateTyped /\ UpdateSafe => CurrentBinaryWorks
    BY DEF UpdateSafe, CurrentBinaryWorks
  <1> QED
    BY <1>1, UpdateAlways, UpdateAssumption, PTL

-----------------------------------------------------------------------------
(***************************************************************************)
(* The guided tour.  A diagnosis is computed beside Update; as long as no  *)
(* step is left while one is under way, what can be fixed was found for    *)
(* the profile that is selected.                                           *)
(***************************************************************************)

Finding(r) ==
    /\ {"for", "fix", "status"} \subseteq DOMAIN r
    /\ r.for \in Tour!Owned /\ r.fix \in Tour!Settings \cup {""}

MenuTyped ==
    /\ menu \in [idx : Nat \ {0}, list : Seq(Tour!Names), searching : BOOLEAN, open : BOOLEAN]
    /\ menu.idx = 1 \/ menu.idx \in 1..Len(menu.list)
    /\ Len(menu.list) <= Len(Scenarios)

TourTyped ==
    /\ MenuTyped
    /\ scenario \in Tour!Names \cup {None} /\ picking \in {0} \cup DOMAIN Profiles
    /\ menu.open => scenario \in Tour!Names
    /\ picking # 0 => menu.open
    /\ menu.open /\ picking = 0 => /\ chapter \in DOMAIN Chapters[scenario]
                                   /\ tourStep \in DOMAIN Chapters[scenario][chapter]
    /\ selected \in Tour!Owned \cup {None}
    /\ tourResult # None => Finding(tourResult)
    /\ prompt \in {"", "confirm", "value"} /\ raced \in BOOLEAN
    /\ settings \in [Tour!Owned -> SUBSET Tour!Settings]
    /\ refresh # None => /\ refresh.phase \in {"called", "probing"}
                         /\ refresh.for \in Tour!Owned \cup {None}

\* What was found, what is being found, and whom it is for.
Selection ==
    ~raced =>
        /\ ~menu.open \/ picking # 0 => /\ selected = None /\ tourResult = None
                                        /\ refresh = None /\ prompt = ""
        /\ menu.open /\ picking = 0 /\ scenario = "troubleshooter" => selected # None
        /\ tourResult # None /\ tourResult.fix \in Tour!Settings => tourResult.for = selected
        /\ refresh # None /\ refresh.phase = "probing" => /\ refresh.for = selected
                                                          /\ refresh.kind = Tour!Here

LEMMA TourConstants ==
    ASSUME Tour!ConstantsAssumption
    PROVE  /\ Scenarios \in Seq(STRING) /\ Scenarios # << >>
           /\ Profiles \in Seq(STRING) /\ ActiveProfile \in Tour!Owned
           /\ Channels \subseteq STRING \ {""} /\ None \notin STRING
           /\ \A s \in Tour!Names :
                 Chapters[s] \in Seq(Seq(STRING) \ {<< >>}) /\ Chapters[s] # << >>
  BY Zenon DEF Tour!ConstantsAssumption

LEMMA TourNames ==
    ASSUME Tour!ConstantsAssumption
    PROVE  /\ Tour!Names \subseteq STRING /\ Tour!Owned \subseteq STRING
           /\ None \notin Tour!Names /\ None \notin Tour!Owned
           /\ "" \notin Tour!Settings
           /\ Scenarios \in Seq(Tour!Names) /\ Len(Scenarios) \in Nat \ {0}
           /\ DOMAIN Scenarios = 1..Len(Scenarios)
           /\ DOMAIN Profiles = 1..Len(Profiles) /\ Len(Profiles) \in Nat \ {0}
           /\ ActiveProfile \in Tour!Owned
  <1>1. /\ Scenarios \in Seq(STRING) /\ Scenarios # << >>
        /\ Profiles \in Seq(STRING) /\ ActiveProfile \in Tour!Owned
        /\ Channels \subseteq STRING \ {""} /\ None \notin STRING
    BY TourConstants, Zenon
  <1>2. /\ DOMAIN Scenarios = 1..Len(Scenarios) /\ Len(Scenarios) \in Nat \ {0}
        /\ \A i \in DOMAIN Scenarios : Scenarios[i] \in STRING
    <2>1. DOMAIN Scenarios = 1..Len(Scenarios) /\ Len(Scenarios) \in Nat \ {0}
      BY <1>1, LenProperties, EmptySeq, Zenon
    <2>2. \A i \in 1..Len(Scenarios) : Scenarios[i] \in STRING
      BY <1>1, ElementOfSeq, Zenon
    <2> QED
      BY <2>1, <2>2, Zenon
  <1>3. /\ DOMAIN Profiles = 1..Len(Profiles) /\ Len(Profiles) \in Nat
        /\ \A i \in DOMAIN Profiles : Profiles[i] \in STRING
    <2>1. DOMAIN Profiles = 1..Len(Profiles) /\ Len(Profiles) \in Nat
      BY <1>1, LenProperties, Zenon
    <2>2. \A i \in 1..Len(Profiles) : Profiles[i] \in STRING
      BY <1>1, ElementOfSeq, Zenon
    <2> QED
      BY <2>1, <2>2, Zenon
  <1>4. Tour!Names \subseteq STRING /\ Tour!Owned \subseteq STRING
    BY <1>2, <1>3 DEF Tour!Names, Tour!Owned
  <1>5. Len(Profiles) # 0
    <2>1. PICK i \in DOMAIN Profiles : ActiveProfile = Profiles[i]
      BY <1>1 DEF Tour!Owned
    <2> QED
      BY <1>3, <2>1
  <1>6. Scenarios \in Seq(Tour!Names)
    <2>1. \A i \in 1..Len(Scenarios) : Scenarios[i] \in Tour!Names
      BY <1>2 DEF Tour!Names
    <2>2. Scenarios \in [1..Len(Scenarios) -> Tour!Names]
      BY <1>1, <2>1, LenProperties, Zenon
    <2> QED
      BY <1>2, <2>2, SeqDef
  <1>7. "" \notin Tour!Settings
    BY <1>1 DEF Tour!Settings, Tour!Repairs
  <1> QED
    BY <1>1, <1>2, <1>3, <1>4, <1>5, <1>6, <1>7

\* Every scenario has a first step, and so has every chapter.
LEMMA TourPlaces ==
    ASSUME Tour!ConstantsAssumption, NEW s \in Tour!Names
    PROVE  /\ 1 \in DOMAIN Chapters[s]
           /\ DOMAIN Chapters[s] = 1..Len(Chapters[s]) /\ Len(Chapters[s]) \in Nat
           /\ \A c \in DOMAIN Chapters[s] :
                 /\ DOMAIN Chapters[s][c] = 1..Len(Chapters[s][c])
                 /\ Len(Chapters[s][c]) \in Nat /\ 1 \in DOMAIN Chapters[s][c]
  <1> DEFINE chapters == Chapters[s]
  <1>1. chapters \in Seq(Seq(STRING) \ {<< >>}) /\ chapters # << >>
    BY TourConstants, Zenon
  <1> HIDE DEF chapters
  <1>2. DOMAIN chapters = 1..Len(chapters) /\ Len(chapters) \in Nat \ {0}
    BY <1>1
  <1>3. ASSUME NEW c \in DOMAIN chapters
        PROVE  /\ DOMAIN chapters[c] = 1..Len(chapters[c])
               /\ Len(chapters[c]) \in Nat /\ 1 \in DOMAIN chapters[c]
    <2> DEFINE h == chapters[c]
    <2>1. h \in Seq(STRING) /\ h # << >>
      BY <1>1, <1>2
    <2> HIDE DEF h
    <2>2. DOMAIN h = 1..Len(h) /\ Len(h) \in Nat /\ 1 \in DOMAIN h
      BY <2>1
    <2> QED
      BY <2>2 DEF h
  <1> QED
    BY <1>2, <1>3 DEF chapters

LEMMA Diagnosed ==
    ASSUME Tour!ConstantsAssumption, NEW k, NEW p \in Tour!Owned \cup {None},
           NEW r \in Tour!Diagnose(k, p)
    PROVE  /\ Finding(r)
           /\ r.for = (IF p = None THEN ActiveProfile ELSE p)
           /\ r.fix # "" => k \in Tour!Fixable
  <1> DEFINE q == IF p = None THEN ActiveProfile ELSE p
  <1>1. q \in Tour!Owned
    BY TourNames
  <1>2. r \in CASE k \in Channels -> {Tour!DiagnoseChannel(q, k)}
                [] k = "data" -> Tour!DiagnoseData(q)
                [] k = "notify" -> Tour!DiagnoseNotifications(q)
                [] k \in Tour!Repairs -> Tour!DiagnoseSetting(q, k)
                [] OTHER -> {Tour!Result(q, k, s, "") : s \in Tour!Healthy}
    BY Zenon DEF Tour!Diagnose
  <1> HIDE DEF q
  <1>3. \E s, f : /\ r = Tour!Result(q, k, s, f) /\ f \in Tour!Settings \cup {""}
                  /\ f # "" => k \in Tour!Fixable
    <2> USE DEF Tour!Settings, Tour!Fixable, Tour!Repairs
    <2>1. CASE k \in Channels /\ r = Tour!DiagnoseChannel(q, k)
      BY <2>1, Zenon DEF Tour!DiagnoseChannel
    <2>2. CASE k = "data" /\ r \in Tour!DiagnoseData(q)
      <3>1. \E s, f : r = Tour!Result(q, k, s, f) /\ f \in {"prometheus", ""}
        BY <2>2, Zenon DEF Tour!DiagnoseData
      <3> QED
        BY <2>2, <3>1
    <2>3. CASE k = "notify" /\ r \in Tour!DiagnoseNotifications(q)
      <3>1. \E s, f : r = Tour!Result(q, k, s, f) /\ f \in {"notifications", ""} \cup Channels
        BY <2>3, Zenon DEF Tour!DiagnoseNotifications
      <3> QED
        BY <2>3, <3>1
    <2>4. CASE k \in Tour!Repairs /\ r \in Tour!DiagnoseSetting(q, k)
      <3>1. \E s, f : r = Tour!Result(q, k, s, f) /\ f \in {k, ""}
        BY <2>4, Zenon DEF Tour!DiagnoseSetting
      <3> QED
        BY <2>4, <3>1
    <2>5. CASE \E s \in Tour!Healthy : r = Tour!Result(q, k, s, "")
      BY <2>5
    <2> HIDE DEF Tour!Settings, Tour!Fixable, Tour!Repairs
    <2>6. CASE k \notin Channels /\ k # "data" /\ k # "notify" /\ k \notin Tour!Repairs
      BY <1>2, <2>5, <2>6
    <2>7. CASE k \in Channels \/ k = "data" \/ k = "notify" \/ k \in Tour!Repairs
      BY <1>2, <2>1, <2>2, <2>3, <2>4, <2>7
    <2> QED
      BY <2>6, <2>7
  <1>4. PICK s, f : /\ r = Tour!Result(q, k, s, f) /\ f \in Tour!Settings \cup {""}
                    /\ f # "" => k \in Tour!Fixable
    BY <1>3
  <1>5. r.for = q /\ r.fix = f /\ DOMAIN r = {"for", "kind", "status", "fix"}
    <2>1. r = Tour!Result(q, k, s, f)
      BY <1>4, Zenon
    <2> QED
      BY <2>1 DEF Tour!Result
  <1> QED
    BY <1>1, <1>4, <1>5 DEF Finding, q

LEMMA FoundFor ==
    ASSUME Tour!ConstantsAssumption
    PROVE  \A k : \A p \in Tour!Owned : \A r \in Tour!Diagnose(k, p) :
              p # None => Finding(r) /\ r.for = p
  <1> TAKE k
  <1> TAKE p \in Tour!Owned
  <1> TAKE r \in Tour!Diagnose(k, p)
  <1>1. Finding(r) /\ r.for = (IF p = None THEN ActiveProfile ELSE p)
    BY Diagnosed
  <1> QED
    BY <1>1, Zenon

LEMMA Executed ==
    ASSUME Tour!ConstantsAssumption, TourTyped, NEW k, NEW p \in Tour!Owned \cup {None},
           Tour!Execute(k, p, tourResult)
    PROVE  /\ tourResult' # None => Finding(tourResult')
           /\ prompt' \in {"", "confirm", "value"}
           /\ tourResult' # None /\ tourResult'.fix \in Tour!Settings =>
                 \/ tourResult' = tourResult
                 \/ tourResult'.for = (IF p = None THEN ActiveProfile ELSE p) /\ k \in Tour!Fixable
  <1>1. prompt' \in {"", "confirm", "value"}
    BY DEF Tour!Execute, TourTyped
  <1>2. CASE tourResult' = tourResult
    BY <1>1, <1>2 DEF TourTyped
  <1>3. CASE tourResult' = None
    BY <1>1, <1>3
  <1>4. CASE tourResult' \in Tour!Diagnose(k, p)
    BY <1>1, <1>4, Diagnosed, TourNames
  <1> QED
    BY <1>2, <1>3, <1>4 DEF Tour!Execute

LEMMA MenuNext ==
    ASSUME Tour!ConstantsAssumption, MenuTyped, [Tour!Next]_(Tour!vars)
    PROVE  MenuTyped'
  <1> USE DEF MenuTyped
  <1>1. /\ menu.list \in Seq(Tour!Names) /\ Len(menu.list) \in Nat
        /\ Scenarios \in Seq(Tour!Names) /\ Len(Scenarios) \in Nat \ {0}
    BY TourNames, LenProperties
  <1>2. CASE UNCHANGED menu
    BY <1>2
  <1>3. ASSUME NEW b \in BOOLEAN, menu' = [menu EXCEPT !.open = b]
        PROVE  MenuTyped'
    BY <1>1, <1>3
  <1>4. ASSUME NEW b \in BOOLEAN, menu' = [menu EXCEPT !.searching = b]
        PROVE  MenuTyped'
    BY <1>1, <1>4
  <1>5. CASE Tour!Search
    <2>1. ASSUME NEW at \in Tour!Finds,
                 menu' = [menu EXCEPT !.searching = FALSE, !.idx = 1,
                             !.list = [i \in DOMAIN at |-> Scenarios[at[i]]]]
          PROVE  MenuTyped'
      <3> DEFINE l == [i \in DOMAIN at |-> Scenarios[at[i]]]
      <3>1. PICK n \in 0..Len(Scenarios) : at \in [1..n -> DOMAIN Scenarios]
        BY DEF Tour!Finds
      <3>2. l \in [1..n -> Tour!Names] /\ DOMAIN l = 1..n
        BY <3>1 DEF Tour!Names
      <3> HIDE DEF l
      <3>3. n \in Nat /\ n <= Len(Scenarios)
        BY <1>1
      <3>4. l \in Seq(Tour!Names)
        BY <3>2, <3>3, SeqDef
      <3>5. Len(l) = n
        BY <3>2, <3>3, <3>4, LenProperties
      <3>6. menu' = [menu EXCEPT !.searching = FALSE, !.idx = 1, !.list = l]
        BY <2>1 DEF l
      <3>7. menu'.list = l /\ menu'.idx = 1
        BY <3>6
      <3>8. menu' \in [idx : Nat \ {0}, list : Seq(Tour!Names), searching : BOOLEAN,
                       open : BOOLEAN]
        <4>1. menu' = [idx |-> 1, list |-> l, searching |-> FALSE, open |-> menu.open]
          BY <3>6
        <4> QED
          BY <3>4, <4>1
      <3> QED
        BY <3>3, <3>5, <3>7, <3>8
    <2>2. CASE menu' = [menu EXCEPT !.searching = FALSE, !.list = Scenarios]
      <3>1. menu'.list = Scenarios /\ menu'.idx = menu.idx
        BY <2>2
      <3>2. menu' \in [idx : Nat \ {0}, list : Seq(Tour!Names), searching : BOOLEAN,
                       open : BOOLEAN]
        BY <1>1, <2>2
      <3>3. menu.idx = 1 \/ menu.idx <= Len(Scenarios)
        BY <1>1
      <3> QED
        BY <1>1, <3>1, <3>2, <3>3
    <2> QED
      BY <1>4, <1>5, <2>1, <2>2 DEF Tour!Search
  <1>6. CASE Tour!Arrow
    <2>1. PICK i \in {menu.idx - 1, menu.idx + 1} \cap DOMAIN menu.list :
             menu' = [menu EXCEPT !.idx = i]
      BY <1>6 DEF Tour!Arrow
    <2>2. i \in 1..Len(menu.list)
      BY <1>1, LenProperties
    <2> QED
      BY <1>1, <2>1, <2>2
  <1>7. CASE Tour!ClearSearch
    <2>1. menu' = [menu EXCEPT !.list = Scenarios, !.idx = 1]
      BY <1>7 DEF Tour!ClearSearch
    <2>2. menu'.list = Scenarios /\ menu'.idx = 1
      BY <2>1
    <2>3. menu' \in [idx : Nat \ {0}, list : Seq(Tour!Names), searching : BOOLEAN,
                     open : BOOLEAN]
      <3>1. menu' = [idx |-> 1, list |-> Scenarios, searching |-> menu.searching,
                     open |-> menu.open]
        BY <2>1
      <3> QED
        BY <1>1, <3>1
    <2> QED
      BY <1>1, <2>2, <2>3
  <1>8. CASE Tour!StartSearch
    BY <1>4, <1>8 DEF Tour!StartSearch
  <1>9. CASE Tour!OpenScenario
    BY <1>3, <1>9 DEF Tour!OpenScenario
  <1>10. CASE Tour!DropProfile \/ Tour!Leave \/ Tour!NextStep
    BY <1>2, <1>3, <1>10 DEF Tour!DropProfile, Tour!Leave, Tour!NextStep, Tour!Exit
  <1>11. CASE \/ Tour!MoveProfile \/ Tour!PickProfile \/ Tour!PressFix \/ Tour!Cancel
              \/ Tour!Confirm \/ Tour!EnterValue \/ Tour!EnterNothing
              \/ Tour!TestReturns \/ Tour!RefreshStarts \/ Tour!RefreshEnds
              \/ UNCHANGED Tour!vars
    <2>1. UNCHANGED menu
      BY <1>11, Zenon DEF Tour!MoveProfile, Tour!PickProfile, Tour!PressFix, Tour!Cancel,
         Tour!Confirm, Tour!EnterValue, Tour!EnterNothing, Tour!TestReturns,
         Tour!RefreshStarts, Tour!RefreshEnds, Tour!vars
    <2> QED
      BY <1>2, <2>1
  <1> HIDE DEF MenuTyped
  <1> QED
    BY <1>5, <1>6, <1>7, <1>8, <1>9, <1>10, <1>11 DEF Tour!Next

LEMMA TourNext ==
    ASSUME Tour!ConstantsAssumption, TourTyped, Selection, [Tour!Next]_(Tour!vars)
    PROVE  TourTyped' /\ Selection'
  <1> USE DEF Tour!place, Tour!stores, Tour!budget, Tour!Here, Tour!Kind, Tour!Leaving
  <1>1. MenuTyped'
    BY MenuNext DEF TourTyped
  <1>2. /\ menu \in [idx : Nat \ {0}, list : Seq(Tour!Names), searching : BOOLEAN, open : BOOLEAN]
        /\ menu.open \in BOOLEAN
    BY DEF TourTyped, MenuTyped
  <1>21. 1 \in DOMAIN Profiles /\ 0 \notin DOMAIN Profiles /\ None \notin Tour!Owned
    <2>1. DOMAIN Profiles = 1..Len(Profiles) /\ Len(Profiles) \in Nat \ {0}
      BY TourNames, Zenon
    <2>2. None \notin Tour!Owned
      BY TourNames, Zenon
    <2> QED
      BY <2>1, <2>2
  \* A key that moves no one, and what a prompt does.
  <1>3. ASSUME UNCHANGED <<scenario, chapter, tourStep, picking, selected, tourResult, settings,
                           refresh, raced>>,
               menu'.open = menu.open, prompt' \in {"", "confirm", "value"},
               prompt' = "" \/ prompt' = prompt \/ (~raced => menu.open /\ picking = 0)
        PROVE  TourTyped' /\ Selection'
    BY <1>1, <1>3 DEF TourTyped, Selection
  <1>4. CASE Tour!StartSearch \/ Tour!Search \/ Tour!Arrow \/ Tour!ClearSearch
    <2>1. menu'.open = menu.open
      BY <1>2, <1>4 DEF Tour!StartSearch, Tour!Search, Tour!Arrow, Tour!ClearSearch
    <2>2. UNCHANGED <<scenario, chapter, tourStep, picking, selected, tourResult, settings,
                      refresh, raced, prompt>>
      BY <1>4 DEF Tour!StartSearch, Tour!Search, Tour!Arrow, Tour!ClearSearch
    <2> QED
      BY <1>3, <2>1, <2>2 DEF TourTyped
  <1>5. CASE Tour!OpenScenario
    <2>1. menu.list # << >> /\ scenario' = menu.list[menu.idx] /\ menu'.open = TRUE
          /\ UNCHANGED <<selected, settings, refresh>> /\ ~menu.open
          /\ prompt = "" /\ picking = 0
          /\ raced' = (raced \/ refresh # None)
      BY <1>2, <1>5 DEF Tour!OpenScenario, Tour!Free
    <2>2. scenario' \in Tour!Names
      <3>1. menu.list \in Seq(Tour!Names) /\ Len(menu.list) \in Nat \ {0}
        BY <1>2, <2>1, EmptySeq
      <3>2. menu.idx = 1 \/ menu.idx \in 1..Len(menu.list)
        BY Zenon DEF TourTyped, MenuTyped
      <3>3. menu.idx \in 1..Len(menu.list)
        BY <3>1, <3>2
      <3> QED
        BY <2>1, <3>1, <3>3, ElementOfSeq
    <2>3. raced' \in BOOLEAN
      BY <2>1, Zenon
    <2>4. ~raced' => ~raced /\ refresh = None /\ selected = None /\ tourResult = None
      BY <2>1 DEF Selection
    <2>5. CASE scenario' = "troubleshooter"
      <3>1. picking' = 1 /\ UNCHANGED <<chapter, tourStep, tourResult, prompt>>
        BY <1>5, <2>5 DEF Tour!OpenScenario
      <3> QED
        BY <1>1, <1>21, <2>1, <2>2, <2>3, <2>4, <2>5, <3>1 DEF TourTyped, Selection
    <2>6. CASE scenario' # "troubleshooter"
      <3>1. chapter' = 1 /\ tourStep' = 1 /\ picking' = picking
            /\ Tour!Execute(Chapters[scenario'][1][1], selected, tourResult)
        BY <1>5, <2>6 DEF Tour!OpenScenario
      <3>2. 1 \in DOMAIN Chapters[scenario'] /\ 1 \in DOMAIN Chapters[scenario'][1]
        BY <2>2, TourPlaces
      <3>3. Chapters[scenario'][1][1] \notin Tour!Fixable
        BY <2>2, <2>6, <3>2 DEF Tour!ConstantsAssumption, Tour!Fixable
      <3>4. /\ tourResult' # None => Finding(tourResult')
            /\ prompt' \in {"", "confirm", "value"}
            /\ tourResult' # None /\ tourResult'.fix \in Tour!Settings => tourResult' = tourResult
        BY <3>1, <3>3, Executed DEF TourTyped
      <3> QED
        BY <1>1, <2>1, <2>2, <2>3, <2>4, <2>6, <3>1, <3>2, <3>4 DEF TourTyped, Selection
    <2> QED
      BY <2>5, <2>6
  <1>6. CASE Tour!MoveProfile
    <2>1. picking # 0 /\ picking' \in DOMAIN Profiles
          /\ UNCHANGED <<menu, scenario, chapter, tourStep, selected, tourResult, prompt,
                         settings, refresh, raced>>
      BY <1>6 DEF Tour!MoveProfile, Tour!Picking
    <2>2. picking' \in DOMAIN Profiles /\ picking' # 0
      BY <1>21, <2>1
    <2> QED
      BY <1>1, <2>1, <2>2 DEF TourTyped, Selection
  <1>7. CASE Tour!PickProfile
    <2> DEFINE p == Profiles[picking]
               k == Chapters[scenario][1][1]
    <2>1. /\ picking # 0 /\ picking' = 0 /\ chapter' = 1 /\ tourStep' = 1
          /\ selected' = p /\ tourResult' \in Tour!Diagnose(k, p)
          /\ prompt' \in {"value", prompt}
          /\ UNCHANGED <<menu, scenario, settings, refresh, raced>>
      BY <1>7 DEF Tour!PickProfile, Tour!Picking
    <2>2. p \in Tour!Owned /\ p # None
      <3>1. picking \in DOMAIN Profiles
        BY <2>1 DEF TourTyped
      <3>2. p \in Tour!Owned
        BY <3>1, Zenon DEF Tour!Owned
      <3> QED
        BY <1>21, <3>2, Zenon
    <2> HIDE DEF p, k
    <2>3. Finding(tourResult') /\ tourResult'.for = p
      BY <2>1, <2>2, FoundFor
    <2>4. menu.open /\ scenario \in Tour!Names
      BY <2>1 DEF TourTyped
    <2>5. 1 \in DOMAIN Chapters[scenario] /\ 1 \in DOMAIN Chapters[scenario][1]
      BY <2>4, TourPlaces
    <2> QED
      <3>1. TourTyped'
        BY <1>1, <1>21, <2>1, <2>2, <2>3, <2>4, <2>5 DEF TourTyped
      <3>2. ~raced => refresh = None
        BY <2>1 DEF Selection
      <3>3. Selection'
        BY <2>1, <2>2, <2>3, <2>4, <3>2 DEF Selection
      <3> QED
        BY <3>1, <3>3
  <1>8. CASE Tour!DropProfile
    <2>1. picking # 0 /\ picking' = 0 /\ menu'.open = FALSE
          /\ UNCHANGED <<scenario, chapter, tourStep, selected, tourResult, prompt, settings,
                         refresh, raced>>
      BY <1>2, <1>8 DEF Tour!DropProfile, Tour!Picking
    <2> QED
      BY <1>1, <1>21, <2>1 DEF TourTyped, Selection
  <1>9. CASE Tour!Exit /\ Tour!Free /\ menu.open
    <2>1. /\ picking = 0 /\ menu'.open = FALSE /\ selected' = None /\ prompt' = ""
          /\ tourResult' = None /\ raced' = (raced \/ refresh # None)
          /\ UNCHANGED <<scenario, chapter, tourStep, picking, settings, refresh>>
      BY <1>2, <1>9 DEF Tour!Exit, Tour!Free
    <2>2. raced' \in BOOLEAN
      BY <2>1, Zenon
    <2> QED
      BY <1>1, <2>1, <2>2 DEF TourTyped, Selection
  <1>10. CASE Tour!NextStep /\ ~Tour!Exit
    <2> DEFINE more == tourStep < Len(Chapters[scenario][chapter])
               c == IF more THEN chapter ELSE chapter + 1
               n == IF more THEN tourStep + 1 ELSE 1
    <2>1. /\ menu.open /\ picking = 0 /\ prompt = "" /\ c \in DOMAIN Chapters[scenario]
          /\ chapter' = c /\ tourStep' = n
          /\ Tour!Execute(Chapters[scenario][c][n], selected, tourResult)
          /\ raced' = (raced \/ refresh # None)
          /\ UNCHANGED <<menu, scenario, picking, selected, settings, refresh>>
      BY <1>10 DEF Tour!NextStep, Tour!Free
    <2>2. scenario \in Tour!Names /\ chapter \in DOMAIN Chapters[scenario]
          /\ tourStep \in DOMAIN Chapters[scenario][chapter]
      BY <2>1 DEF TourTyped
    <2>3. n \in DOMAIN Chapters[scenario][c]
      <3>1. CASE more
        <4>1. DOMAIN Chapters[scenario][chapter] = 1..Len(Chapters[scenario][chapter])
              /\ Len(Chapters[scenario][chapter]) \in Nat
          BY <2>2, TourPlaces, Zenon
        <4>2. tourStep + 1 \in 1..Len(Chapters[scenario][chapter])
          BY <2>2, <3>1, <4>1
        <4> QED
          BY <3>1, <4>1, <4>2
      <3>2. CASE ~more
        BY <2>1, <2>2, <3>2, TourPlaces, Zenon
      <3> QED
        BY <3>1, <3>2, Zenon
    <2> HIDE DEF c, n
    <2>4. raced' \in BOOLEAN
      BY <2>1, Zenon
    <2>5. scenario # "troubleshooter" => Chapters[scenario][c][n] \notin Tour!Fixable
      BY <2>1, <2>2, <2>3 DEF Tour!ConstantsAssumption, Tour!Fixable
    <2>6. /\ tourResult' # None => Finding(tourResult')
          /\ prompt' \in {"", "confirm", "value"}
          /\ tourResult' # None /\ tourResult'.fix \in Tour!Settings =>
                \/ tourResult' = tourResult
                \/ /\ tourResult'.for = (IF selected = None THEN ActiveProfile ELSE selected)
                   /\ Chapters[scenario][c][n] \in Tour!Fixable
      BY <2>1, Executed DEF TourTyped
    <2> QED
      BY <1>1, <2>1, <2>2, <2>3, <2>4, <2>5, <2>6 DEF TourTyped, Selection
  <1>11. CASE Tour!PressFix \/ Tour!Cancel
    <2>1. /\ UNCHANGED <<menu, scenario, chapter, tourStep, picking, selected, tourResult,
                         settings, refresh, raced>>
          /\ prompt' \in {"", "confirm", "value"}
          /\ prompt' = "" \/ tourResult # None
      BY <1>11 DEF Tour!PressFix, Tour!Cancel
    <2>2. tourResult # None => (~raced => menu.open /\ picking = 0)
      BY DEF Selection
    <2> QED
      BY <1>3, <2>1, <2>2
  \* A fix, and the diagnosis after it.
  <1>12. ASSUME prompt # "" \/ tourResult # None, prompt' \in {"", prompt},
                UNCHANGED <<menu, scenario, chapter, tourStep, picking, selected, raced>>,
                settings' \in [Tour!Owned -> SUBSET Tour!Settings],
                tourResult' # None => /\ Finding(tourResult')
                                      /\ tourResult # None /\ tourResult'.for = tourResult.for
                                      /\ \/ tourResult'.fix \notin Tour!Settings
                                         \/ tourResult'.fix = tourResult.fix,
                UNCHANGED refresh \/ Tour!StartRefresh
         PROVE  TourTyped' /\ Selection'
    <2>1. /\ refresh' # None => /\ refresh'.phase \in {"called", "probing"}
                                /\ refresh'.for \in Tour!Owned \cup {None}
          /\ refresh' = refresh \/ refresh'.phase = "called"
      <3>1. CASE UNCHANGED refresh
        BY <3>1 DEF TourTyped
      <3>2. CASE refresh' = [phase |-> "called", kind |-> None, for |-> None]
        BY <3>2
      <3> QED
        BY <1>12, <3>1, <3>2, Zenon DEF Tour!StartRefresh
    <2>2. ~raced => menu.open /\ picking = 0
      BY <1>12 DEF Selection, TourTyped
    <2> QED
      <3>1. TourTyped'
        BY <1>1, <1>12, <2>1 DEF TourTyped
      <3>2. Selection'
        BY <1>12, <2>1, <2>2 DEF Selection
      <3> QED
        BY <3>1, <3>2
  <1>13. ASSUME tourResult # None, tourResult.fix \in Tour!Settings, Tour!Configure(tourResult)
         PROVE  settings' \in [Tour!Owned -> SUBSET Tour!Settings]
    <2>1. /\ settings \in [Tour!Owned -> SUBSET Tour!Settings]
          /\ tourResult.for \in Tour!Owned
      BY <1>13, Zenon DEF TourTyped, Finding
    <2> QED
      BY <1>13, <2>1 DEF Tour!Configure
  <1>14. CASE Tour!Confirm
    <2>1. /\ prompt = "confirm" /\ prompt' = "" /\ Tour!StartRefresh
          /\ UNCHANGED <<menu, scenario, chapter, tourStep, picking, selected, raced>>
      BY <1>14 DEF Tour!Confirm, Tour!Confirming
    <2>2. CASE tourResult # None /\ tourResult.fix \in Tour!Settings \ Channels
      <3>1. Tour!Configure(tourResult)
            /\ tourResult' = [tourResult EXCEPT !.status = "PASSED", !.fix = ""]
        BY <1>14, <2>2 DEF Tour!Confirm
      <3>2. Finding(tourResult)
        BY <2>2 DEF TourTyped
      <3>3. tourResult'.for = tourResult.for /\ tourResult'.fix = ""
            /\ DOMAIN tourResult' = DOMAIN tourResult
        BY <3>1, <3>2 DEF Finding
      <3> QED
        BY <1>12, <1>13, <2>1, <2>2, <3>1, <3>2, <3>3, TourNames DEF Finding
    <2>3. CASE UNCHANGED <<settings, tourResult>>
      BY <1>12, <2>1, <2>3 DEF TourTyped
    <2> QED
      BY <1>14, <2>2, <2>3 DEF Tour!Confirm
  <1>15. CASE Tour!EnterValue
    <2>1. /\ prompt = "value" /\ prompt' = ""
          /\ UNCHANGED <<menu, scenario, chapter, tourStep, picking, selected, raced>>
      BY <1>15 DEF Tour!EnterValue, Tour!Typing
    <2>2. CASE tourResult # None /\ tourResult.fix \in Channels
      <3>1. Tour!Configure(tourResult) /\ UNCHANGED refresh
            /\ tourResult' = [tourResult EXCEPT !.status = "TESTING"]
        BY <1>15, <2>2 DEF Tour!EnterValue
      <3>2. Finding(tourResult) /\ tourResult.fix \in Tour!Settings
        BY <2>2 DEF TourTyped, Tour!Settings
      <3>3. tourResult'.for = tourResult.for /\ tourResult'.fix = tourResult.fix
            /\ DOMAIN tourResult' = DOMAIN tourResult
        BY <3>1, <3>2 DEF Finding
      <3> QED
        BY <1>12, <1>13, <2>1, <2>2, <3>1, <3>2, <3>3 DEF Finding
    <2>3. CASE Tour!StartRefresh /\ UNCHANGED <<settings, tourResult>>
      BY <1>12, <2>1, <2>3 DEF TourTyped
    <2> QED
      BY <1>15, <2>2, <2>3 DEF Tour!EnterValue
  <1>16. CASE Tour!EnterNothing
    <2>1. /\ prompt = "value" /\ prompt' = "" /\ Tour!StartRefresh
          /\ UNCHANGED <<menu, scenario, chapter, tourStep, picking, selected, tourResult,
                         settings, raced>>
      BY <1>16 DEF Tour!EnterNothing, Tour!Typing
    <2> QED
      BY <1>12, <2>1 DEF TourTyped
  <1>17. CASE Tour!TestReturns
    <2>1. UNCHANGED <<menu, scenario, chapter, tourStep, picking, selected, prompt, settings, raced>>
      BY <1>17 DEF Tour!TestReturns
    <2>2. CASE UNCHANGED <<tourResult, refresh>>
      BY <1>1, <2>1, <2>2, ZenonT(30) DEF TourTyped, Selection
    <2>3. CASE tourResult # None /\ Tour!StartRefresh
               /\ tourResult' = [tourResult EXCEPT !.status = "FAILED"]
      <3>1. Finding(tourResult)
        BY <2>3 DEF TourTyped
      <3>2. tourResult'.for = tourResult.for /\ tourResult'.fix = tourResult.fix
            /\ DOMAIN tourResult' = DOMAIN tourResult
        BY <2>3, <3>1 DEF Finding
      <3> QED
        BY <1>12, <2>1, <2>3, <3>1, <3>2 DEF Finding, TourTyped
    <2> QED
      BY <1>17, <2>2, <2>3 DEF Tour!TestReturns
  <1>18. CASE Tour!RefreshStarts
    <2>1. /\ refresh # None
          /\ UNCHANGED <<menu, scenario, chapter, tourStep, picking, selected, prompt, settings,
                         raced>>
      BY <1>18 DEF Tour!RefreshStarts
    <2>2. \/ /\ refresh' = [phase |-> "probing", kind |-> Tour!Here, for |-> selected]
             /\ tourResult' = None
          \/ refresh' = None /\ UNCHANGED tourResult
      BY <1>18, Zenon DEF Tour!RefreshStarts
    <2>3. refresh' # None => /\ refresh'.phase = "probing" /\ refresh'.for = selected
                             /\ refresh'.kind = Tour!Here /\ tourResult' = None
      BY <2>2
    <2>4. tourResult' \in {None, tourResult}
      BY <2>2
    <2> QED
      BY <1>1, <2>1, <2>3, <2>4 DEF TourTyped, Selection
  <1>19. CASE Tour!RefreshEnds
    <2>1. /\ refresh # None /\ refresh.phase = "probing" /\ refresh' = None
          /\ Tour!Execute(refresh.kind, refresh.for, tourResult)
          /\ UNCHANGED <<menu, scenario, chapter, tourStep, picking, selected, settings, raced>>
      BY <1>19 DEF Tour!RefreshEnds
    <2>2. /\ tourResult' # None => Finding(tourResult')
          /\ prompt' \in {"", "confirm", "value"}
          /\ tourResult' # None /\ tourResult'.fix \in Tour!Settings =>
                \/ tourResult' = tourResult
                \/ /\ tourResult'.for = (IF refresh.for = None THEN ActiveProfile ELSE refresh.for)
                   /\ refresh.kind \in Tour!Fixable
      BY <2>1, Executed DEF TourTyped
    <2>3. ASSUME ~raced
          PROVE  /\ menu.open /\ picking = 0
                 /\ refresh.for = selected /\ refresh.kind = Tour!Here
                 /\ refresh.kind \in Tour!Fixable => selected # None
      <3>1. /\ menu.open /\ picking = 0 /\ refresh.for = selected /\ refresh.kind = Tour!Here
        BY <2>1, <2>3 DEF Selection, TourTyped
      <3>2. scenario \in Tour!Names /\ chapter \in DOMAIN Chapters[scenario]
            /\ tourStep \in DOMAIN Chapters[scenario][chapter]
        BY <3>1 DEF TourTyped
      <3>3. scenario # "troubleshooter" => Tour!Here \notin Tour!Fixable
        BY <3>2 DEF Tour!ConstantsAssumption, Tour!Fixable
      <3> QED
        BY <2>3, <3>1, <3>3 DEF Selection
    <2> QED
      BY <1>1, <2>1, <2>2, <2>3 DEF TourTyped, Selection
  <1>20. CASE UNCHANGED Tour!vars
    BY <1>3, <1>20 DEF Tour!vars, TourTyped
  <1> HIDE DEF Tour!Leaving
  <1> QED
    BY <1>4, <1>5, <1>6, <1>7, <1>8, <1>9, <1>10, <1>11, <1>14, <1>15, <1>16, <1>17, <1>18,
       <1>19, <1>20, Zenon DEF Tour!Next, Tour!Leave, Tour!NextStep

\* A profile that is being fixed is the one that was found to need it.
LEMMA FixesNext ==
    ASSUME Tour!ConstantsAssumption, TourTyped, Selection, Tour!Next
    PROVE  \A p \in Tour!Owned : settings'[p] # settings[p] /\ ~raced => p = selected
  <1>1. ASSUME tourResult # None, tourResult.fix \in Tour!Settings, Tour!Configure(tourResult)
        PROVE  \A p \in Tour!Owned : settings'[p] # settings[p] => p = tourResult.for
    <2>1. settings \in [Tour!Owned -> SUBSET Tour!Settings]
      BY Zenon DEF TourTyped
    <2> QED
      BY <1>1, <2>1 DEF Tour!Configure
  <1>2. CASE UNCHANGED settings
    BY <1>2
  <1>3. CASE /\ tourResult # None /\ tourResult.fix \in Tour!Settings
             /\ Tour!Configure(tourResult)
    BY <1>1, <1>3 DEF Selection
  <1>4. CASE Tour!Confirm \/ Tour!EnterValue
    BY <1>2, <1>3, <1>4, Zenon DEF Tour!Confirm, Tour!EnterValue, Tour!Settings
  <1>5. CASE ~Tour!Confirm /\ ~Tour!EnterValue
    <2>1. UNCHANGED settings
      BY <1>5 DEF Tour!Next, Tour!StartSearch, Tour!Search, Tour!Arrow, Tour!ClearSearch,
         Tour!OpenScenario, Tour!MoveProfile, Tour!PickProfile, Tour!DropProfile, Tour!Leave,
         Tour!NextStep, Tour!Exit, Tour!PressFix, Tour!Cancel, Tour!EnterNothing,
         Tour!TestReturns, Tour!RefreshStarts, Tour!RefreshEnds, Tour!stores
    <2> QED
      BY <1>2, <2>1
  <1> QED
    BY <1>4, <1>5

LEMMA TourInit == ASSUME Tour!ConstantsAssumption, Tour!Init PROVE TourTyped /\ Selection
  <1>1. /\ Scenarios \in Seq(Tour!Names) /\ Len(Scenarios) \in Nat \ {0}
        /\ menu = [idx |-> 1, list |-> Scenarios, searching |-> FALSE, open |-> FALSE]
    BY TourNames, Zenon DEF Tour!Init
  <1>2. MenuTyped
    BY <1>1 DEF MenuTyped
  <1>3. settings \in [Tour!Owned -> SUBSET Tour!Settings]
    <2>1. \/ settings = [p \in Tour!Owned |-> {}]
          \/ settings = [p \in Tour!Owned |-> {"notifications"}]
      BY Zenon DEF Tour!Init
    <2> QED
      BY <2>1 DEF Tour!Settings
  <1>4. menu.open = FALSE
    BY <1>1
  <1>5. /\ scenario = None /\ picking = 0 /\ selected = None /\ tourResult = None
        /\ prompt = "" /\ refresh = None /\ raced = FALSE
    BY Zenon DEF Tour!Init
  <1> QED
    BY <1>2, <1>3, <1>4, <1>5 DEF TourTyped, Selection

\* The tour shows a step that exists, of a scenario that exists, lists what its
\* cursor is on, and finds for profiles that exist (engine.go), for any menu,
\* searches and profiles.
THEOREM TourTypeCorrect == Tour!Spec => []Tour!TypeOK
  <1> USE TourAssumption
  <1>1. Tour!Init => TourTyped /\ Selection
    BY TourInit
  <1>2. TourTyped /\ Selection /\ [Tour!Next]_(Tour!vars) => (TourTyped /\ Selection)'
    BY TourNext
  <1>3. TourTyped => Tour!TypeOK
    <2> SUFFICES ASSUME TourTyped PROVE Tour!TypeOK
      OBVIOUS
    <2>1. /\ menu.open \in BOOLEAN /\ menu.searching \in BOOLEAN
      BY DEF TourTyped, MenuTyped
    <2>2. menu.list # << >> => menu.idx \in DOMAIN menu.list
      <3>1. menu.list \in Seq(Tour!Names) /\ (menu.idx = 1 \/ menu.idx \in 1..Len(menu.list))
        BY DEF TourTyped, MenuTyped
      <3>2. menu.list # << >> => Len(menu.list) \in Nat \ {0}
        BY <3>1, EmptySeq
      <3>3. DOMAIN menu.list = 1..Len(menu.list)
        BY <3>1, LenProperties
      <3> QED
        BY <3>1, <3>2, <3>3
    <2>3. picking \in 0..Len(Profiles)
      <3>1. DOMAIN Profiles = 1..Len(Profiles) /\ Len(Profiles) \in Nat \ {0}
        BY TourNames, Zenon
      <3>2. picking \in {0} \cup DOMAIN Profiles
        BY DEF TourTyped
      <3> QED
        BY <3>1, <3>2
    <2> QED
      BY <2>1, <2>2, <2>3, Zenon DEF TourTyped, Tour!TypeOK, Finding
  <1> QED
    BY <1>1, <1>2, <1>3, PTL DEF Tour!Spec

\* Whatever is typed and confirmed (engine.go: the fix of LastResult), and
\* whenever the diagnosis beside Update ends, the profile that is changed is the
\* one that was selected, unless a step was left with its diagnosis under way.
THEOREM FixesCorrect == Tour!Spec => FixesSelected
  <1> USE TourAssumption
  <1>1. Tour!Init => TourTyped /\ Selection
    BY TourInit
  <1>2. TourTyped /\ Selection /\ [Tour!Next]_(Tour!vars) => (TourTyped /\ Selection)'
    BY TourNext
  <1>3. TourTyped /\ Selection /\ [Tour!Next]_(Tour!vars) =>
           [\A p \in Tour!Owned : settings'[p] # settings[p] /\ ~raced => p = selected]_(Tour!vars)
    BY FixesNext
  <1> QED
    BY <1>1, <1>2, <1>3, PTL DEF Tour!Spec, FixesSelected, Tour!FixesSelected

-----------------------------------------------------------------------------
(***************************************************************************)
(* A list of the elements at some places of a sequence.                    *)
(***************************************************************************)
\* Each number up to how many places there are is the rank of one of them.
LEMMA PlaceOfRank ==
    ASSUME NEW n \in Nat, NEW P \in SUBSET (1..n), NEW j \in 1..Cardinality(P)
    PROVE  \E k \in P : Cardinality(P \cap 1..k) = j
  <1> DEFINE Rank(k) == Cardinality(P \cap 1..k)
             Far == {k \in 0..n : Rank(k) >= j}
  <1>1. IsFiniteSet(P) /\ Cardinality(P) \in Nat
    <2>1. IsFiniteSet(1..n)
      BY FS_Interval
    <2>2. IsFiniteSet(P)
      BY <2>1, FS_Subset
    <2> QED
      BY <2>2, FS_CardinalityType
  <1>2. \A k \in 0..n : Rank(k) \in Nat
    BY <1>1, FS_Intersection, FS_CardinalityType
  <1>3. n \in Far
    <2>1. P \cap 1..n = P
      OBVIOUS
    <2> QED
      BY <1>1, <2>1
  <1>4. PICK k \in Far : \A m \in Far : k <= m
    <2>1. Far \subseteq Nat
      OBVIOUS
    <2> HIDE DEF Far
    <2> QED
      BY <1>3, <2>1, LeastNatural
  <1>5. k # 0
    <2>1. P \cap 1..0 = {}
      OBVIOUS
    <2>2. Rank(0) = 0
      BY <2>1, FS_EmptySet
    <2> QED
      BY <2>2
  <1>6. k \in 1..n /\ k - 1 \in 0..n /\ Rank(k) >= j
    BY <1>5
  <1>7. ~(Rank(k - 1) >= j)
    BY <1>4, <1>6
  <1>8. P \cap 1..k = (P \cap 1..(k - 1)) \cup (P \cap {k})
    BY <1>6
  <1>9. CASE k \notin P
    <2>1. P \cap 1..k = P \cap 1..(k - 1)
      BY <1>8, <1>9
    <2> QED
      BY <1>6, <1>7, <2>1
  <1>10. CASE k \in P
    <2>1. P \cap 1..k = (P \cap 1..(k - 1)) \cup {k} /\ k \notin P \cap 1..(k - 1)
      BY <1>6, <1>8, <1>10
    <2>2. IsFiniteSet(P \cap 1..(k - 1))
      BY <1>1, FS_Intersection
    <2>3. Rank(k) = Rank(k - 1) + 1
      BY <2>1, <2>2, FS_AddElement
    <2>4. Rank(k) = j
      BY <1>2, <1>6, <1>7, <2>3
    <2> QED
      BY <1>10, <2>4
  <1> QED
    BY <1>9, <1>10

\* What is kept of a sequence is one of the same elements, and not longer.
LEMMA SelectedTyped ==
    ASSUME NEW T, NEW s \in Seq(T), NEW P \in SUBSET DOMAIN s
    PROVE  Selected(s, P) \in Seq(T) /\ Len(Selected(s, P)) <= Len(s)
  <1> DEFINE at(j) == CHOOSE k \in P : Cardinality(P \cap 1..k) = j
  <1>1. Len(s) \in Nat /\ DOMAIN s = 1..Len(s) /\ P \subseteq 1..Len(s)
    OBVIOUS
  <1>2. Cardinality(P) \in Nat /\ Cardinality(P) <= Len(s)
    <2>1. IsFiniteSet(1..Len(s)) /\ Cardinality(1..Len(s)) = Len(s)
      <3>1. \A n \in Nat : IsFiniteSet(1..n) /\ Cardinality(1..n) = n
        BY FS_Interval
      <3> QED
        BY <1>1, <3>1
    <2>2. IsFiniteSet(P) /\ Cardinality(P) <= Len(s)
      BY <1>1, <2>1, FS_Subset
    <2> QED
      BY <2>2, FS_CardinalityType
  <1>3. ASSUME NEW j \in 1..Cardinality(P) PROVE s[at(j)] \in T
    <2>1. at(j) \in P
      BY <1>1, PlaceOfRank
    <2> HIDE DEF at
    <2> QED
      BY <1>1, <2>1
  <1>4. Selected(s, P) = [j \in 1..Cardinality(P) |-> s[at(j)]]
    BY DEF Selected
  <1> HIDE DEF at
  <1> QED
    BY <1>2, <1>3, <1>4

\* The same in the modules that select.
LEMMA BrowserSelected == \A s, P : Browser!Selected(s, P) = Selected(s, P)
  BY Zenon DEF Browser!Selected, Selected, Browser!Cardinality, Cardinality, Browser!IsFiniteSet, IsFiniteSet
LEMMA FollowSelected == \A s, P : Follow!Selected(s, P) = Selected(s, P)
  BY Zenon DEF Follow!Selected, Selected, Follow!Cardinality, Cardinality, Follow!IsFiniteSet, IsFiniteSet

-----------------------------------------------------------------------------
(***************************************************************************)
(* The browser of incidents.                                               *)
(***************************************************************************)
Browsed == UNION {Browser!ToSet(l) : l \in Stores}

BrowserTyped ==
    /\ list \in Stores \cup {<<>>}
    /\ severity \in Severities \cup {"all"} /\ state \in {"all", "active", "resolved"}
    /\ cursor \in Nat /\ page \in Nat
    /\ filtered \in Seq(Browsed) /\ picked \in Seq(Browsed) /\ Len(picked) <= 1

BrowserStill == UNCHANGED <<list, severity, state, filtered, picked>>

\* Every list that is read is one of incidents there are.
LEMMA ListsBrowsed == \A l \in Stores \cup {<<>>} : l \in Seq(Browsed)
  <1>1. ASSUME NEW l \in Stores PROVE l \in Seq(Browsed)
    <2>1. l \in Seq(Browser!ToSet(l)) /\ Browser!ToSet(l) \subseteq Browsed
      BY BrowserAssumption DEF Browser!ConstantsAssumption, Browsed
    <2>2. \A S, T : S \subseteq T => Seq(S) \subseteq Seq(T)
      OBVIOUS
    <2> QED
      BY <2>1, <2>2
  <1>2. << >> \in Seq(Browsed)
    OBVIOUS
  <1> QED
    BY <1>1, <1>2

\* A filter keeps incidents of the list, and a cursor that is a number.
LEMMA FilterTyped ==
    ASSUME BrowserTyped, NEW l \in Stores \cup {<<>>}, NEW sev \in Severities \cup {"all"},
           NEW st \in {"all", "active", "resolved"}, Browser!Filter(l, sev, st), UNCHANGED picked
    PROVE  BrowserTyped'
  <1> DEFINE K == {k \in DOMAIN l : Browser!Passes(l[k], sev, st)}
  <1>1. filtered' \in Seq(Browsed)
    <2>1. l \in Seq(Browsed) /\ K \in SUBSET DOMAIN l
      BY ListsBrowsed
    <2>2. filtered' = Selected(l, K)
      BY BrowserSelected DEF Browser!Filter
    <2> HIDE DEF K
    <2> QED
      BY <2>1, <2>2, SelectedTyped
  <1>2. list' = l /\ severity' = sev /\ state' = st /\ cursor' \in {0, cursor} /\ page' = page
    BY DEF Browser!Filter
  <1> QED
    BY <1>1, <1>2 DEF BrowserTyped

\* Moving the cursor changes no list.
LEMMA MoveTyped ==
    ASSUME BrowserTyped, NEW c \in Nat, NEW p \in Nat, Browser!MoveTo(c, p)
    PROVE  BrowserTyped'
  BY DEF BrowserTyped, Browser!MoveTo

LEMMA BrowserTypedNext ==
    ASSUME BrowserTyped, [Browser!Next]_(Browser!vars) PROVE BrowserTyped'
  <1>1. PageSize \in Nat \ {0}
    BY BrowserAssumption DEF Browser!ConstantsAssumption
  <1>2. cursor \in Nat /\ page \in Nat /\ Len(filtered) \in Nat
    BY DEF BrowserTyped
  <1>3. CASE UNCHANGED Browser!vars
    BY <1>3 DEF BrowserTyped, Browser!vars
  <1>4. CASE Browser!Load
    BY <1>4, FilterTyped DEF Browser!Load, BrowserTyped
  <1>5. CASE Browser!PressFilter
    BY <1>5, FilterTyped DEF Browser!PressFilter, BrowserTyped
  <1>6. CASE Browser!Enter
    <2>1. cursor + 1 \in DOMAIN filtered /\ filtered \in Seq(Browsed)
      BY <1>2, <1>6 DEF Browser!Enter, BrowserTyped
    <2>2. <<filtered[cursor + 1]>> \in Seq(Browsed) /\ Len(<<filtered[cursor + 1]>>) = 1
      BY <2>1
    <2> QED
      BY <1>6, <2>2 DEF Browser!Enter, BrowserTyped
  <1>7. CASE Browser!Back
    BY <1>7 DEF Browser!Back, BrowserTyped
  <1>8. CASE Browser!Up
    <2>1. page = 0 => page * PageSize = 0
      BY <1>1
    <2>2. cursor - 1 \in Nat
      BY <1>2, <1>8 DEF Browser!Up
    <2>3. (IF cursor - 1 < page * PageSize THEN page - 1 ELSE page) \in Nat
      BY <1>2, <2>1, <2>2
    <2> QED
      BY <1>8, <2>2, <2>3, MoveTyped DEF Browser!Up
  <1>9. CASE Browser!Down
    <2>1. (IF cursor + 1 >= (page + 1) * PageSize THEN page + 1 ELSE page) \in Nat
      BY <1>2
    <2> QED
      BY <1>2, <1>9, <2>1, MoveTyped DEF Browser!Down
  <1>10. \A a, b \in Nat : a * b \in Nat
    OBVIOUS
  <1>11. CASE Browser!PageUp
    <2>1. page - 1 \in Nat
      BY <1>2, <1>11 DEF Browser!PageUp
    <2> QED
      BY <1>1, <1>10, <1>11, <2>1, MoveTyped DEF Browser!PageUp
  <1>12. CASE Browser!PageDown
    BY <1>1, <1>2, <1>10, <1>12, MoveTyped DEF Browser!PageDown
  <1>13. CASE Browser!Home
    BY <1>13, MoveTyped DEF Browser!Home
  <1>14. CASE Browser!End
    <2>1. Len(filtered) - 1 \in Nat
      BY <1>14 DEF Browser!End, BrowserTyped
    <2>2. (Len(filtered) - 1) \div PageSize \in Nat
      BY <1>1, <2>1
    <2> QED
      BY <1>14, <2>1, <2>2, MoveTyped DEF Browser!End
  <1> QED
    BY <1>3, <1>4, <1>5, <1>6, <1>7, <1>8, <1>9, <1>11, <1>12, <1>13, <1>14
       DEF Browser!Next

LEMMA BrowserAlways == Browser!Spec => []BrowserTyped
  <1>1. Browser!Init => BrowserTyped
    BY DEF Browser!Init, BrowserTyped
  <1> QED
    BY <1>1, BrowserTypedNext, PTL DEF Browser!Spec

\* The browser shows incidents of the lists it has read, at a place and on a
\* page that are never before the first (incident_browser.go).
THEOREM BrowserTypeCorrect == Browser!Spec => []Browser!TypeOK
  <1>1. BrowserTyped => Browser!TypeOK
    <2> SUFFICES ASSUME BrowserTyped PROVE Browser!ToSet(filtered \o picked) \subseteq Browsed
      BY DEF BrowserTyped, Browser!TypeOK, Browsed
    <2>1. filtered \o picked \in Seq(Browsed)
      BY DEF BrowserTyped
    <2> QED
      BY <2>1 DEF Browser!ToSet
  <1> QED
    BY <1>1, BrowserAlways, PTL

\* Pages are as long as any other: arithmetic of positions.
LEMMA PageBefore ==
    \A p, s \in Nat : p > 0 => (p - 1) * s = p * s - s
  OBVIOUS
LEMMA PageAfter ==
    \A p, s \in Nat : (p + 1) * s = p * s + s
  OBVIOUS
LEMMA PagesGrow ==
    \A p, q, s \in Nat : p <= q => p * s <= q * s
  OBVIOUS
\* The page of a position begins at or before it and ends after it.
LEMMA PageOf ==
    \A n \in Nat, s \in Nat \ {0} :
        /\ n \div s \in Nat
        /\ (n \div s) * s <= n /\ n < (n \div s) * s + s
  OBVIOUS
LEMMA PageIn == \A p, s \in Nat : p * s \in Nat
  OBVIOUS

\* Each key on its own: the page follows the cursor over its edges.
LEMMA KeyKeepsPage ==
    ASSUME BrowserTyped, Browser!CursorOnPage, Browser!Next, filtered' = filtered
    PROVE  Browser!CursorOnPage'
  <1> DEFINE N == Len(filtered)
             B == page * PageSize
  <1>0. /\ PageSize \in Nat /\ PageSize > 0 /\ page \in Nat /\ cursor \in Nat
        /\ N \in Nat /\ B \in Nat
        /\ B <= cursor /\ cursor < B + PageSize
        /\ cursor < N \/ cursor = 0
    <2>1. PageSize \in Nat /\ PageSize > 0
      BY BrowserAssumption DEF Browser!ConstantsAssumption
    <2>2. B \in Nat
      BY <2>1, PageIn DEF BrowserTyped
    <2>3. cursor \in B..(B + PageSize - 1) /\ (cursor < N \/ cursor = 0)
      BY DEF Browser!CursorOnPage
    <2> QED
      BY <2>1, <2>2, <2>3 DEF BrowserTyped
  <1>1. ASSUME NEW c \in Nat, NEW p \in Nat, cursor' = c, page' = p,
               p * PageSize <= c, c < p * PageSize + PageSize, c < N \/ c = 0
        PROVE  Browser!CursorOnPage'
    <2>1. p * PageSize \in Nat
      BY <1>0, PageIn
    <2>2. c \in (p * PageSize)..(p * PageSize + PageSize - 1)
      BY <1>0, <1>1, <2>1
    <2> QED
      BY <1>1, <2>2 DEF Browser!CursorOnPage
  <1>2. CASE Browser!Load \/ Browser!PressFilter
    <2>1. page' = page /\ cursor' = IF cursor >= N THEN 0 ELSE cursor
      BY <1>2 DEF Browser!Load, Browser!PressFilter, Browser!Filter
    <2>2. cursor' = cursor
      BY <1>0, <2>1
    <2> HIDE DEF B
    <2> QED
      BY <1>0, <1>1, <2>1, <2>2 DEF B
  <1>3. CASE Browser!Enter \/ Browser!Back
    BY <1>0, <1>1, <1>3 DEF Browser!Enter, Browser!Back
  <1>4. CASE Browser!Up
    <2>1. cursor > 0 /\ cursor' = cursor - 1
          /\ page' = (IF cursor - 1 < page * PageSize THEN page - 1 ELSE page)
      BY <1>4 DEF Browser!Up, Browser!MoveTo
    <2>2. CASE cursor - 1 < page * PageSize
      <3>1. cursor = B /\ B > 0
        BY <1>0, <2>1, <2>2
      <3>2. page > 0 /\ page' = page - 1
        BY <1>0, <2>1, <2>2, <3>1
      <3>3. (page - 1) * PageSize = B - PageSize /\ (page - 1) * PageSize \in Nat
        BY <1>0, <3>2, PageBefore, PageIn
      <3> QED
        BY <1>0, <1>1, <2>1, <3>1, <3>2, <3>3
    <2>3. CASE ~(cursor - 1 < page * PageSize)
      BY <1>0, <1>1, <2>1, <2>3
    <2> QED
      BY <2>2, <2>3
  <1>5. CASE Browser!Down
    <2>1. cursor + 1 < N /\ cursor' = cursor + 1
          /\ page' = (IF cursor + 1 >= (page + 1) * PageSize THEN page + 1 ELSE page)
      BY <1>5 DEF Browser!Down, Browser!MoveTo
    <2>2. (page + 1) * PageSize = B + PageSize
      BY <1>0, PageAfter
    <2>3. CASE cursor + 1 >= (page + 1) * PageSize
      BY <1>0, <1>1, <2>1, <2>2, <2>3
    <2>4. CASE ~(cursor + 1 >= (page + 1) * PageSize)
      BY <1>0, <1>1, <2>1, <2>2, <2>4
    <2> QED
      BY <2>3, <2>4
  <1>6. CASE Browser!PageUp
    <2>1. page > 0 /\ cursor' = (page - 1) * PageSize /\ page' = page - 1
      BY <1>6 DEF Browser!PageUp, Browser!MoveTo
    <2>2. (page - 1) * PageSize = B - PageSize /\ (page - 1) * PageSize \in Nat
      BY <1>0, <2>1, PageBefore, PageIn
    <2>3. B - PageSize < N \/ B - PageSize = 0
      BY <1>0, <2>2
    <2> QED
      BY <1>0, <1>1, <2>1, <2>2, <2>3
  <1>7. CASE Browser!PageDown
    <2>1. /\ filtered # << >> /\ page < (N - 1) \div PageSize
          /\ cursor' = (page + 1) * PageSize /\ page' = page + 1
      BY <1>7 DEF Browser!PageDown, Browser!MoveTo
    <2>2. N > 0
      BY <2>1 DEF BrowserTyped
    <2>3. N - 1 \in Nat
      BY <1>0, <2>2
    <2>4. (N - 1) \div PageSize \in Nat /\ ((N - 1) \div PageSize) * PageSize <= N - 1
      BY <1>0, <2>3, PageOf
    <2>5. page + 1 <= (N - 1) \div PageSize
      BY <1>0, <2>1, <2>4
    <2>6. (page + 1) * PageSize <= ((N - 1) \div PageSize) * PageSize
      BY <1>0, <2>4, <2>5, PagesGrow
    <2>7. (page + 1) * PageSize \in Nat /\ ((N - 1) \div PageSize) * PageSize \in Nat
      BY <1>0, <2>4, PageIn
    <2>8. (page + 1) * PageSize < N
      BY <1>0, <2>4, <2>6, <2>7
    <2> QED
      BY <1>0, <1>1, <2>1, <2>7, <2>8
  <1>8. CASE Browser!Home
    <2>1. cursor' = 0 /\ page' = 0
      BY <1>8 DEF Browser!Home, Browser!MoveTo
    <2> QED
      BY <1>0, <1>1, <2>1
  <1>9. CASE Browser!End
    <2>1. filtered # << >> /\ cursor' = N - 1 /\ page' = (N - 1) \div PageSize
      BY <1>9 DEF Browser!End, Browser!MoveTo
    <2>2. N > 0
      BY <2>1 DEF BrowserTyped
    <2>3. N - 1 \in Nat
      BY <1>0, <2>2
    <2> DEFINE at == (N - 1) \div PageSize
    <2>4. at \in Nat /\ at * PageSize <= N - 1 /\ N - 1 < at * PageSize + PageSize
      BY <1>0, <2>3, PageOf
    <2>5. cursor' = N - 1 /\ page' = at /\ N - 1 < N
      BY <1>0, <2>1
    <2> HIDE DEF at
    <2> QED
      BY <1>1, <2>3, <2>4, <2>5
  <1> QED
    BY <1>2, <1>3, <1>4, <1>5, <1>6, <1>7, <1>8, <1>9 DEF Browser!Next

\* Whatever the length of a page and of the list, a key that moves the cursor, or
\* opens and closes a detail, leaves it on the list and on the page that is shown
\* if it was there (incident_browser.go); a filter need not, as it resets the
\* cursor and not the page.
THEOREM KeysCorrect == Browser!Spec => KeysKeepPage
  <1>1. BrowserTyped /\ [Browser!Next]_(Browser!vars) =>
            [Browser!CursorOnPage /\ filtered' = filtered => Browser!CursorOnPage']_(Browser!vars)
    BY KeyKeepsPage
  <1> QED
    BY <1>1, BrowserAlways, PTL DEF Browser!Spec, KeysKeepPage, Browser!KeysKeepPage

-----------------------------------------------------------------------------
(***************************************************************************)
(* The runbooks and the commands that write and approve them.              *)
(***************************************************************************)
IsBook(b) ==
    /\ DOMAIN b = {"id", "related", "published"}
    /\ b.related \subseteq 1..MaxIncidents /\ b.published \in BOOLEAN

BookFits(c, places) ==
    /\ DOMAIN c = {"phase", "incident", "book", "publish", "read", "said"}
    /\ c.phase \in {"idle", "read", "write", "save", "publish"}
    /\ c.phase \in {"read", "write"} => c.incident \in places
    /\ c.phase # "idle" => IsBook(c.book)

BooksShelved ==
    \A f \in DOMAIN runbooks :
        f[1] = runbooks[f].id /\ f[2] \in {"md", "json"} /\ IsBook(runbooks[f])

BooksTyped ==
    /\ seconds \in 0..MaxSeconds /\ given \in 0..MaxGiven /\ booksSettings \in Configs
    /\ incidents \in Seq([opened : Openings, analysis : Analyses \cup {None}])
    /\ Len(incidents) <= MaxIncidents
    /\ \E T : suggestions \in Seq(T)
    /\ DOMAIN suggestions = DOMAIN incidents
    /\ BooksShelved
    /\ command = [c \in Procs |-> command[c]]
    /\ \A c \in Procs : BookFits(command[c], DOMAIN incidents)

\* A sequence changed at one place has its length and type still.
LEMMA PlaceChanged ==
    ASSUME NEW T, NEW s \in Seq(T), NEW i, NEW v \in T
    PROVE  /\ i \in DOMAIN s => s[i] \in T
           /\ [s EXCEPT ![i] = v] \in Seq(T) /\ Len([s EXCEPT ![i] = v]) = Len(s)
           /\ DOMAIN [s EXCEPT ![i] = v] = DOMAIN s
  <1> DEFINE u == [s EXCEPT ![i] = v]
  <1>1. Len(s) \in Nat /\ DOMAIN s = 1..Len(s) /\ \A k \in 1..Len(s) : s[k] \in T
    OBVIOUS
  <1>2. u = [k \in 1..Len(s) |-> IF k = i THEN v ELSE s[k]]
    BY <1>1
  <1>3. DOMAIN u = 1..Len(s) /\ \A k \in 1..Len(s) : u[k] \in T
    BY <1>1, <1>2
  <1>4. u = [k \in 1..Len(s) |-> u[k]]
    BY <1>2
  <1> HIDE DEF u
  <1>5. u \in Seq(T) /\ Len(u) = Len(s)
    BY <1>1, <1>3, <1>4
  <1> QED
    BY <1>1, <1>3, <1>5 DEF u

LEMMA IdleBookFits ==
    ASSUME NEW what, NEW places
    PROVE  BookFits([Books!Idle EXCEPT !.said = what], places)
  BY DEF BookFits, Books!Idle

\* One command moves; incidents and their suggestions keep their places.
LEMMA BooksMove ==
    ASSUME BooksTyped, NEW c \in Procs, NEW to, Books!Goto(c, to),
           BookFits(to, DOMAIN incidents), UNCHANGED <<incidents, seconds, booksSettings>>,
           given' \in 0..MaxGiven, BooksShelved',
           \E T : suggestions' \in Seq(T), DOMAIN suggestions' = DOMAIN suggestions
    PROVE  BooksTyped'
  <1>1. command' = [command EXCEPT ![c] = to] /\ command = [d \in Procs |-> command[d]]
    BY DEF Books!Goto, BooksTyped
  <1>2. command' = [d \in Procs |-> command'[d]]
    BY <1>1
  <1>3. \A d \in Procs : command'[d] = to \/ command'[d] = command[d]
    BY <1>1
  <1>4. \A d \in Procs : BookFits(command'[d], DOMAIN incidents)
    BY <1>3 DEF BooksTyped
  <1> QED
    BY <1>2, <1>4 DEF BooksTyped

\* A command that only answers changes nothing but what it said.
LEMMA BooksSay ==
    ASSUME BooksTyped, NEW c \in Procs, NEW what, NEW which, Books!Show(c, what, which),
           UNCHANGED <<incidents, seconds, booksSettings, suggestions, runbooks>>,
           given' \in 0..MaxGiven
    PROVE  BooksTyped'
  <1> DEFINE to == [Books!Idle EXCEPT !.said = <<what, which>>]
  <1>1. Books!Goto(c, to)
    BY DEF Books!Show
  <1>2. BookFits(to, DOMAIN incidents)
    BY IdleBookFits
  <1>3. BooksShelved' /\ \E T : suggestions' \in Seq(T)
    BY DEF BooksTyped, BooksShelved
  <1> HIDE DEF to
  <1> QED
    BY <1>1, <1>2, <1>3, BooksMove

LEMMA GivenTyped ==
    ASSUME BooksTyped, NEW c \in Procs, Books!Give(c) PROVE given' \in 0..MaxGiven
  BY BooksAssumption DEF BooksTyped, Books!Give, Books!ConstantsAssumption

LEMMA GeneratedIsBook ==
    ASSUME NEW a, a.related \subseteq 1..MaxIncidents PROVE IsBook(Books!Generated(a))
  BY DEF IsBook, Books!Generated

\* The incidents a suggestion names are incidents there are.
LEMMA RelatedTyped ==
    ASSUME BooksTyped, NEW i
    PROVE  Books!AnalyzeIncident(i).related \subseteq 1..MaxIncidents
  <1>1. Books!AnalyzeIncident(i).related \subseteq DOMAIN incidents
    BY DEF Books!AnalyzeIncident
  <1>2. DOMAIN incidents \subseteq 1..MaxIncidents
    BY BooksAssumption DEF BooksTyped, Books!ConstantsAssumption
  <1> QED
    BY <1>1, <1>2

\* A runbook that is saved is filed under its own ID.
LEMMA PutKeeps ==
    ASSUME BooksTyped, NEW b, IsBook(b), Books!Put(b) PROVE BooksShelved'
  <1>1. runbooks' = [f \in DOMAIN runbooks \cup {Books!File(b)} |->
                        IF f = Books!File(b) THEN b ELSE runbooks[f]]
    BY DEF Books!Put
  <1>2. Books!File(b)[1] = b.id /\ Books!File(b)[2] \in {"md", "json"}
    BY DEF Books!File
  <1> HIDE DEF IsBook
  <1> QED
    BY <1>1, <1>2 DEF BooksTyped, BooksShelved

\* A command that generates a runbook takes it along or says why it does not.
LEMMA GenerateTyped ==
    ASSUME BooksTyped, NEW c \in Procs, NEW a, a.related \subseteq 1..MaxIncidents,
           NEW save \in BOOLEAN, NEW publish \in BOOLEAN, Books!Generate(c, a, save, publish)
    PROVE  BooksTyped'
  <1> DEFINE to == [Books!Idle EXCEPT !.phase = "save", !.publish = publish,
                                      !.book = Books!Generated(a)]
  <1>1. /\ UNCHANGED <<incidents, seconds, booksSettings, suggestions, runbooks>>
        /\ given' \in 0..MaxGiven
    BY GivenTyped DEF Books!Generate
  <1>2. (\E what, which : Books!Show(c, what, which)) \/ Books!Goto(c, to)
    BY DEF Books!Generate, Books!Say
  <1>3. BookFits(to, DOMAIN incidents)
    <2>1. IsBook(Books!Generated(a))
      BY GeneratedIsBook
    <2> QED
      BY <2>1 DEF BookFits, Books!Idle
  <1>4. BooksShelved' /\ \E T : suggestions' \in Seq(T)
    BY <1>1 DEF BooksTyped, BooksShelved
  <1> HIDE DEF to
  <1> QED
    BY <1>1, <1>2, <1>3, <1>4, BooksMove, BooksSay

LEMMA BooksTypedNext ==
    ASSUME BooksTyped, [Books!Next]_(Books!vars) PROVE BooksTyped'
  <1>1. CASE UNCHANGED Books!vars
    BY <1>1 DEF BooksTyped, Books!vars, BooksShelved
  <1>2. CASE Books!Tick
    BY <1>2, BooksAssumption DEF BooksTyped, Books!Tick, BooksShelved, Books!ConstantsAssumption
  <1>3. ASSUME NEW o \in Openings, Books!Open(o) PROVE BooksTyped'
    <2> DEFINE new == [opened |-> o, analysis |-> None]
    <2>1. /\ incidents' = Append(incidents, new) /\ suggestions' = Append(suggestions, << >>)
          /\ UNCHANGED <<seconds, booksSettings, runbooks, command, given>>
          /\ Len(incidents) < MaxIncidents
      BY <1>3 DEF Books!Open
    <2>2. incidents \in Seq([opened : Openings, analysis : Analyses \cup {None}])
      BY DEF BooksTyped
    <2>3. /\ incidents' \in Seq([opened : Openings, analysis : Analyses \cup {None}])
          /\ Len(incidents') = Len(incidents) + 1 /\ Len(incidents') <= MaxIncidents
          /\ DOMAIN incidents' = 1..(Len(incidents) + 1)
      BY <2>1, <2>2, BooksAssumption DEF Books!ConstantsAssumption
    <2>4. PICK T : suggestions \in Seq(T)
      BY DEF BooksTyped
    <2>5. suggestions' \in Seq(T \cup {<< >>}) /\ DOMAIN suggestions' = 1..(Len(suggestions) + 1)
      <3>1. suggestions \in Seq(T \cup {<< >>})
        BY <2>4
      <3> QED
        BY <2>1, <3>1
    <2>6. Len(suggestions) = Len(incidents)
      BY <2>2, <2>4 DEF BooksTyped
    <2>7. DOMAIN incidents \subseteq DOMAIN incidents'
      BY <2>2, <2>3
    <2>8. \A c \in Procs : BookFits(command'[c], DOMAIN incidents')
      BY <2>1, <2>7 DEF BooksTyped, BookFits
    <2>9. \E U : suggestions' \in Seq(U)
      BY <2>5
    <2>10. BooksShelved'
      BY <2>1 DEF BooksTyped, BooksShelved
    <2> QED
      BY <2>1, <2>3, <2>5, <2>6, <2>8, <2>9, <2>10 DEF BooksTyped
  <1>4. ASSUME NEW i, NEW a \in Analyses, Books!Resolve(i, a) PROVE BooksTyped'
    <2>1. /\ incidents' = [incidents EXCEPT ![i].analysis = a] /\ i \in DOMAIN incidents
          /\ UNCHANGED <<seconds, booksSettings, runbooks, suggestions, command, given>>
      BY <1>4 DEF Books!Resolve
    <2> DEFINE R == [opened : Openings, analysis : Analyses \cup {None}]
    <2>2. incidents' = [incidents EXCEPT ![i] = [incidents[i] EXCEPT !.analysis = a]]
      BY <2>1
    <2>3. incidents \in Seq(R)
      BY DEF BooksTyped
    <2>4. [incidents[i] EXCEPT !.analysis = a] \in R
      <3>1. incidents[i] \in R
        <4> HIDE DEF R
        <4> QED
          BY <2>1, <2>3, PlaceChanged
      <3> QED
        BY <3>1
    <2> HIDE DEF R
    <2>5. /\ incidents' \in Seq(R) /\ Len(incidents') = Len(incidents)
          /\ DOMAIN incidents' = DOMAIN incidents
      BY <2>2, <2>3, <2>4, PlaceChanged
    <2>6. BooksShelved' /\ \A c \in Procs : BookFits(command'[c], DOMAIN incidents')
      BY <2>1, <2>5 DEF BooksTyped, BooksShelved
    <2> QED
      BY <2>1, <2>5, <2>6 DEF BooksTyped, R
  <1>5. ASSUME NEW c \in Procs, NEW i, Books!Suggest(c, i) PROVE BooksTyped'
    <2> DEFINE to == [Books!Idle EXCEPT !.phase = "read", !.incident = i,
                                        !.book = Books!Generated(Books!AnalyzeIncident(i))]
    <2>1. /\ UNCHANGED <<incidents, seconds, booksSettings, suggestions, runbooks>>
          /\ given' \in 0..MaxGiven /\ i \in DOMAIN incidents
      BY <1>5, GivenTyped DEF Books!Suggest
    <2>2. (\E what, which : Books!Show(c, what, which)) \/ Books!Goto(c, to)
      BY <1>5 DEF Books!Suggest, Books!Say
    <2>3. BookFits(to, DOMAIN incidents)
      <3>1. IsBook(Books!Generated(Books!AnalyzeIncident(i)))
        BY RelatedTyped, GeneratedIsBook
      <3> QED
        BY <2>1, <3>1 DEF BookFits, Books!Idle
    <2>4. BooksShelved' /\ \E T : suggestions' \in Seq(T)
      BY <2>1 DEF BooksTyped, BooksShelved
    <2> HIDE DEF to
    <2> QED
      BY <2>1, <2>2, <2>3, <2>4, BooksMove, BooksSay
  <1>6. ASSUME NEW c \in Procs, Books!ReadSuggestions(c) PROVE BooksTyped'
    <2> DEFINE to == [command[c] EXCEPT !.phase = "write",
                                        !.read = suggestions[command[c].incident]]
    <2>1. /\ UNCHANGED <<incidents, seconds, booksSettings, suggestions, runbooks>>
          /\ given' \in 0..MaxGiven /\ Books!Goto(c, to) /\ command[c].phase = "read"
      BY <1>6 DEF Books!ReadSuggestions, BooksTyped
    <2>2. BookFits(to, DOMAIN incidents)
      BY <2>1 DEF BooksTyped, BookFits
    <2>3. BooksShelved' /\ \E T : suggestions' \in Seq(T)
      BY <2>1 DEF BooksTyped, BooksShelved
    <2> HIDE DEF to
    <2> QED
      BY <2>1, <2>2, <2>3, BooksMove
  <1>7. ASSUME NEW c \in Procs, Books!WriteSuggestions(c) PROVE BooksTyped'
    <2>1. /\ UNCHANGED <<incidents, seconds, booksSettings, runbooks, given>>
          /\ Books!Show(c, "suggested", {})
      BY <1>7 DEF Books!WriteSuggestions, Books!Say
    <2>2. given' \in 0..MaxGiven /\ BooksShelved'
      BY <2>1 DEF BooksTyped, BooksShelved
    <2>3. (\E T : suggestions' \in Seq(T)) /\ DOMAIN suggestions' = DOMAIN suggestions
      <3>1. CASE UNCHANGED suggestions
        BY <3>1 DEF BooksTyped
      <3>2. ASSUME NEW i, NEW v, suggestions' = [suggestions EXCEPT ![i] = v]
            PROVE  (\E T : suggestions' \in Seq(T)) /\ DOMAIN suggestions' = DOMAIN suggestions
        <4>1. PICK T : suggestions \in Seq(T)
          BY DEF BooksTyped
        <4>2. suggestions \in Seq(T \cup {v})
          BY <4>1
        <4>3. suggestions' \in Seq(T \cup {v})
          BY <3>2, <4>2, PlaceChanged
        <4> QED
          BY <3>2, <4>3
      <3> QED
        BY <1>7, <3>1, <3>2 DEF Books!WriteSuggestions
    <2>4. BookFits([Books!Idle EXCEPT !.said = <<"suggested", {}>>], DOMAIN incidents)
      BY IdleBookFits
    <2> QED
      BY <2>1, <2>2, <2>3, <2>4, BooksMove DEF Books!Show
  <1>8. ASSUME NEW c \in Procs, Books!Save(c) PROVE BooksTyped'
    <2> DEFINE to == [command[c] EXCEPT !.phase = "publish"]
    <2>1. /\ UNCHANGED <<incidents, seconds, booksSettings, suggestions>>
          /\ given' \in 0..MaxGiven /\ command[c].phase = "save"
      BY <1>8 DEF Books!Save, BooksTyped
    <2>2. IsBook(command[c].book) /\ BookFits(to, DOMAIN incidents)
      BY <2>1 DEF BooksTyped, BookFits
    <2>3. Books!Put(command[c].book) \/ UNCHANGED runbooks
      BY <1>8 DEF Books!Save
    <2>4. BooksShelved' /\ \E T : suggestions' \in Seq(T)
      <3>1. ASSUME UNCHANGED runbooks PROVE BooksShelved'
        BY <3>1 DEF BooksTyped, BooksShelved
      <3> QED
        BY <2>1, <2>2, <2>3, <3>1, PutKeeps DEF BooksTyped
    <2>5. (\E what : Books!Goto(c, [Books!Idle EXCEPT !.said = what])) \/ Books!Goto(c, to)
      BY <1>8 DEF Books!Save, Books!Say, Books!Show
    <2> HIDE DEF to
    <2> QED
      BY <2>1, <2>2, <2>4, <2>5, IdleBookFits, BooksMove
  <1>9. ASSUME NEW c \in Procs, Books!Publish(c) PROVE BooksTyped'
    <2> DEFINE b == [command[c].book EXCEPT !.published = TRUE]
    <2>1. /\ UNCHANGED <<incidents, seconds, booksSettings, suggestions>>
          /\ given' \in 0..MaxGiven /\ command[c].phase = "publish"
      BY <1>9 DEF Books!Publish, BooksTyped
    <2>2. IsBook(b)
      <3>1. IsBook(command[c].book)
        BY <2>1 DEF BooksTyped, BookFits
      <3>2. /\ DOMAIN b = DOMAIN command[c].book /\ b.related = command[c].book.related
            /\ "published" \in DOMAIN command[c].book => b.published = TRUE
        OBVIOUS
      <3> HIDE DEF b
      <3> QED
        BY <3>1, <3>2 DEF IsBook
    <2>3. Books!Put(b) \/ UNCHANGED runbooks
      BY <1>9 DEF Books!Publish
    <2> HIDE DEF b
    <2>4. BooksShelved' /\ \E T : suggestions' \in Seq(T)
      <3>1. ASSUME UNCHANGED runbooks PROVE BooksShelved'
        BY <3>1 DEF BooksTyped, BooksShelved
      <3> QED
        BY <2>1, <2>2, <2>3, <3>1, PutKeeps DEF BooksTyped
    <2>5. \E what : Books!Goto(c, [Books!Idle EXCEPT !.said = what])
      BY <1>9 DEF Books!Publish, Books!Say, Books!Show
    <2> QED
      BY <2>1, <2>4, <2>5, IdleBookFits, BooksMove
  <1>10. ASSUME NEW c \in Procs, NEW since, Books!Patterns(c, since) PROVE BooksTyped'
    <2>1. given' \in 0..MaxGiven
      BY <1>10, GivenTyped DEF Books!Patterns
    <2> QED
      BY <1>10, <2>1, BooksSay DEF Books!Patterns, Books!Say
  <1>11. ASSUME NEW c \in Procs, NEW i, NEW save \in BOOLEAN, NEW publish \in BOOLEAN,
                Books!GenerateForIncident(c, i, save, publish)
         PROVE  BooksTyped'
    BY <1>11, RelatedTyped, GenerateTyped DEF Books!GenerateForIncident
  <1>12. ASSUME NEW c \in Procs, NEW s, NEW p, NEW save \in BOOLEAN, NEW publish \in BOOLEAN,
                Books!GenerateForPattern(c, s, p, save, publish)
         PROVE  BooksTyped'
    <2> DEFINE a == [service |-> s, pattern |-> p, confidence |-> 80, related |-> {}]
    <2>1. Books!Generate(c, a, save, publish) /\ a.related \subseteq 1..MaxIncidents
      BY <1>12 DEF Books!GenerateForPattern
    <2> HIDE DEF a
    <2> QED
      BY <2>1, GenerateTyped
  <1>13. ASSUME NEW c \in Procs, NEW s, NEW limit, Books!List(c, s, limit) PROVE BooksTyped'
    <2>1. given' \in 0..MaxGiven
      BY <1>13, GivenTyped DEF Books!List
    <2>2. /\ \E which : Books!Show(c, "list", which)
          /\ UNCHANGED <<incidents, seconds, booksSettings, suggestions, runbooks>>
      BY <1>13 DEF Books!List
    <2> QED
      BY <2>1, <2>2, BooksSay
  <1>14. ASSUME NEW c \in Procs, NEW f, Books!Test(c, f) PROVE BooksTyped'
    <2>1. given' \in 0..MaxGiven
      BY <1>14, GivenTyped DEF Books!Test
    <2> QED
      BY <1>14, <2>1, BooksSay DEF Books!Test, Books!Say
  <1> QED
    BY <1>1, <1>2, <1>3, <1>4, <1>5, <1>6, <1>7, <1>8, <1>9, <1>10, <1>11, <1>12, <1>13, <1>14
       DEF Books!Next

\* Runbooks are filed under their own ID and are about incidents there are,
\* whatever commands overlap and whichever writes fail (runbook/store.go).
THEOREM BooksTypeCorrect == Books!Spec => []Books!TypeOK
  <1> USE BooksAssumption DEF Books!ConstantsAssumption
  <1>1. Books!Init => BooksTyped
    <2> SUFFICES ASSUME Books!Init PROVE BooksTyped
      OBVIOUS
    <2>1. BookFits(Books!Idle, DOMAIN incidents)
      BY DEF BookFits, Books!Idle
    <2>2. command = [c \in Procs |-> command[c]] /\ \A c \in Procs : command[c] = Books!Idle
      BY DEF Books!Init
    <2>3. suggestions \in Seq({})
      BY DEF Books!Init
    <2> QED
      BY <2>1, <2>2, <2>3 DEF Books!Init, BooksTyped, BooksShelved
  <1>2. BooksTyped => Books!TypeOK
    <2> SUFFICES ASSUME BooksTyped PROVE Books!TypeOK
      OBVIOUS
    <2>1. \A i \in DOMAIN incidents :
            incidents[i].opened \in Openings /\ incidents[i].analysis \in Analyses \cup {None}
      <3> DEFINE R == [opened : Openings, analysis : Analyses \cup {None}]
      <3>1. incidents \in Seq(R)
        BY DEF BooksTyped
      <3> HIDE DEF R
      <3>2. \A i \in DOMAIN incidents : incidents[i] \in R
        BY <3>1
      <3> QED
        BY <3>2 DEF R
    <2>2. \A b : IsBook(b) => b.related \subseteq 1..MaxIncidents /\ b.published \in BOOLEAN
      BY DEF IsBook
    <2> HIDE DEF IsBook
    <2> QED
      BY <2>1, <2>2 DEF BooksTyped, BooksShelved, BookFits, Books!TypeOK
  <1> QED
    BY <1>1, <1>2, BooksTypedNext, PTL DEF Books!Spec

-----------------------------------------------------------------------------
(***************************************************************************)
(* What the editors of the console hold.                                   *)
(***************************************************************************)
Content == {"", "old", "new", "bad"}

CredsTyped(r) == DOMAIN r = Edit!Secret /\ \A c \in Edit!Secret : r[c] \in Content

ProfileTyped(prof) ==
    /\ DOMAIN prof = Edit!Owners
    /\ \A e \in Opened :
          /\ DOMAIN prof[Edit!Owner(e)].fields = DOMAIN Edit!Fields[e]
          /\ \A i \in DOMAIN Edit!Fields[e] : prof[Edit!Owner(e)].fields[i] \in Content
          /\ CredsTyped(prof[Edit!Owner(e)].creds)

InputsTyped ==
    /\ inputs \in Seq(Content)
    /\ editor = NoEditor => inputs = << >> /\ index = 0
    /\ editor # NoEditor => /\ index \in DOMAIN inputs
                            /\ DOMAIN inputs = DOMAIN Edit!Fields[editor]

EditTyped ==
    /\ editor \in Opened \cup {NoEditor}
    /\ InputsTyped
    /\ says \in {"", "saved", "auto", "invalid", "failed", "cleared"}
    /\ test \in {"", "ok", "bad"}
    /\ ProfileTyped(copy) /\ ProfileTyped(disk)
    /\ DOMAIN editFiles = Edit!Owners /\ \A o \in Edit!Owners : CredsTyped(editFiles[o])
    /\ opens \in 0..MaxOpens /\ typed \in 0..MaxTyped

WithSecrets == {"prom", "loki", "grafana", "tempo", "jaeger", "elastic"}

\* A token, a user and a password are credentials.
LEMMA CredsOfThree ==
    ASSUME NEW x \in Content, NEW y \in Content, NEW z \in Content
    PROVE  CredsTyped([token |-> x, user |-> y, pass |-> z])
  <1> DEFINE r == [token |-> x, user |-> y, pass |-> z]
  <1>1. DOMAIN r = {"token", "user", "pass"} /\ r["token"] = x /\ r["user"] = y /\ r["pass"] = z
    OBVIOUS
  <1> HIDE DEF r
  <1>2. CredsTyped(r)
    BY <1>1 DEF CredsTyped, Edit!Secret
  <1> QED
    BY <1>2 DEF r

LEMMA EditBounds == MaxOpens \in Nat /\ MaxTyped \in Nat
  BY EditAssumption, Zenon DEF Edit!ConstantsAssumption

LEMMA CountStarts == \A m \in Nat : 0 \in 0..m
  OBVIOUS

LEMMA CountGoesOn == \A m \in Nat : \A n \in 0..m : n < m => n + 1 \in 0..m
  OBVIOUS

LEMMA EditorsKnown ==
    NoEditor \notin DOMAIN Edit!Fields
    /\ Opened \subseteq DOMAIN Edit!Fields
  BY EditAssumption, Zenon DEF Edit!ConstantsAssumption

LEMMA EmptyTyped == << >> \in Seq(Content)
  OBVIOUS

LEMMA EditorKnown == \A e \in Opened : e \in WithSecrets \cup {"correlation", "backend"}
  BY EditAssumption DEF Edit!ConstantsAssumption, Edit!Fields, WithSecrets

LEMMA FieldsOfPart ==
    ASSUME NEW e \in WithSecrets \cup {"correlation", "backend"}
    PROVE  \E n \in Nat \ {0} : DOMAIN Edit!Fields[e] = 1..n
  <1>1. CASE e = "prom"
    BY <1>1 DEF Edit!Fields, Edit!PromFields
  <1>2. CASE e = "loki"
    BY <1>2 DEF Edit!Fields, Edit!LokiFields
  <1>3. CASE e = "grafana"
    BY <1>3 DEF Edit!Fields, Edit!GrafanaFields
  <1>4. CASE e = "tempo"
    BY <1>4 DEF Edit!Fields, Edit!TraceFields
  <1>5. CASE e = "jaeger"
    BY <1>5 DEF Edit!Fields, Edit!TraceFields
  <1>6. CASE e = "elastic"
    BY <1>6 DEF Edit!Fields, Edit!ElasticFields
  <1>7. CASE e = "correlation"
    BY <1>7 DEF Edit!Fields, Edit!CorrelationFields
  <1>8. CASE e = "backend"
    BY <1>8 DEF Edit!Fields, Edit!BackendFields
  <1> QED
    BY <1>1, <1>2, <1>3, <1>4, <1>5, <1>6, <1>7, <1>8 DEF WithSecrets

\* An editor has a field for each part of its credentials.
LEMMA SecretPlaces ==
    ASSUME NEW e \in WithSecrets, NEW c \in Edit!Secret
    PROVE  Edit!At(e, c) \in DOMAIN Edit!Fields[e]
  <1>1. \E i \in DOMAIN Edit!Fields[e] : Edit!Fields[e][i] = c
    <2> USE DEF Edit!Secret
    <2>1. CASE e = "prom"
      BY <2>1 DEF Edit!Fields, Edit!PromFields
    <2>2. CASE e = "loki"
      BY <2>2 DEF Edit!Fields, Edit!LokiFields
    <2>3. CASE e = "grafana"
      BY <2>3 DEF Edit!Fields, Edit!GrafanaFields
    <2>4. CASE e = "tempo"
      BY <2>4 DEF Edit!Fields, Edit!TraceFields
    <2>5. CASE e = "jaeger"
      BY <2>5 DEF Edit!Fields, Edit!TraceFields
    <2>6. CASE e = "elastic"
      BY <2>6 DEF Edit!Fields, Edit!ElasticFields
    <2> QED
      BY <2>1, <2>2, <2>3, <2>4, <2>5, <2>6 DEF WithSecrets
  <1> QED
    BY <1>1 DEF Edit!At

LEMMA NoSecretFields == ~Edit!HasCreds("correlation") /\ ~Edit!HasCreds("backend")
  BY DEF Edit!HasCreds, Edit!Fields, Edit!CorrelationFields, Edit!BackendFields, Edit!Secret

\* Editors of one owner have the same fields.
LEMMA SharedFields ==
    ASSUME NEW d \in Opened, NEW e \in Opened, Edit!Owner(d) = Edit!Owner(e)
    PROVE  Edit!Fields[d] = Edit!Fields[e]
  <1>1. d = e \/ (d \in {"tempo", "jaeger"} /\ e \in {"tempo", "jaeger"})
    BY EditorKnown DEF Edit!Owner, WithSecrets
  <1> QED
    BY <1>1 DEF Edit!Fields

\* What was typed into the fields of credentials.
LEMMA TypedCredsTyped ==
    ASSUME EditTyped, editor \in WithSecrets, editor # NoEditor
    PROVE  CredsTyped(Edit!TypedCreds(editor))
  <1>1. \A c \in Edit!Secret : inputs[Edit!At(editor, c)] \in Content
    <2>1. inputs \in Seq(Content) /\ DOMAIN inputs = DOMAIN Edit!Fields[editor]
      BY DEF EditTyped, InputsTyped
    <2> QED
      BY <2>1, SecretPlaces
  <1> QED
    BY <1>1 DEF CredsTyped, Edit!TypedCreds

\* What a save makes of a profile has its settings and credentials still.
LEMMA ChangedTyped ==
    ASSUME EditTyped, editor # NoEditor
    PROVE  LET n == Edit!Changed(editor)
           IN /\ DOMAIN n.fields = DOMAIN Edit!Fields[editor]
              /\ \A i \in DOMAIN Edit!Fields[editor] : n.fields[i] \in Content
              /\ CredsTyped(n.creds)
  <1> DEFINE new == Edit!Changed(editor)
             o == Edit!Owner(editor)
  <1>1. editor \in Opened /\ ProfileTyped(copy) /\ inputs \in Seq(Content)
        /\ DOMAIN inputs = DOMAIN Edit!Fields[editor]
    BY DEF EditTyped, InputsTyped
  <1>2. DOMAIN new.fields = DOMAIN inputs
    BY DEF Edit!Changed
  <1>3. ASSUME NEW i \in DOMAIN inputs PROVE new.fields[i] \in Content
    <2>1. new.fields[i] = IF Edit!Fields[editor][i] \in Edit!Secret THEN ""
                          ELSE Edit!Saved(Edit!Fields[editor][i], inputs[i], copy[o].fields[i])
      BY <1>3 DEF Edit!Changed
    <2>2. inputs[i] \in Content /\ copy[o].fields[i] \in Content
      BY <1>1, <1>3 DEF ProfileTyped
    <2>3. Edit!Saved(Edit!Fields[editor][i], inputs[i], copy[o].fields[i]) \in Content
      BY <2>2 DEF Edit!Saved
    <2> QED
      BY <2>1, <2>3 DEF Content
  <1>4. CredsTyped(new.creds)
    <2>1. CASE editor = "elastic"
      <3> DEFINE typedCreds == Edit!TypedCreds(editor)
                 oldCreds == copy["elastic"].creds
      <3>1. CredsTyped(typedCreds)
        BY <2>1, TypedCredsTyped DEF WithSecrets
      <3>2. CredsTyped(oldCreds)
        BY <1>1, <2>1 DEF ProfileTyped, Edit!Owner
      <3>3. new.creds = Edit!ElasticCreds(oldCreds, typedCreds)
        BY <2>1 DEF Edit!Changed
      <3> HIDE DEF typedCreds, oldCreds, new
      <3> QED
        BY <3>1, <3>2, <3>3 DEF CredsTyped, Edit!ElasticCreds, Edit!Secret
    <2>2. CASE editor # "elastic"
      <3>1. new.creds = Edit!NoCreds
        BY <2>2 DEF Edit!Changed
      <3> HIDE DEF new
      <3> QED
        BY <3>1, CredsOfThree DEF Edit!NoCreds, Content
    <2> QED
      BY <2>1, <2>2
  <1> QED
    BY <1>1, <1>2, <1>3, <1>4

LEMMA SaveProfileTyped ==
    ASSUME EditTyped, editor # NoEditor, NEW written \in BOOLEAN,
           Edit!SaveProfile(editor, written)
    PROVE  ProfileTyped(copy') /\ ProfileTyped(disk')
  <1> DEFINE new == Edit!Changed(editor)
             o == Edit!Owner(editor)
  <1>1. editor \in Opened /\ ProfileTyped(copy) /\ ProfileTyped(disk)
    BY DEF EditTyped
  <1>2. copy' = [copy EXCEPT ![o] = new] /\ disk' \in {copy', disk}
    BY DEF Edit!SaveProfile
  <1>3. /\ DOMAIN new.fields = DOMAIN Edit!Fields[editor]
        /\ \A i \in DOMAIN Edit!Fields[editor] : new.fields[i] \in Content
        /\ CredsTyped(new.creds)
    BY ChangedTyped
  <1> HIDE DEF new
  <1>4. DOMAIN copy' = Edit!Owners
    BY <1>1, <1>2 DEF ProfileTyped
  <1>5. ASSUME NEW e \in Opened
        PROVE  /\ DOMAIN copy'[Edit!Owner(e)].fields = DOMAIN Edit!Fields[e]
               /\ \A i \in DOMAIN Edit!Fields[e] : copy'[Edit!Owner(e)].fields[i] \in Content
               /\ CredsTyped(copy'[Edit!Owner(e)].creds)
    <2>1. Edit!Owner(e) \in DOMAIN copy
      BY <1>1 DEF ProfileTyped, Edit!Owners
    <2>2. CASE Edit!Owner(e) = o
      <3>1. copy'[Edit!Owner(e)] = new
        BY <1>2, <2>1, <2>2
      <3>2. Edit!Fields[e] = Edit!Fields[editor]
        BY <1>1, <2>2, SharedFields
      <3> QED
        BY <1>3, <3>1, <3>2
    <2>3. CASE Edit!Owner(e) # o
      <3>1. copy'[Edit!Owner(e)] = copy[Edit!Owner(e)]
        BY <1>2, <2>1, <2>3
      <3> QED
        BY <1>1, <3>1 DEF ProfileTyped
    <2> QED
      BY <2>2, <2>3
  <1>6. ProfileTyped(copy')
    BY <1>4, <1>5 DEF ProfileTyped
  <1> QED
    BY <1>1, <1>2, <1>6

LEMMA FileTyped ==
    ASSUME EditTyped, NEW o \in Edit!Owners, NEW r, CredsTyped(r),
           editFiles' = [editFiles EXCEPT ![o] = r]
    PROVE  /\ DOMAIN editFiles' = Edit!Owners
           /\ \A p \in Edit!Owners : CredsTyped(editFiles'[p])
  BY DEF EditTyped

\* The files of the credentials keep their parts, whichever are written.
LEMMA WriteFilesTyped ==
    ASSUME EditTyped, editor # NoEditor, NEW done, Edit!WriteFiles(editor, done)
    PROVE  /\ DOMAIN editFiles' = Edit!Owners
           /\ \A p \in Edit!Owners : CredsTyped(editFiles'[p])
  <1> DEFINE o == Edit!Owner(editor)
             r == [c \in Edit!Secret |->
                     IF (IF c = "token" THEN "token" ELSE "basic") \in done
                     THEN Edit!TypedCreds(editor)[c] ELSE editFiles[o][c]]
  <1>1. editor \in Opened /\ o \in Edit!Owners
    BY DEF EditTyped, Edit!Owners
  <1>2. CASE done = {}
    BY <1>2 DEF Edit!WriteFiles, EditTyped
  <1>3. CASE done # {}
    <2>1. Edit!HasCreds(editor)
      BY <1>3 DEF Edit!WriteFiles, Edit!Due
    <2>2. editor \in WithSecrets
      BY <1>1, <2>1, EditorKnown, NoSecretFields
    <2>3. CredsTyped(Edit!TypedCreds(editor)) /\ CredsTyped(editFiles[o])
      BY <1>1, <2>2, TypedCredsTyped DEF EditTyped
    <2>4. CredsTyped(r)
      BY <2>3 DEF CredsTyped
    <2>5. editFiles' = [editFiles EXCEPT ![o] = r]
      BY <1>3 DEF Edit!WriteFiles
    <2> HIDE DEF r
    <2> QED
      BY <1>1, <2>4, <2>5, FileTyped
  <1> QED
    BY <1>2, <1>3

\* An editor opens with what a field may contain.
LEMMA ShownTyped ==
    ASSUME EditTyped, NEW e \in Opened, NEW i \in DOMAIN Edit!Fields[e]
    PROVE  Edit!Shown(e, i) \in Content
  <1> DEFINE o == Edit!Owner(e)
  <1>1. o \in Edit!Owners
    BY DEF Edit!Owners
  <1>2. CredsTyped(copy[o].creds) /\ CredsTyped(editFiles[o]) /\ copy[o].fields[i] \in Content
    BY <1>1 DEF EditTyped, ProfileTyped
  <1>3. Edit!Creds(o, copy).user \in Content
    BY <1>2 DEF Edit!Creds, CredsTyped, Edit!Secret
  <1> QED
    BY <1>2, <1>3 DEF Edit!Shown, Content

LEMMA EditTypedNext ==
    ASSUME EditTyped, [Edit!Next]_(Edit!vars) PROVE EditTyped'
  <1> USE DEF Edit!profile, Edit!budget
  <1>1. CASE UNCHANGED Edit!vars
    BY <1>1 DEF Edit!vars, EditTyped, InputsTyped
  <1>2. ASSUME NEW e \in Opened, Edit!Open(e) PROVE EditTyped'
    <2>1. PICK n \in Nat \ {0} : DOMAIN Edit!Fields[e] = 1..n
      BY EditorKnown, FieldsOfPart
    <2>2. /\ inputs' = [i \in DOMAIN Edit!Fields[e] |-> Edit!Shown(e, i)]
          /\ editor' = e /\ index' = 1 /\ e # NoEditor
      BY <1>2, EditorsKnown DEF Edit!Open
    <2>3. inputs' \in Seq(Content) /\ DOMAIN inputs' = 1..n
      <3>1. \A i \in 1..n : Edit!Shown(e, i) \in Content
        BY <2>1, ShownTyped
      <3> QED
        BY <2>1, <2>2, <3>1
    <2>4. InputsTyped'
      BY <2>1, <2>2, <2>3 DEF InputsTyped
    <2>5. opens' \in 0..MaxOpens
      <3>1. opens < MaxOpens /\ opens' = opens + 1 /\ opens \in 0..MaxOpens
        BY <1>2 DEF Edit!Open, EditTyped
      <3> QED
        BY <3>1, EditBounds, CountGoesOn, Zenon
    <2> QED
      BY <1>2, <2>4, <2>5 DEF Edit!Open, EditTyped
  <1>3. CASE Edit!Close
    BY <1>3, EmptyTyped DEF Edit!Close, EditTyped, InputsTyped
  <1>4. CASE Edit!Move
    <2>1. /\ inputs \in Seq(Content) /\ index \in DOMAIN inputs /\ editor # NoEditor
          /\ index' \in {(index % Len(inputs)) + 1,
                         IF index = 1 THEN Len(inputs) ELSE index - 1}
      BY <1>4 DEF Edit!Move, EditTyped, InputsTyped
    <2>2. Len(inputs) \in Nat \ {0} /\ DOMAIN inputs = 1..Len(inputs) /\ index \in 1..Len(inputs)
      BY <2>1
    <2>3. index % Len(inputs) \in 0..(Len(inputs) - 1)
      BY <2>2
    <2>4. index' \in DOMAIN inputs
      BY <2>1, <2>2, <2>3
    <2> QED
      BY <1>4, <2>1, <2>4 DEF Edit!Move, EditTyped, InputsTyped
  <1>5. ASSUME NEW v \in {"", "new", "bad"}, Edit!Type(v) PROVE EditTyped'
    <2>1. /\ inputs \in Seq(Content) /\ editor # NoEditor
          /\ inputs' = [inputs EXCEPT ![index] = v] /\ v \in Content
      BY <1>5 DEF Edit!Type, EditTyped, InputsTyped, Content
    <2>2. inputs' \in Seq(Content) /\ DOMAIN inputs' = DOMAIN inputs
      BY <2>1, PlaceChanged
    <2>3. typed' \in 0..MaxTyped
      <3>1. typed < MaxTyped /\ typed' = typed + 1 /\ typed \in 0..MaxTyped
        BY <1>5 DEF Edit!Type, EditTyped
      <3> QED
        BY <3>1, EditBounds, CountGoesOn, Zenon
    <2> QED
      BY <1>5, <2>1, <2>2, <2>3 DEF Edit!Type, EditTyped, InputsTyped
  <1>6. ASSUME NEW k \in {"token", "basic"}, Edit!Clear(k) PROVE EditTyped'
    <2> DEFINE o == Edit!Owner(editor)
               r == IF k = "token" THEN [editFiles[o] EXCEPT !.token = ""]
                    ELSE [editFiles[o] EXCEPT !.user = "", !.pass = ""]
    <2>1. editor # NoEditor /\ editor \in Opened /\ o \in Edit!Owners
      <3>1. editor \in DOMAIN Edit!Fields
        BY <1>6 DEF Edit!Clear, Edit!Fields
      <3>2. editor # NoEditor
        BY <3>1, EditorsKnown
      <3> QED
        BY <3>1, <3>2 DEF EditTyped, Edit!Owners
    <2>2. CredsTyped(r)
      <3>1. CredsTyped(editFiles[o])
        BY <2>1 DEF EditTyped
      <3> QED
        BY <3>1 DEF CredsTyped, Edit!Secret, Content
    <2>3. editFiles' = [editFiles EXCEPT ![o] = r] \/ editFiles' = editFiles
      BY <1>6 DEF Edit!Clear
    <2> HIDE DEF r
    <2>4. /\ DOMAIN editFiles' = Edit!Owners
          /\ \A p \in Edit!Owners : CredsTyped(editFiles'[p])
      BY <2>1, <2>2, <2>3, FileTyped DEF EditTyped
    <2> QED
      BY <1>6, <2>4 DEF Edit!Clear, EditTyped, InputsTyped
  <1>7. CASE Edit!Apply
    <2>1. editor # NoEditor /\ UNCHANGED <<editor, index, inputs, opens, typed>>
      BY <1>7 DEF Edit!Apply
    <2>2. Edit!SavedMessage(editor) \in {"", "saved", "auto", "invalid", "failed", "cleared"}
      BY DEF Edit!SavedMessage, EditTyped
    <2>3. InputsTyped'
      BY <2>1 DEF EditTyped, InputsTyped
    <2>4. CASE Edit!Refuse(editor)
      BY <2>1, <2>3, <2>4 DEF Edit!Refuse, EditTyped
    <2>5. CASE Edit!Fail(editor)
      <3>1. ProfileTyped(copy') /\ ProfileTyped(disk')
        BY <2>1, <2>5, SaveProfileTyped DEF Edit!Fail, EditTyped
      <3> QED
        BY <2>1, <2>3, <2>5, <3>1 DEF Edit!Fail, EditTyped
    <2>6. CASE Edit!Save(editor)
      <3>1. ProfileTyped(copy') /\ ProfileTyped(disk')
        BY <2>1, <2>6, SaveProfileTyped DEF Edit!Save
      <3>2. /\ DOMAIN editFiles' = Edit!Owners
            /\ \A p \in Edit!Owners : CredsTyped(editFiles'[p])
        BY <2>1, <2>6, WriteFilesTyped DEF Edit!Save
      <3>3. /\ says' \in {Edit!SavedMessage(editor), "failed"}
            /\ test' \in {"ok", "bad", test}
        BY <2>6 DEF Edit!Save
      <3> QED
        BY <2>1, <2>2, <2>3, <3>1, <3>2, <3>3 DEF EditTyped
    <2> QED
      BY <1>7, <2>4, <2>5, <2>6 DEF Edit!Apply
  <1> QED
    BY <1>1, <1>2, <1>3, <1>4, <1>5, <1>6, <1>7 DEF Edit!Next

LEMMA EditTypedInit == Edit!Init => EditTyped
  <1> SUFFICES ASSUME Edit!Init PROVE EditTyped
    OBVIOUS
  <1>1. PICK c \in {Edit!NoCreds, [token |-> "old", user |-> "", pass |-> ""],
                    [token |-> "", user |-> "old", pass |-> "old"]} :
          /\ editFiles = [o \in Edit!Owners |-> IF o = "elastic" THEN Edit!NoCreds ELSE c]
          /\ copy = [o \in Edit!Owners |->
                [fields |-> Edit!Settings(o),
                 creds |-> IF o = "elastic" THEN c ELSE Edit!NoCreds]]
    BY DEF Edit!Init
  <1>2. CredsTyped(c) /\ CredsTyped(Edit!NoCreds)
    BY CredsOfThree DEF Edit!NoCreds, Content
  <1>3. ASSUME NEW e \in Opened
        PROVE  /\ DOMAIN Edit!Settings(Edit!Owner(e)) = DOMAIN Edit!Fields[e]
               /\ \A i \in DOMAIN Edit!Fields[e] : Edit!Settings(Edit!Owner(e))[i] \in Content
    <2> DEFINE d == CHOOSE f \in Opened : Edit!Owner(f) = Edit!Owner(e)
    <2>1. d \in Opened /\ Edit!Owner(d) = Edit!Owner(e)
      OBVIOUS
    <2>2. Edit!Settings(Edit!Owner(e)) =
            [i \in DOMAIN Edit!Fields[d] |->
                IF Edit!Fields[d][i] \in Edit!Secret THEN "" ELSE "old"]
      BY DEF Edit!Settings
    <2> HIDE DEF d
    <2>3. Edit!Fields[d] = Edit!Fields[e]
      BY <2>1, SharedFields
    <2> QED
      BY <2>2, <2>3 DEF Content
  <1>4. ProfileTyped(copy)
    <2>1. \A e \in Opened : Edit!Owner(e) \in Edit!Owners
      BY DEF Edit!Owners
    <2> QED
      BY <1>1, <1>2, <1>3, <2>1 DEF ProfileTyped
  <1>5. InputsTyped
    BY EmptyTyped DEF Edit!Init, InputsTyped
  <1>6. DOMAIN editFiles = Edit!Owners /\ \A o \in Edit!Owners : CredsTyped(editFiles[o])
    BY <1>1, <1>2
  <1>7. opens \in 0..MaxOpens /\ typed \in 0..MaxTyped
    <2>1. opens = 0 /\ typed = 0
      BY DEF Edit!Init
    <2> QED
      BY <2>1, EditBounds, CountStarts, Zenon
  <1> QED
    BY <1>4, <1>5, <1>6, <1>7 DEF Edit!Init, EditTyped

\* The editors hold what their fields may contain and the profile keeps its
\* settings, whichever editors are opened and whichever writes fail
\* (interactive_tui.go).
THEOREM EditTypeCorrect == Edit!Spec => []Edit!TypeOK
  <1>1. EditTyped => Edit!TypeOK
    <2> SUFFICES ASSUME EditTyped PROVE Edit!TypeOK
      OBVIOUS
    <2>1. \A i \in DOMAIN inputs : inputs[i] \in {"", "old", "new", "bad"}
      <3>1. inputs \in Seq(Content)
        BY DEF EditTyped, InputsTyped
      <3>2. \A i \in DOMAIN inputs : inputs[i] \in Content
        BY <3>1
      <3> QED
        BY <3>2 DEF Content
    <2> QED
      BY <2>1 DEF EditTyped, InputsTyped, ProfileTyped, Edit!TypeOK
  <1> QED
    BY <1>1, EditTypedInit, EditTypedNext, PTL DEF Edit!Spec

-----------------------------------------------------------------------------
(***************************************************************************)
(* The numbers of an incident's items are their places, on disk and in     *)
(* every copy that may still be saved.  That is more than that they differ *)
(* from one another, and it survives a save of an older copy, which may    *)
(* have fewer items than the file it replaces.  No copy has more items     *)
(* than were ever added, and none is of an incident that is open and was   *)
(* analysed.                                                               *)
(***************************************************************************)
FollowItems == [seq: Nat, tag: Nat, updated: BOOLEAN]

FollowCommandStates ==
    [phase: Follow!Phases, id: Ids \cup {None}, named: BOOLEAN, seq: Nat,
     copy: Follow!Records \cup {None}, next: {"idle", "ask"}, analysis: Ids \cup {None}]

FollowInOrder(r) == \A j \in DOMAIN r.items : r.items[j].seq = j

\* Of a record, when so many items were added and one was deleted or not.
FollowGood(r, most, lost) ==
    /\ Len(r.items) <= most
    /\ r.analysis # None => ~r.open
    /\ ~lost => FollowInOrder(r)

\* A command is about an incident that exists, and has a copy when it saves.
FollowFits(c, found, most, lost) ==
    /\ c \in FollowCommandStates
    /\ c.phase \notin {"idle", "resolve"} \/ (c.phase = "resolve" /\ c.named) => c.id \in found
    /\ c.phase \in {"write", "save", "sync", "impact"} => c.copy # None
    /\ c.copy # None => FollowGood(c.copy, most, lost)

FollowNumbering ==
    /\ store \in [Ids -> Follow!Records \cup {None}]
    /\ DOMAIN cmd = Procs /\ cmd = [p \in Procs |-> cmd[p]]
    /\ added \in 0..MaxAdded
    /\ \A i \in Follow!Known : FollowGood(store[i], added, deleted)
    /\ \A p \in Procs : FollowFits(cmd[p], Follow!Known, added, deleted)

FollowInv == FollowNumbering /\ followCommands \in 0..MaxCommands /\ deleted \in BOOLEAN

LEMMA FollowBounds ==
    Follow!ConstantsAssumption => /\ MaxAdded \in Nat /\ MaxCommands \in Nat
                                  /\ None \notin Follow!Records /\ None \notin Ids
  BY DEF Follow!ConstantsAssumption

LEMMA FollowIdleFits ==
    ASSUME NEW K, NEW n, NEW d PROVE FollowFits(Follow!Idle, K, n, d)
  BY DEF FollowFits, Follow!Idle, FollowCommandStates, Follow!Phases

LEMMA FollowInvInit == Follow!ConstantsAssumption /\ Follow!Init => FollowInv
  <1> SUFFICES ASSUME Follow!ConstantsAssumption, Follow!Init PROVE FollowInv
    OBVIOUS
  <1>1. Follow!Known = {}
    BY DEF Follow!Init, Follow!Known
  <1>2. added = 0 /\ followCommands = 0
    BY DEF Follow!Init
  <1>3. added \in 0..MaxAdded /\ followCommands \in 0..MaxCommands
    BY <1>2, FollowBounds
  <1> QED
    BY <1>1, <1>3, FollowIdleFits DEF Follow!Init, FollowNumbering, FollowInv

-----------------------------------------------------------------------------
(***************************************************************************)
(* A step moves one command and writes at most one file.                   *)
(***************************************************************************)
FollowWrites(i, r) == store' = [store EXCEPT ![i] = r]

LEMMA FollowKnownGrows ==
    ASSUME Follow!ConstantsAssumption, FollowNumbering, NEW i \in Ids, NEW r \in Follow!Records, FollowWrites(i, r)
    PROVE  Follow!Known' = Follow!Known \cup {i}
  BY DEF Follow!ConstantsAssumption, FollowNumbering, FollowWrites, Follow!Known

\* What is good stays so when items are added or one is deleted.
LEMMA FollowGoodStays ==
    ASSUME NEW r \in Follow!Records, NEW m \in Nat, NEW n \in Nat, m <= n, NEW c, NEW d, c => d,
           FollowGood(r, m, c)
    PROVE  FollowGood(r, n, d)
  <1>1. Len(r.items) \in Nat
    BY DEF Follow!Records
  <1> QED
    BY <1>1 DEF FollowGood

LEMMA FollowStepKeeps ==
    ASSUME Follow!ConstantsAssumption, FollowNumbering, NEW p \in Procs, NEW c,
           FollowFits(c, Follow!Known', added', deleted'), Follow!Goto(p, c),
           added' \in 0..MaxAdded, added <= added', deleted => deleted',
           \/ UNCHANGED store
           \/ \E i \in Ids, r \in Follow!Records :
                 FollowGood(r, added', deleted') /\ FollowWrites(i, r)
    PROVE  FollowNumbering'
  <1>0. added \in Nat /\ added' \in Nat
    BY FollowBounds DEF FollowNumbering
  <1>1. /\ store' \in [Ids -> Follow!Records \cup {None}]
        /\ \A i \in Follow!Known' : FollowGood(store'[i], added', deleted')
        /\ Follow!Known \subseteq Follow!Known'
    <2>0. \A i \in Follow!Known : FollowGood(store[i], added', deleted')
      <3>1. \A i \in Follow!Known : store[i] \in Follow!Records
        BY DEF FollowNumbering, Follow!Known
      <3> QED
        BY <1>0, <3>1, FollowGoodStays DEF FollowNumbering
    <2>1. CASE UNCHANGED store
      BY <2>0, <2>1 DEF FollowNumbering, Follow!Known
    <2>2. ASSUME NEW i \in Ids, NEW r \in Follow!Records, FollowGood(r, added', deleted'),
                 FollowWrites(i, r)
          PROVE  /\ store' \in [Ids -> Follow!Records \cup {None}]
                 /\ \A j \in Follow!Known' : FollowGood(store'[j], added', deleted')
                 /\ Follow!Known \subseteq Follow!Known'
      <3>1. Follow!Known' = Follow!Known \cup {i}
        BY <2>2, FollowKnownGrows
      <3>2. /\ store' \in [Ids -> Follow!Records \cup {None}]
            /\ store'[i] = r /\ \A j \in Ids \ {i} : store'[j] = store[j]
        BY <2>2 DEF FollowNumbering, FollowWrites
      <3>3. \A j \in Follow!Known' : j = i \/ (j \in Follow!Known /\ j \in Ids \ {i})
        BY <3>1 DEF Follow!Known
      <3>4. \A j \in Follow!Known' : FollowGood(store'[j], added', deleted')
        BY <2>0, <2>2, <3>2, <3>3
      <3> QED
        BY <3>1, <3>2, <3>4
    <2> QED
      BY <2>1, <2>2
  <1>2. cmd' = [cmd EXCEPT ![p] = c] /\ cmd = [q \in Procs |-> cmd[q]]
    BY DEF Follow!Goto, FollowNumbering
  <1>3. \A q \in Procs : cmd'[q] = IF q = p THEN c ELSE cmd[q]
    BY <1>2
  <1>4. cmd' = [q \in Procs |-> cmd'[q]] /\ DOMAIN cmd' = Procs
    BY <1>2
  <1>5. ASSUME NEW q \in Procs PROVE FollowFits(cmd'[q], Follow!Known', added', deleted')
    <2>1. CASE q = p
      BY <2>1, <1>3
    <2>2. CASE q # p
      <3>1. FollowFits(cmd[q], Follow!Known, added, deleted)
        BY DEF FollowNumbering
      <3>2. cmd[q].copy # None => FollowGood(cmd[q].copy, added', deleted')
        <4>1. cmd[q].copy # None =>
                 cmd[q].copy \in Follow!Records /\ FollowGood(cmd[q].copy, added, deleted)
          BY <3>1 DEF FollowFits, FollowCommandStates
        <4> QED
          BY <1>0, <4>1, FollowGoodStays
      <3> QED
        BY <2>2, <1>1, <1>3, <3>1, <3>2 DEF FollowFits
    <2> QED
      BY <2>1, <2>2
  <1> QED
    BY <1>1, <1>4, <1>5 DEF FollowNumbering

\* A command that only asks or gives up.
LEMMA FollowMoveKeeps ==
    ASSUME Follow!ConstantsAssumption, FollowNumbering, NEW p \in Procs, NEW c,
           FollowFits(c, Follow!Known, added, deleted), Follow!Goto(p, c),
           UNCHANGED <<store, added, deleted>>
    PROVE  FollowNumbering'
  <1>1. Follow!Known' = Follow!Known /\ added' \in 0..MaxAdded /\ added <= added'
    BY FollowBounds DEF Follow!Known, FollowNumbering
  <1> QED
    BY <1>1, FollowStepKeeps

\* A save, done or failed, of the copy a command holds.
LEMMA FollowSaveKeeps ==
    ASSUME Follow!ConstantsAssumption, FollowNumbering, NEW p \in Procs, NEW c, NEW r,
           cmd[p].id \in Follow!Known, r \in Follow!Records, FollowGood(r, added, deleted),
           store' \in {store, [store EXCEPT ![cmd[p].id] = r]},
           FollowFits(c, Follow!Known, added, deleted), Follow!Goto(p, c),
           UNCHANGED <<added, deleted>>
    PROVE  FollowNumbering'
  <1>1. added' \in 0..MaxAdded /\ added <= added' /\ cmd[p].id \in Ids
    BY FollowBounds DEF FollowNumbering, Follow!Known
  <1>2. CASE UNCHANGED store
    BY <1>2, FollowMoveKeeps
  <1>3. CASE FollowWrites(cmd[p].id, r)
    <2>1. Follow!Known' = Follow!Known
      BY <1>1, <1>3, FollowKnownGrows
    <2> QED
      BY <1>1, <1>3, <2>1, FollowStepKeeps
  <1> QED
    BY <1>2, <1>3 DEF FollowWrites

\* The copy a command makes of a file keeps the order of its items.
LEMMA FollowStoredIsOrdered ==
    ASSUME Follow!ConstantsAssumption, FollowNumbering, NEW i \in Follow!Known
    PROVE  i \in Ids /\ store[i] \in Follow!Records /\ store[i] # None /\ FollowGood(store[i], added, deleted)
  BY DEF Follow!ConstantsAssumption, FollowNumbering, Follow!Known

LEMMA FollowCommandFits ==
    ASSUME FollowNumbering, NEW p \in Procs PROVE FollowFits(cmd[p], Follow!Known, added, deleted)
  BY DEF FollowNumbering

-----------------------------------------------------------------------------
(* One lemma for each action. *)

LEMMA FollowStartKeeps ==
    ASSUME Follow!ConstantsAssumption, FollowNumbering, NEW p \in Procs, NEW i \in Ids, Follow!Start(p, i)
    PROVE  FollowNumbering'
  <1>0. added \in 0..MaxAdded /\ added \in Nat /\ UNCHANGED <<added, deleted>>
    BY FollowBounds DEF FollowNumbering, Follow!Start
  <1>1. Follow!New(i) \in Follow!Records /\ FollowGood(Follow!New(i), added', deleted')
    BY <1>0 DEF Follow!New, Follow!Records, FollowGood, FollowInOrder
  <1>2. FollowWrites(i, Follow!New(i)) /\ Follow!Known' = Follow!Known \cup {i}
    BY <1>1, FollowKnownGrows DEF Follow!Start, FollowWrites
  <1>3. CASE UNCHANGED cmd
    <2>1. Follow!Goto(p, cmd[p])
      BY <1>3 DEF Follow!Goto, FollowNumbering
    <2>2. FollowFits(cmd[p], Follow!Known', added', deleted')
      BY <1>0, <1>2 DEF FollowNumbering, FollowFits
    <2> QED
      BY <1>0, <1>1, <1>2, <2>1, <2>2, FollowStepKeeps
  <1>4. CASE Follow!Goto(p, [Follow!Idle EXCEPT !.phase = "describe", !.id = i])
    <2>1. FollowFits([Follow!Idle EXCEPT !.phase = "describe", !.id = i], Follow!Known', added', deleted')
      BY <1>2 DEF FollowFits, Follow!Idle, FollowCommandStates, Follow!Phases
    <2> QED
      BY <1>0, <1>1, <1>2, <1>4, <2>1, FollowStepKeeps
  <1> QED
    BY <1>3, <1>4 DEF Follow!Start

LEMMA FollowDescribeKeeps ==
    ASSUME Follow!ConstantsAssumption, FollowNumbering, NEW p \in Procs, Follow!Describe(p)
    PROVE  FollowNumbering'
  <1>1. CASE Follow!Goto(p, Follow!Idle)
    BY <1>1, FollowIdleFits, FollowMoveKeeps DEF Follow!Describe
  <1>2. ASSUME NEW i \in Follow!Active,
               Follow!Goto(p, [Follow!Idle EXCEPT !.phase = "write", !.id = i,
                                    !.copy = [store[i] EXCEPT !.notes = @ \cup {cmd[p].id}]])
        PROVE  FollowNumbering'
    <2> DEFINE r == [store[i] EXCEPT !.notes = @ \cup {cmd[p].id}]
    <2>1. i \in Follow!Known /\ cmd[p].id \in Ids
      BY FollowCommandFits DEF Follow!Active, Follow!Describe, FollowFits, Follow!Known
    <2>2. r \in Follow!Records /\ r # None /\ FollowGood(r, added, deleted)
      <3>1. r \in Follow!Records /\ r # None
        BY <2>1, FollowStoredIsOrdered, SMTT(30)
           DEF Follow!Records, Follow!ConstantsAssumption
      <3>2. r.items = store[i].items /\ r.analysis = store[i].analysis /\ r.open = store[i].open
        BY <2>1, FollowStoredIsOrdered DEF Follow!Records
      <3> HIDE DEF r
      <3> QED
        BY <2>1, <3>1, <3>2, FollowStoredIsOrdered DEF FollowGood, FollowInOrder
    <2>3. FollowFits([Follow!Idle EXCEPT !.phase = "write", !.id = i, !.copy = r], Follow!Known, added, deleted)
      BY <2>1, <2>2, FollowStoredIsOrdered
         DEF FollowFits, Follow!Idle, FollowCommandStates, Follow!Phases
    <2> QED
      BY <1>2, <2>3, FollowMoveKeeps DEF Follow!Describe
  <1> QED
    BY <1>1, <1>2 DEF Follow!Describe

LEMMA FollowChooseKeeps ==
    ASSUME Follow!ConstantsAssumption, FollowNumbering, NEW p \in Procs, NEW i \in Ids,
           \/ Follow!ChooseForAdd(p, i)
           \/ \E n \in 1..MaxAdded, what \in {"update", "delete"} : Follow!ChooseItem(p, i, n, what)
    PROVE  FollowNumbering'
  <1>1. i \in Follow!Known
    BY DEF Follow!ChooseForAdd, Follow!ChooseItem
  <1>2. store[i] \in Follow!Records /\ FollowGood(store[i], added, deleted)
    BY <1>1, FollowStoredIsOrdered
  <1>3. CASE Follow!ChooseForAdd(p, i)
    <2>1. FollowFits([Follow!Idle EXCEPT !.phase = "add", !.id = i, !.copy = store[i]], Follow!Known, added, deleted)
      BY <1>1, <1>2 DEF FollowFits, Follow!Idle, FollowCommandStates, Follow!Phases
    <2> QED
      BY <1>3, <2>1, FollowMoveKeeps DEF Follow!ChooseForAdd
  <1>4. ASSUME NEW n \in 1..MaxAdded, NEW what \in {"update", "delete"},
               Follow!ChooseItem(p, i, n, what)
        PROVE  FollowNumbering'
    <2>1. store[i].items[n].seq \in Nat
      <3>1. store[i].items \in Seq(FollowItems) /\ n \in DOMAIN store[i].items
        BY <1>2, <1>4 DEF Follow!ChooseItem, Follow!Records, FollowItems
      <3>2. store[i].items[n] \in FollowItems
        BY <3>1
      <3> QED
        BY <3>2 DEF FollowItems
    <2>2. FollowFits([Follow!Idle EXCEPT !.phase = what, !.id = i, !.seq = store[i].items[n].seq,
                            !.copy = store[i]], Follow!Known, added, deleted)
      BY <1>1, <1>2, <2>1 DEF FollowFits, Follow!Idle, FollowCommandStates, Follow!Phases
    <2> QED
      BY <1>4, <2>2, FollowMoveKeeps DEF Follow!ChooseItem
  <1> QED
    BY <1>3, <1>4

\* An item is added with the number of its place.
LEMMA FollowAddKeeps ==
    ASSUME Follow!ConstantsAssumption, FollowNumbering, NEW p \in Procs, Follow!AddActionItem(p)
    PROVE  FollowNumbering'
  <1> DEFINE i == cmd[p].id
             old == store[i].items
             item == Follow!Item(Len(old) + 1, added + 1)
             r == [store[i] EXCEPT !.items = Append(old, item)]
  <1>1. i \in Follow!Known /\ cmd[p] \in FollowCommandStates
    BY FollowCommandFits DEF Follow!AddActionItem, FollowFits
  <1>2. store[i] \in Follow!Records /\ FollowGood(store[i], added, deleted)
    BY <1>1, FollowStoredIsOrdered
  <1>3. old \in Seq(FollowItems) /\ item \in FollowItems /\ added \in Nat
    BY <1>2, FollowBounds DEF Follow!Records, FollowItems, Follow!Item, FollowNumbering
  <1>4. /\ Append(old, item) \in Seq(FollowItems)
        /\ Len(Append(old, item)) <= added + 1
        /\ ~deleted => \A j \in DOMAIN Append(old, item) : Append(old, item)[j].seq = j
    BY <1>2, <1>3 DEF FollowGood, FollowInOrder, Follow!Item
  <1>5. r \in Follow!Records /\ r # None /\ FollowGood(r, added + 1, deleted)
    <2>1. r \in Follow!Records /\ r # None
      BY <1>2, <1>4 DEF Follow!Records, FollowItems, Follow!ConstantsAssumption
    <2>2. /\ r.items = Append(old, item)
          /\ r.analysis = store[i].analysis /\ r.open = store[i].open
      BY <1>2 DEF Follow!Records
    <2> HIDE DEF r, old, item
    <2> QED
      BY <1>2, <1>4, <2>1, <2>2 DEF FollowGood, FollowInOrder
  <1>6. FollowFits([cmd[p] EXCEPT !.phase = "write", !.copy = r], Follow!Known, added + 1, deleted)
    BY <1>1, <1>5 DEF FollowFits, FollowCommandStates, Follow!Phases
  <1>7. /\ Follow!Goto(p, [cmd[p] EXCEPT !.phase = "write", !.copy = r])
        /\ added' = added + 1 /\ UNCHANGED <<store, deleted>> /\ added < MaxAdded
    BY DEF Follow!AddActionItem, Follow!Write, Follow!Sequence
  <1>8. added' \in 0..MaxAdded /\ added <= added' /\ Follow!Known' = Follow!Known
    BY <1>3, <1>7, FollowBounds DEF Follow!Known
  <1> HIDE DEF r
  <1> QED
    BY <1>6, <1>7, <1>8, FollowStepKeeps

LEMMA FollowUpdatedInOrder ==
    ASSUME NEW q \in Seq(FollowItems), NEW k
    PROVE  LET u == [q EXCEPT ![k].updated = TRUE]
           IN /\ u \in Seq(FollowItems) /\ DOMAIN u = DOMAIN q /\ Len(u) = Len(q)
              /\ \A j \in DOMAIN u : u[j].seq = q[j].seq
  <1> DEFINE u == [q EXCEPT ![k].updated = TRUE]
  <1>1. DOMAIN u = 1..Len(q) /\ Len(q) \in Nat /\ DOMAIN q = 1..Len(q)
    OBVIOUS
  <1>2. ASSUME NEW j \in 1..Len(q) PROVE u[j] \in FollowItems /\ u[j].seq = q[j].seq
    <2>1. q[j] \in FollowItems
      BY <1>1, <1>2
    <2>2. CASE j = k
      <3>1. u[j] = [q[j] EXCEPT !.updated = TRUE]
        BY <1>1, <2>2
      <3> QED
        BY <2>1, <3>1 DEF FollowItems
    <2>3. CASE j # k
      <3>1. u[j] = q[j]
        BY <1>1, <2>3
      <3> QED
        BY <2>1, <3>1
    <2> QED
      BY <2>2, <2>3
  <1>3. u = [j \in 1..Len(q) |-> u[j]]
    BY <1>1
  <1> HIDE DEF u
  <1>4. u \in Seq(FollowItems)
    BY <1>1, <1>2, <1>3
  <1>5. /\ u \in Seq(FollowItems) /\ DOMAIN u = DOMAIN q /\ Len(u) = Len(q)
        /\ \A j \in DOMAIN u : u[j].seq = q[j].seq
    BY <1>1, <1>2, <1>4
  <1> QED
    BY <1>5 DEF u

\* An update leaves the number of the item.
LEMMA FollowUpdateKeeps ==
    ASSUME Follow!ConstantsAssumption, FollowNumbering, NEW p \in Procs, Follow!UpdateActionItem(p)
    PROVE  FollowNumbering'
  <1>1. CASE Follow!Goto(p, Follow!Idle)
    BY <1>1, FollowIdleFits, FollowMoveKeeps DEF Follow!UpdateActionItem
  <1>2. ASSUME NEW k, k = CHOOSE x \in Follow!Numbered(store[cmd[p].id], cmd[p].seq) :
                            \A j \in Follow!Numbered(store[cmd[p].id], cmd[p].seq) : x <= j,
               Follow!Write(p, [store[cmd[p].id] EXCEPT !.items[k].updated = TRUE])
        PROVE  FollowNumbering'
    <2> DEFINE i == cmd[p].id
               r == [store[i] EXCEPT !.items[k].updated = TRUE]
    <2>1. i \in Follow!Known /\ cmd[p] \in FollowCommandStates
      BY FollowCommandFits DEF Follow!UpdateActionItem, FollowFits
    <2>2. store[i] \in Follow!Records /\ FollowGood(store[i], added, deleted)
      BY <2>1, FollowStoredIsOrdered
    <2>3. store[i].items \in Seq(FollowItems)
      BY <2>2 DEF Follow!Records, FollowItems
    <2> DEFINE u == [store[i].items EXCEPT ![k].updated = TRUE]
    <2>4. r = [store[i] EXCEPT !.items = u]
      BY <2>2 DEF Follow!Records
    <2>6. /\ u \in Seq(FollowItems) /\ Len(u) <= added
          /\ ~deleted => \A j \in DOMAIN u : u[j].seq = j
      <3>1. /\ u \in Seq(FollowItems) /\ Len(u) = Len(store[i].items)
            /\ DOMAIN u = DOMAIN store[i].items
            /\ \A j \in DOMAIN u : u[j].seq = store[i].items[j].seq
        BY <2>3, FollowUpdatedInOrder
      <3> HIDE DEF u
      <3> QED
        BY <2>2, <3>1 DEF FollowGood, FollowInOrder
    <2> HIDE DEF u
    <2>5. r \in Follow!Records /\ r # None /\ FollowGood(r, added, deleted)
      <3>1. /\ r \in Follow!Records /\ r.items = u
            /\ r.analysis = store[i].analysis /\ r.open = store[i].open
        BY <2>2, <2>4, <2>6 DEF Follow!Records, FollowItems
      <3> HIDE DEF r
      <3> QED
        BY <2>2, <2>6, <3>1 DEF FollowGood, FollowInOrder, Follow!ConstantsAssumption
    <2>7. FollowFits([cmd[p] EXCEPT !.phase = "write", !.copy = r], Follow!Known, added, deleted)
      BY <2>1, <2>5 DEF FollowFits, FollowCommandStates, Follow!Phases
    <2> QED
      BY <1>2, <2>7, FollowMoveKeeps DEF Follow!Write, Follow!UpdateActionItem
  <1> QED
    BY <1>1, <1>2 DEF Follow!UpdateActionItem

\* A deletion leaves no more items than there were; of their numbers nothing
\* is said from then on.
LEMMA FollowDeleteKeeps ==
    ASSUME Follow!ConstantsAssumption, FollowNumbering, NEW p \in Procs,
           Follow!DeleteActionItem(p), deleted \in BOOLEAN
    PROVE  FollowNumbering'
  <1> DEFINE i == cmd[p].id
             gone == Follow!Numbered(store[i], cmd[p].seq)
             kept == Selected(store[i].items, DOMAIN store[i].items \ gone)
             r == [store[i] EXCEPT !.items = kept]
             c == [cmd[p] EXCEPT !.phase = "write", !.copy = r]
  <1>1. added' = added /\ UNCHANGED store
    BY DEF Follow!DeleteActionItem
  <1>2. CASE Follow!Goto(p, Follow!Idle) /\ UNCHANGED deleted
    BY <1>1, <1>2, FollowIdleFits, FollowMoveKeeps
  <1>3. CASE Follow!Goto(p, c) /\ deleted' = TRUE
    <2>1. i \in Follow!Known /\ cmd[p] \in FollowCommandStates
      BY FollowCommandFits DEF Follow!DeleteActionItem, FollowFits
    <2>2. store[i] \in Follow!Records /\ FollowGood(store[i], added, deleted)
      BY <2>1, FollowStoredIsOrdered
    <2>3. store[i].items \in Seq(FollowItems)
      BY <2>2 DEF Follow!Records, FollowItems
    <2>4. kept \in Seq(FollowItems) /\ Len(kept) <= Len(store[i].items)
      BY <2>3, SelectedTyped
    <2>5. added \in 0..MaxAdded /\ added \in Nat
      BY FollowBounds DEF FollowNumbering
    <2> HIDE DEF kept
    <2>6. r \in Follow!Records /\ r # None
      BY <2>2, <2>4 DEF Follow!Records, FollowItems, Follow!ConstantsAssumption
    <2>7. FollowGood(r, added, TRUE)
      <3>1. r.items = kept /\ r.analysis = store[i].analysis /\ r.open = store[i].open
        BY <2>2 DEF Follow!Records
      <3>2. Len(kept) \in Nat /\ Len(store[i].items) \in Nat
        BY <2>3, <2>4
      <3> HIDE DEF r
      <3> QED
        BY <2>2, <2>4, <2>5, <3>1, <3>2 DEF FollowGood
    <2> HIDE DEF r
    <2>8. FollowFits(c, Follow!Known, added, TRUE)
      BY <2>1, <2>6, <2>7 DEF FollowFits, FollowCommandStates, Follow!Phases
    <2>9. Follow!Known' = Follow!Known
      BY <1>1 DEF Follow!Known
    <2> HIDE DEF c
    <2>10. FollowFits(c, Follow!Known', added', deleted')
      BY <1>1, <1>3, <2>8, <2>9
    <2>11. added' \in 0..MaxAdded /\ added <= added'
      BY <1>1, <2>5
    <2> QED
      BY <1>1, <1>3, <2>10, <2>11, FollowStepKeeps
  <1> QED
    <2>1. \A s, P : Follow!Selected(s, P) = Selected(s, P)
      BY FollowSelected
    <2>2. \/ Follow!Goto(p, Follow!Idle) /\ UNCHANGED deleted
          \/ Follow!Goto(p, c) /\ deleted' = TRUE
      BY <2>1 DEF Follow!DeleteActionItem, Follow!Write
    <2> QED
      BY <1>2, <1>3, <2>2

LEMMA FollowWriteKeeps ==
    ASSUME Follow!ConstantsAssumption, FollowNumbering, NEW p \in Procs, Follow!Save(p)
    PROVE  FollowNumbering'
  <1> DEFINE on == [Follow!Idle EXCEPT !.phase = cmd[p].next, !.id = cmd[p].id, !.copy = cmd[p].copy]
  <1>1. /\ cmd[p] \in FollowCommandStates /\ cmd[p].id \in Follow!Known
        /\ cmd[p].copy \in Follow!Records /\ FollowGood(cmd[p].copy, added, deleted)
    BY FollowCommandFits DEF Follow!Save, FollowFits, FollowCommandStates
  <1>2. FollowFits(Follow!Idle, Follow!Known, added, deleted) /\ FollowFits(on, Follow!Known, added, deleted)
    BY <1>1, FollowIdleFits DEF FollowFits, Follow!Idle, FollowCommandStates, Follow!Phases
  <1>3. Follow!Goto(p, Follow!Idle) \/ Follow!Goto(p, on)
    BY DEF Follow!Save
  <1> HIDE DEF on
  <1> QED
    BY <1>1, <1>2, <1>3, FollowSaveKeeps DEF Follow!Save

LEMMA FollowBeginResolveKeeps ==
    ASSUME Follow!ConstantsAssumption, FollowNumbering, NEW p \in Procs, NEW i \in Ids \cup {None},
           NEW named \in BOOLEAN, Follow!BeginResolve(p, i, named)
    PROVE  FollowNumbering'
  <1> DEFINE c == [Follow!Idle EXCEPT !.phase = "resolve", !.id = i, !.named = named, !.analysis = i]
  <1>1. named => i \in Follow!Known
    BY DEF Follow!BeginResolve
  <1>2. FollowFits(c, Follow!Known, added, deleted)
    BY <1>1 DEF FollowFits, Follow!Idle, FollowCommandStates, Follow!Phases
  <1> QED
    BY <1>2, FollowMoveKeeps DEF Follow!BeginResolve

LEMMA FollowResolveKeeps ==
    ASSUME Follow!ConstantsAssumption, FollowNumbering, NEW p \in Procs, Follow!Resolve(p)
    PROVE  FollowNumbering'
  <1>1. CASE Follow!Goto(p, Follow!Idle)
    BY <1>1, FollowIdleFits, FollowMoveKeeps DEF Follow!Resolve
  <1>2. ASSUME NEW i, store[i].open,
               i \in IF cmd[p].named THEN {cmd[p].id} ELSE {x \in Follow!Active : Follow!OnlyActive(x)},
               Follow!Goto(p, [cmd[p] EXCEPT !.phase = "save", !.id = i,
                          !.copy = [store[i] EXCEPT !.open = FALSE,
                                                    !.analysis = cmd[p].analysis]])
        PROVE  FollowNumbering'
    <2> DEFINE r == [store[i] EXCEPT !.open = FALSE, !.analysis = cmd[p].analysis]
    <2>1. cmd[p] \in FollowCommandStates /\ i \in Follow!Known
      BY <1>2, FollowCommandFits DEF Follow!Resolve, FollowFits, Follow!Active
    <2>2. store[i] \in Follow!Records /\ FollowGood(store[i], added, deleted)
      BY <2>1, FollowStoredIsOrdered
    <2>3. r \in Follow!Records /\ r # None /\ FollowGood(r, added, deleted)
      BY <2>1, <2>2
         DEF Follow!Records, FollowCommandStates, FollowGood, FollowInOrder,
             Follow!ConstantsAssumption
    <2>4. i \in Ids
      BY <2>1 DEF Follow!Known
    <2> HIDE DEF r
    <2>5. FollowFits([cmd[p] EXCEPT !.phase = "save", !.id = i, !.copy = r], Follow!Known, added, deleted)
      BY <2>1, <2>3, <2>4 DEF FollowFits, FollowCommandStates, Follow!Phases
    <2> QED
      BY <1>2, <2>5, FollowMoveKeeps DEF Follow!Resolve, r
  <1> QED
    BY <1>1, <1>2 DEF Follow!Resolve

LEMMA FollowSaveResolvedKeeps ==
    ASSUME Follow!ConstantsAssumption, FollowNumbering, NEW p \in Procs, Follow!SaveResolved(p)
    PROVE  FollowNumbering'
  <1> DEFINE on == [cmd[p] EXCEPT !.phase = "sync"]
  <1>1. /\ cmd[p] \in FollowCommandStates /\ cmd[p].id \in Follow!Known
        /\ cmd[p].copy \in Follow!Records /\ FollowGood(cmd[p].copy, added, deleted) /\ cmd[p].copy # None
    BY FollowCommandFits DEF Follow!SaveResolved, FollowFits, FollowCommandStates
  <1>2. FollowFits(Follow!Idle, Follow!Known, added, deleted) /\ FollowFits(on, Follow!Known, added, deleted)
    BY <1>1, FollowIdleFits DEF FollowFits, FollowCommandStates, Follow!Phases
  <1>3. Follow!Goto(p, Follow!Idle) \/ Follow!Goto(p, on)
    BY DEF Follow!SaveResolved
  <1> HIDE DEF on
  <1> QED
    BY <1>1, <1>2, <1>3, FollowSaveKeeps DEF Follow!SaveResolved

LEMMA FollowFinalSyncKeeps ==
    ASSUME Follow!ConstantsAssumption, FollowNumbering, NEW p \in Procs, Follow!PerformFinalSync(p)
    PROVE  FollowNumbering'
  <1>1. /\ cmd[p] \in FollowCommandStates /\ cmd[p].id \in Follow!Known
        /\ cmd[p].copy \in Follow!Records /\ FollowGood(cmd[p].copy, added, deleted) /\ cmd[p].copy # None
    BY FollowCommandFits DEF Follow!PerformFinalSync, FollowFits, FollowCommandStates
  <1>2. PICK phase \in {"impact", "ask"} : Follow!Goto(p, [cmd[p] EXCEPT !.phase = phase])
    BY DEF Follow!PerformFinalSync
  <1>3. FollowFits([cmd[p] EXCEPT !.phase = phase], Follow!Known, added, deleted)
    BY <1>1 DEF FollowFits, FollowCommandStates, Follow!Phases
  <1> QED
    BY <1>1, <1>2, <1>3, FollowSaveKeeps DEF Follow!PerformFinalSync

LEMMA FollowSaveImpactKeeps ==
    ASSUME Follow!ConstantsAssumption, FollowNumbering, NEW p \in Procs, Follow!SaveImpact(p)
    PROVE  FollowNumbering'
  <1> DEFINE r == [cmd[p].copy EXCEPT !.impact = TRUE]
             on == [cmd[p] EXCEPT !.phase = "ask"]
  <1>1. /\ cmd[p] \in FollowCommandStates /\ cmd[p].id \in Follow!Known
        /\ cmd[p].copy \in Follow!Records /\ FollowGood(cmd[p].copy, added, deleted)
    BY FollowCommandFits DEF Follow!SaveImpact, FollowFits, FollowCommandStates
  <1>2. r \in Follow!Records /\ FollowGood(r, added, deleted)
    BY <1>1 DEF Follow!Records, FollowGood, FollowInOrder
  <1>3. FollowFits(on, Follow!Known, added, deleted)
    BY <1>1 DEF FollowFits, FollowCommandStates, Follow!Phases
  <1>4. /\ store' \in {store, [store EXCEPT ![cmd[p].id] = r]}
        /\ Follow!Goto(p, on) /\ UNCHANGED <<added, deleted>>
    BY DEF Follow!SaveImpact
  <1> HIDE DEF r, on
  <1> QED
    BY <1>1, <1>2, <1>3, <1>4, FollowSaveKeeps

LEMMA FollowAddAnotherKeeps ==
    ASSUME Follow!ConstantsAssumption, FollowNumbering, NEW p \in Procs, Follow!AddAnother(p)
    PROVE  FollowNumbering'
  <1> DEFINE on == [Follow!Idle EXCEPT !.phase = "add", !.id = cmd[p].id, !.copy = cmd[p].copy,
                                !.next = "ask"]
  <1>1. /\ cmd[p] \in FollowCommandStates /\ cmd[p].id \in Follow!Known
        /\ cmd[p].copy # None => FollowGood(cmd[p].copy, added, deleted)
    BY FollowCommandFits DEF Follow!AddAnother, FollowFits, FollowCommandStates
  <1>2. FollowFits(on, Follow!Known, added, deleted)
    BY <1>1 DEF FollowFits, Follow!Idle, FollowCommandStates, Follow!Phases
  <1> QED
    BY <1>2, FollowMoveKeeps DEF Follow!AddAnother

-----------------------------------------------------------------------------
LEMMA FollowInvNext ==
    Follow!ConstantsAssumption /\ FollowInv /\ [Follow!Next]_(Follow!vars) => FollowInv'
  <1> SUFFICES ASSUME Follow!ConstantsAssumption, FollowInv, [Follow!Next]_(Follow!vars)
               PROVE  FollowInv'
    OBVIOUS
  <1>0. FollowNumbering /\ deleted \in BOOLEAN /\ followCommands \in 0..MaxCommands
    BY DEF FollowInv
  <1>1. CASE UNCHANGED Follow!vars
    BY <1>1 DEF Follow!vars, FollowInv, FollowNumbering, Follow!Known
  <1>2. ASSUME NEW p \in Procs, \/ Follow!Describe(p) \/ Follow!AddActionItem(p) \/ Follow!UpdateActionItem(p)
                                \/ Follow!DeleteActionItem(p) \/ Follow!Save(p) \/ Follow!Resolve(p)
                                \/ Follow!SaveResolved(p) \/ Follow!PerformFinalSync(p)
                                \/ Follow!SaveImpact(p) \/ Follow!AddAnother(p) \/ Follow!GiveUp(p)
        PROVE  FollowInv'
    <2>1. UNCHANGED followCommands /\ deleted' \in {deleted, TRUE}
      BY <1>2
         DEF Follow!Describe, Follow!AddActionItem, Follow!UpdateActionItem,
             Follow!DeleteActionItem, Follow!Save, Follow!Resolve, Follow!SaveResolved,
             Follow!PerformFinalSync, Follow!SaveImpact, Follow!AddAnother, Follow!GiveUp
    <2>2. ASSUME Follow!GiveUp(p) PROVE FollowNumbering'
      BY <1>0, <2>2, FollowIdleFits, FollowMoveKeeps DEF Follow!GiveUp
    <2>3. FollowNumbering'
      BY <1>0, <1>2, <2>2, FollowDescribeKeeps, FollowAddKeeps, FollowUpdateKeeps,
         FollowDeleteKeeps, FollowWriteKeeps, FollowResolveKeeps, FollowSaveResolvedKeeps,
         FollowFinalSyncKeeps, FollowSaveImpactKeeps, FollowAddAnotherKeeps
    <2> QED
      BY <1>0, <2>1, <2>3 DEF FollowInv
  <1>3. ASSUME NEW p \in Procs,
               \/ \E i \in Ids :
                     \/ Follow!Start(p, i) \/ Follow!ChooseForAdd(p, i)
                     \/ \E n \in 1..MaxAdded, what \in {"update", "delete"} :
                           Follow!ChooseItem(p, i, n, what)
               \/ \E i \in Ids \cup {None}, named \in BOOLEAN : Follow!BeginResolve(p, i, named)
        PROVE  FollowInv'
    <2>1. Follow!Give(p) /\ UNCHANGED deleted
      BY <1>3 DEF Follow!Start, Follow!ChooseForAdd, Follow!ChooseItem, Follow!BeginResolve
    <2>2. followCommands' \in 0..MaxCommands
      <3>1. followCommands < MaxCommands /\ followCommands' = followCommands + 1
        BY <2>1 DEF Follow!Give
      <3> QED
        BY <1>0, <3>1, FollowBounds
    <2>3. FollowNumbering'
      BY <1>0, <1>3, FollowStartKeeps, FollowChooseKeeps, FollowBeginResolveKeeps
    <2> QED
      BY <1>0, <2>1, <2>2, <2>3 DEF FollowInv
  <1> QED
    BY <1>1, <1>2, <1>3 DEF Follow!Next

LEMMA FollowAlways == Follow!Spec => []FollowInv
  <1> USE FollowAssumption
  <1> QED
    BY FollowInvInit, FollowInvNext, PTL DEF Follow!Spec

\* The commands that finish an incident write what its file may hold: no more
\* items than were added, and no analysis of an incident that is open
\* (incident/service.go).
THEOREM FollowTypeCorrect == Follow!Spec => []Follow!TypeOK
  <1>1. FollowInv => Follow!TypeOK
    <2> SUFFICES ASSUME FollowInv PROVE Follow!TypeOK
      OBVIOUS
    <2>1. ASSUME NEW p \in Procs
          PROVE  /\ cmd[p].phase \in Follow!Phases
                 /\ cmd[p].phase \notin {"idle", "resolve"} => cmd[p].id \in Follow!Known
      BY FollowCommandFits DEF FollowInv, FollowFits, FollowCommandStates
    <2>2. ASSUME NEW i \in Follow!Known
          PROVE  /\ Len(store[i].items) <= MaxAdded /\ store[i].notes \subseteq Ids
                 /\ store[i].analysis # None => ~store[i].open
      <3>1. store[i] \in Follow!Records /\ FollowGood(store[i], added, deleted)
        BY FollowStoredIsOrdered, FollowAssumption DEF FollowInv
      <3>2. Len(store[i].items) \in Nat /\ store[i].notes \subseteq Ids
        BY <3>1 DEF Follow!Records
      <3>3. added <= MaxAdded /\ added \in Nat /\ MaxAdded \in Nat
        BY FollowBounds, FollowAssumption DEF FollowInv, FollowNumbering
      <3> QED
        BY <3>1, <3>2, <3>3 DEF FollowGood
    <2> QED
      BY <2>1, <2>2 DEF FollowInv, FollowNumbering, Follow!TypeOK
  <1> QED
    BY <1>1, FollowAlways, PTL

(***************************************************************************)
(* Until an item is deleted no two items of an incident have one ID,       *)
(* whatever number of commands overwrite each other's copies.              *)
(***************************************************************************)
THEOREM ItemsUnique == Follow!Spec => []UniqueUntilDeleted
  <1>1. FollowInv => UniqueUntilDeleted
    BY DEF FollowInv, FollowNumbering, FollowGood, FollowInOrder, UniqueUntilDeleted,
           Follow!UniqueUntilDeleted, Follow!ActionItemIdsUnique
  <1> QED
    BY <1>1, FollowAlways, PTL

-----------------------------------------------------------------------------
(***************************************************************************)
(* The daemons of the predictor.  A scan that is about to announce has     *)
(* looked at the memory of its daemon and at the disk; nothing that comes  *)
(* between the look and the announcement makes them say more, as long as   *)
(* one daemon is up at a time.                                             *)
(***************************************************************************)

ScanStates ==
    [phase : {"done", "scan", "notify", "persist"}, pattern : Predict!Patterns \cup {None},
     at : Nat]

Announces(d, s) == scans[d][s].phase \in {"notify", "persist"}

PredictTyped ==
    /\ Predict!TypeOK
    /\ known \in [Daemons -> SUBSET Past]
    /\ last \in [Daemons -> [Services -> Nat \cup {None}]]
    /\ scans \in [Daemons -> [Services -> ScanStates]]
    /\ said \subseteq [id : Nat, by : Daemons, service : Services, pattern : Predict!Patterns,
                       at : Nat]
    /\ predictDisk \subseteq [id : Nat, service : Services, pattern : Predict!Patterns, at : Nat]
    /\ \A d \in Daemons, s \in Services : Announces(d, s) => scans[d][s].pattern \in Predict!Patterns

\* Announcements are told apart by their numbers.
Numbered ==
    /\ IsFiniteSet(said) /\ \A a \in said : a.id < Cardinality(said)
    /\ \A a, b \in said : a.id = b.id => a = b

\* What was announced is in the memory of the daemon, and what is on disk was
\* announced before it got there.
Remembered ==
    /\ \A a \in said : last[a.by][a.service] \in Nat /\ a.at <= last[a.by][a.service]
    /\ \A d \in Daemons, s \in Services :
          Announces(d, s) => last[d][s] \in Nat /\ scans[d][s].at <= last[d][s]
    /\ \A p \in predictDisk : \E a \in said :
          a.id = p.id /\ a.service = p.service /\ a.pattern = p.pattern /\ a.at <= p.at

OneUp == ~predictOverlapped => \A d, e \in Daemons : life[d] = "up" /\ life[e] = "up" => d = e

OnDisk(a) == \E p \in predictDisk : p.id = a.id

\* What holds of an announcement that is on its way, and of each one before it.
Spaced(d, s, a) ==
    /\ a.by = d => scans[d][s].at - a.at >= Quiet
    /\ ~predictOverlapped /\ a.pattern = scans[d][s].pattern /\ OnDisk(a) => scans[d][s].at - a.at > Quiet

Looked ==
    \A d \in Daemons, s \in Services, a \in said :
        scans[d][s].phase = "notify" /\ a.service = s => Spaced(d, s, a)

\* The step of one scan leaves the others alone.
LEMMA ScannedAlone ==
    ASSUME scans \in [Daemons -> [Services -> ScanStates]],
           NEW d \in Daemons, NEW s \in Services, NEW scan \in ScanStates,
           Predict!Scanned(d, s, scan)
    PROVE  /\ scans' \in [Daemons -> [Services -> ScanStates]]
           /\ scans'[d][s] = scan
           /\ \A e \in Daemons, t \in Services : e # d \/ t # s => scans'[e][t] = scans[e][t]
  <1> HIDE DEF ScanStates
  <1> QED
    BY DEF Predict!Scanned

LEMMA Restless ==
    /\ [Predict!Done EXCEPT !.phase = "scan"] \in ScanStates
    /\ [Predict!Done EXCEPT !.phase = "scan"].phase = "scan"
    /\ Predict!Done \in ScanStates /\ Predict!Done.phase = "done"
  BY DEF ScanStates, Predict!Done

\* What a step of one daemon leaves to show of its scans.
LEMMA ScansOfOne ==
    ASSUME PredictTyped, NEW d \in Daemons,
           scans' \in [Daemons -> [Services -> ScanStates]],
           \A e \in Daemons, t \in Services : e # d => scans'[e][t] = scans[e][t],
           \A e \in Daemons : e # d => life'[e] = life[e],
           \A t \in Services :
              /\ scans'[d][t].phase # "done" => life'[d] = "up"
              /\ scans'[d][t].phase \in {"notify", "persist"} => scans'[d][t].pattern \in Predict!Patterns
    PROVE  \A e \in Daemons, t \in Services :
              /\ scans'[e][t].phase \in {"done", "scan", "notify", "persist"}
              /\ scans'[e][t].phase # "done" => life'[e] = "up"
              /\ Announces(e, t)' => scans'[e][t].pattern \in Predict!Patterns
  <1> SUFFICES ASSUME NEW e \in Daemons, NEW t \in Services
               PROVE  /\ scans'[e][t].phase \in {"done", "scan", "notify", "persist"}
                      /\ scans'[e][t].phase # "done" => life'[e] = "up"
                      /\ Announces(e, t)' => scans'[e][t].pattern \in Predict!Patterns
    OBVIOUS
  <1>1. scans'[e][t] \in ScanStates
    <2> HIDE DEF ScanStates
    <2> QED
      OBVIOUS
  <1>2. scans'[e][t].phase \in {"done", "scan", "notify", "persist"}
    BY <1>1 DEF ScanStates
  <1>3. CASE e = d
    BY <1>2, <1>3 DEF Announces
  <1>4. CASE e # d
    <2>1. scans'[e][t] = scans[e][t] /\ life'[e] = life[e]
      BY <1>4
    <2>2. /\ scans[e][t].phase # "done" => life[e] = "up"
          /\ Announces(e, t) => scans[e][t].pattern \in Predict!Patterns
      BY DEF PredictTyped, Predict!TypeOK
    <2> QED
      BY <1>2, <2>1, <2>2 DEF Announces
  <1> QED
    BY <1>3, <1>4

LEMMA OneScan ==
    ASSUME PredictTyped, NEW d \in Daemons, NEW s \in Services,
           scans' \in [Daemons -> [Services -> ScanStates]],
           \A e \in Daemons, t \in Services : e # d \/ t # s => scans'[e][t] = scans[e][t],
           life' = life, life[d] = "up",
           scans'[d][s].phase \in {"notify", "persist"} =>
              scans'[d][s].pattern \in Predict!Patterns
    PROVE  \A e \in Daemons, t \in Services :
              /\ scans'[e][t].phase \in {"done", "scan", "notify", "persist"}
              /\ scans'[e][t].phase # "done" => life'[e] = "up"
              /\ Announces(e, t)' => scans'[e][t].pattern \in Predict!Patterns
  <1>1. ASSUME NEW t \in Services
        PROVE  /\ scans'[d][t].phase # "done" => life'[d] = "up"
               /\ scans'[d][t].phase \in {"notify", "persist"} =>
                     scans'[d][t].pattern \in Predict!Patterns
    <2>1. CASE t = s
      BY <2>1
    <2>2. CASE t # s
      <3>1. scans'[d][t] = scans[d][t]
        BY <2>2
      <3>2. Announces(d, t) => scans[d][t].pattern \in Predict!Patterns
        BY DEF PredictTyped
      <3> QED
        BY <3>1, <3>2 DEF Announces
    <2> QED
      BY <2>1, <2>2
  <1>2. \A e \in Daemons, t \in Services : e # d => scans'[e][t] = scans[e][t]
    OBVIOUS
  <1>3. \A e \in Daemons : e # d => life'[e] = life[e]
    OBVIOUS
  <1> QED
    BY <1>1, <1>2, <1>3, ScansOfOne

LEMMA PredictTypedNext ==
    ASSUME Predict!ConstantsAssumption, PredictTyped, Numbered, Remembered,
           [Predict!Next]_(Predict!vars)
    PROVE  PredictTyped'
  <1> USE DEF Predict!ConstantsAssumption, PredictTyped, Predict!TypeOK, Announces
  <1>1. CASE Predict!Tick
    BY <1>1 DEF Predict!Tick
  <1>2. ASSUME NEW d \in Daemons, Predict!Gone(d),
               UNCHANGED <<now, known, past, last, predictDisk, said, predictOverlapped>>,
               pidFile' \in Daemons \cup {None}
        PROVE  PredictTyped'
    <2>1. /\ scans' \in [Daemons -> [Services -> ScanStates]]
          /\ \A e \in Daemons, t \in Services :
                IF e = d THEN scans'[e][t].phase = "done" ELSE scans'[e][t] = scans[e][t]
      <3> HIDE DEF ScanStates
      <3>1. Predict!Resting \in [Services -> ScanStates]
            /\ \A t \in Services : Predict!Resting[t].phase = "done"
        BY Restless DEF Predict!Resting
      <3> QED
        BY <1>2, <3>1 DEF Predict!Gone
    <2>2. /\ life' \in [Daemons -> {"new", "checked", "up", "gone"}]
          /\ \A e \in Daemons : e # d => life'[e] = life[e]
      BY <1>2 DEF Predict!Gone
    <2>3. \A e \in Daemons, t \in Services :
              /\ scans'[e][t].phase \in {"done", "scan", "notify", "persist"}
              /\ scans'[e][t].phase # "done" => life'[e] = "up"
              /\ Announces(e, t)' => scans'[e][t].pattern \in Predict!Patterns
      BY <2>1, <2>2, ScansOfOne, SMTT(30)
    <2> QED
      BY <1>2, <2>1, <2>2, <2>3
  <1>3. CASE Predict!Stop
    <2>1. CASE Predict!Alive(pidFile)
      <3>1. pidFile \in Daemons
        BY <1>3 DEF Predict!Stop
      <3> QED
        BY <1>2, <1>3, <2>1, <3>1 DEF Predict!Stop
    <2>2. CASE ~Predict!Alive(pidFile)
      BY <1>3, <2>2 DEF Predict!Stop
    <2> QED
      BY <2>1, <2>2
  <1>4. ASSUME NEW f \in Past, Predict!Learn(f) PROVE PredictTyped'
    BY <1>4 DEF Predict!Learn
  <1>5. ASSUME NEW age \in Ages, Predict!Purge(age) PROVE PredictTyped'
    BY <1>5 DEF Predict!Purge
  <1>6. ASSUME NEW d \in Daemons, Predict!Check(d) PROVE PredictTyped'
    BY <1>6 DEF Predict!Check
  <1>7. ASSUME NEW d \in Daemons, NEW old,
               scans' = [scans EXCEPT ![d] = [s \in Services |-> [Predict!Done EXCEPT !.phase = "scan"]]]
        PROVE  /\ scans' \in [Daemons -> [Services -> ScanStates]]
               /\ \A e \in Daemons, t \in Services :
                     IF e = d THEN scans'[e][t].phase = "scan" ELSE scans'[e][t] = scans[e][t]
    <2> HIDE DEF ScanStates
    <2> DEFINE Scanning == [Predict!Done EXCEPT !.phase = "scan"]
    <2>1. Scanning \in ScanStates /\ Scanning.phase = "scan"
      BY Restless
    <2> HIDE DEF Scanning
    <2>2. scans' = [scans EXCEPT ![d] = [s \in Services |-> Scanning]]
      BY <1>7 DEF Scanning
    <2> QED
      BY <2>1, <2>2
  <1>8. ASSUME NEW d \in Daemons, Predict!Start(d) PROVE PredictTyped'
    <2>1. Predict!Loaded(d) \subseteq Past /\ Predict!Loaded(d) \subseteq past
      BY DEF Predict!Loaded
    <2>2. /\ known' \in [Daemons -> SUBSET Past] /\ \A e \in Daemons : known'[e] \subseteq past
          /\ life' \in [Daemons -> {"new", "checked", "up", "gone"}] /\ life'[d] = "up"
          /\ \A e \in Daemons : e # d => life'[e] = life[e]
          /\ pidFile' \in Daemons \cup {None}
      BY <1>8, <2>1 DEF Predict!Start
    <2>3. predictOverlapped' \in BOOLEAN
      BY <1>8, Zenon DEF Predict!Start
    <2>4. UNCHANGED <<now, past, last, predictDisk, said>>
      BY <1>8 DEF Predict!Start
    <2>5. /\ scans' \in [Daemons -> [Services -> ScanStates]]
          /\ \A e \in Daemons, t \in Services :
                IF e = d THEN scans'[e][t].phase = "scan" ELSE scans'[e][t] = scans[e][t]
      BY <1>7, <1>8 DEF Predict!Start
    <2>6. \A e \in Daemons, t \in Services :
              /\ scans'[e][t].phase \in {"done", "scan", "notify", "persist"}
              /\ scans'[e][t].phase # "done" => life'[e] = "up"
              /\ Announces(e, t)' => scans'[e][t].pattern \in Predict!Patterns
      <3>1. \A t \in Services : scans'[d][t].phase = "scan"
        BY <2>5
      <3>2. \A e \in Daemons, t \in Services : e # d => scans'[e][t] = scans[e][t]
        BY <2>5
      <3> HIDE DEF PredictTyped, ScanStates, Announces
      <3> QED
        BY <2>2, <2>5, <3>1, <3>2, ScansOfOne
    <2> QED
      BY <2>2, <2>3, <2>4, <2>5, <2>6
  <1>9. ASSUME NEW d \in Daemons, Predict!NextTick(d) PROVE PredictTyped'
    <2>1. Predict!Loaded(d) \subseteq Past /\ Predict!Loaded(d) \subseteq past
      BY DEF Predict!Loaded
    <2>2. /\ known' \in [Daemons -> SUBSET Past] /\ \A e \in Daemons : known'[e] \subseteq past
      <3>1. CASE known' = known
        BY <3>1
      <3>2. CASE known' = [known EXCEPT ![d] = Predict!Loaded(d)]
        BY <2>1, <3>2
      <3> QED
        BY <1>9, <3>1, <3>2 DEF Predict!NextTick
    <2>3. UNCHANGED <<now, pidFile, life, past, last, predictDisk, said, predictOverlapped>> /\ life[d] = "up"
      BY <1>9 DEF Predict!NextTick
    <2>4. /\ scans' \in [Daemons -> [Services -> ScanStates]]
          /\ \A e \in Daemons, t \in Services :
                IF e = d THEN scans'[e][t].phase = "scan" ELSE scans'[e][t] = scans[e][t]
      BY <1>7, <1>9 DEF Predict!NextTick
    <2>5. \A e \in Daemons, t \in Services :
              /\ scans'[e][t].phase \in {"done", "scan", "notify", "persist"}
              /\ scans'[e][t].phase # "done" => life'[e] = "up"
              /\ Announces(e, t)' => scans'[e][t].pattern \in Predict!Patterns
      BY <2>3, <2>4, ScansOfOne
    <2> QED
      BY <2>2, <2>3, <2>4, <2>5
  <1>10. ASSUME NEW d \in Daemons, Predict!Crash(d) PROVE PredictTyped'
    BY <1>2, <1>10 DEF Predict!Crash
  <1>11. ASSUME NEW d \in Daemons, NEW s \in Services, Predict!Notify(d, s)
        PROVE PredictTyped'
    <2>1. [scans[d][s] EXCEPT !.phase = "persist"] \in ScanStates
          /\ [scans[d][s] EXCEPT !.phase = "persist"].pattern = scans[d][s].pattern
      <3>1. scans[d][s] \in ScanStates
        BY DEF ScanStates
      <3> QED
        BY <3>1 DEF ScanStates
    <2> DEFINE scan == [scans[d][s] EXCEPT !.phase = "persist"]
    <2>2. Predict!Scanned(d, s, scan)
      BY <1>11 DEF Predict!Notify
    <2> HIDE DEF scan
    <2>3. /\ scans' \in [Daemons -> [Services -> ScanStates]]
          /\ scans'[d][s] = scan
          /\ \A e \in Daemons, t \in Services : e # d \/ t # s => scans'[e][t] = scans[e][t]
      BY <2>1, <2>2, ScannedAlone DEF scan
    <2>4. scans[d][s].phase = "notify" /\ life[d] = "up" /\ scans[d][s].pattern \in Predict!Patterns
          /\ scans[d][s].at \in Nat
      BY <1>11 DEF Predict!Notify, ScanStates
    <2>5. Predict!Cardinality(said) \in Nat
      <3>1. Predict!Cardinality(said) = Cardinality(said)
        BY Zenon DEF Predict!Cardinality, Cardinality
      <3> QED
        BY <3>1, FS_CardinalityType DEF Numbered
    <2>6. /\ said' \subseteq [id : Nat, by : Daemons, service : Services,
                              pattern : Predict!Patterns, at : Nat]
          /\ said \subseteq said'
      BY <1>11, <2>4, <2>5 DEF Predict!Notify
    <2>7. UNCHANGED <<now, pidFile, life, known, past, last, predictDisk, predictOverlapped>>
      BY <1>11 DEF Predict!Notify
    <2>8. scan.pattern \in Predict!Patterns
      BY <2>1, <2>4 DEF scan
    <2>9. \A e \in Daemons, t \in Services :
              /\ scans'[e][t].phase \in {"done", "scan", "notify", "persist"}
              /\ scans'[e][t].phase # "done" => life'[e] = "up"
              /\ Announces(e, t)' => scans'[e][t].pattern \in Predict!Patterns
      <3>1. scans'[d][s].pattern \in Predict!Patterns /\ life' = life
        BY <2>3, <2>7, <2>8
      <3> HIDE DEF PredictTyped, ScanStates, Announces
      <3> QED
        BY <2>3, <2>4, <3>1, OneScan
    <2>10. \A p \in predictDisk : \E a \in said' : a.id = p.id
      BY <2>6
    <2> QED
      BY <2>3, <2>6, <2>7, <2>9, <2>10
  <1>12. ASSUME NEW d \in Daemons, NEW s \in Services, Predict!Persist(d, s)
        PROVE PredictTyped'
    <2>1. /\ scans' \in [Daemons -> [Services -> ScanStates]]
          /\ scans'[d][s] = Predict!Done
          /\ \A e \in Daemons, t \in Services : e # d \/ t # s => scans'[e][t] = scans[e][t]
      <3> HIDE DEF ScanStates
      <3> QED
        BY <1>12, Restless, ScannedAlone DEF Predict!Persist
    <2>2. UNCHANGED <<now, pidFile, life, known, past, last, said, predictOverlapped>>
      BY <1>12 DEF Predict!Persist
    <2>3. /\ predictDisk' \subseteq [id : Nat, service : Services, pattern : Predict!Patterns,
                                     at : Nat]
          /\ \A p \in predictDisk' : p.at <= now /\ \E a \in said : a.id = p.id
      BY <1>12 DEF Predict!Persist
    <2>4. \A e \in Daemons, t \in Services :
              /\ scans'[e][t].phase \in {"done", "scan", "notify", "persist"}
              /\ scans'[e][t].phase # "done" => life'[e] = "up"
              /\ Announces(e, t)' => scans'[e][t].pattern \in Predict!Patterns
      <3>1. life' = life /\ life[d] = "up" /\ scans'[d][s].phase = "done"
        BY <1>12, <2>1, <2>2, Restless DEF Predict!Persist
      <3> HIDE DEF PredictTyped, ScanStates, Announces
      <3> QED
        BY <2>1, <3>1, OneScan
    <2> QED
      BY <2>1, <2>2, <2>3, <2>4
  <1>13. ASSUME NEW d \in Daemons, NEW s \in Services, NEW text \in Texts \cup {None},
                NEW t \in Traces, NEW incident \in BOOLEAN, Predict!Scan(d, s, text, t, incident)
         PROVE  PredictTyped'
    <2>1. UNCHANGED <<now, pidFile, life, known, past, predictDisk, said, predictOverlapped>> /\ life[d] = "up"
      BY <1>13 DEF Predict!Scan
    <2>2. PICK scan \in ScanStates :
             /\ Predict!Scanned(d, s, scan)
             /\ scan.phase \in {"notify", "persist"} => scan.pattern \in Predict!Patterns
      <3>1. CASE Predict!Scanned(d, s, Predict!Done)
        BY <3>1, Restless
      <3>2. CASE \E f \in known[d] :
                    Predict!Scanned(d, s, [phase |-> "notify", pattern |-> f.phase, at |-> now])
        <4>1. PICK f \in Past :
                    Predict!Scanned(d, s, [phase |-> "notify", pattern |-> f.phase, at |-> now])
          BY <3>2
        <4>2. f.phase \in Predict!Patterns
          BY DEF Predict!Patterns
        <4>3. [phase |-> "notify", pattern |-> f.phase, at |-> now] \in ScanStates
          BY <4>2 DEF ScanStates
        <4> QED
          BY <4>1, <4>2, <4>3
      <3> QED
        BY <1>13, <3>1, <3>2 DEF Predict!Scan, Predict!Matches
    <2>3. /\ scans' \in [Daemons -> [Services -> ScanStates]]
          /\ scans'[d][s] = scan
          /\ \A e \in Daemons, r \in Services : e # d \/ r # s => scans'[e][r] = scans[e][r]
      <3> HIDE DEF ScanStates
      <3> QED
        BY <2>2, ScannedAlone
    <2>4. \A e \in Daemons, r \in Services :
              /\ scans'[e][r].phase \in {"done", "scan", "notify", "persist"}
              /\ scans'[e][r].phase # "done" => life'[e] = "up"
              /\ Announces(e, r)' => scans'[e][r].pattern \in Predict!Patterns
      <3>1. life' = life /\ life[d] = "up"
            /\ (scans'[d][s].phase \in {"notify", "persist"} =>
                    scans'[d][s].pattern \in Predict!Patterns)
        BY <2>1, <2>2, <2>3
      <3> HIDE DEF PredictTyped, ScanStates, Announces
      <3> QED
        BY <2>3, <3>1, OneScan
    <2>5. /\ last' \in [Daemons -> [Services -> Nat \cup {None}]]
          /\ \A e \in Daemons, r \in Services : last'[e][r] # None => last'[e][r] <= now
      <3>1. CASE last' = last
        BY <3>1
      <3>2. CASE last' = [last EXCEPT ![d][s] = now]
        BY <3>2
      <3> QED
        BY <1>13, <3>1, <3>2 DEF Predict!Scan
    <2> QED
      BY <2>1, <2>3, <2>4, <2>5
  <1>14. CASE UNCHANGED Predict!vars
    BY <1>14 DEF Predict!vars
  <1> HIDE DEF PredictTyped, Predict!TypeOK, Announces, Predict!ConstantsAssumption
  <1> QED
    BY <1>1, <1>3, <1>4, <1>5, <1>6, <1>8, <1>9, <1>10, <1>11, <1>12, <1>13, <1>14, Zenon
       DEF Predict!Next

\* A step that announces nothing and looks at nothing.
Calm ==
    /\ UNCHANGED <<last, said>> /\ (predictOverlapped => predictOverlapped')
    /\ \A e \in Daemons, t \in Services : Announces(e, t)' => scans'[e][t] = scans[e][t]

LEMMA CalmSteps ==
    ASSUME PredictTyped, [Predict!Next]_(Predict!vars)
    PROVE  \/ Calm /\ predictDisk' \subseteq predictDisk
           \/ \E d \in Daemons, s \in Services : Predict!Notify(d, s)
           \/ \E d \in Daemons, s \in Services : Predict!Persist(d, s) /\ Calm
           \/ \E d \in Daemons, s \in Services, text \in Texts \cup {None}, t \in Traces,
                 incident \in BOOLEAN : Predict!Scan(d, s, text, t, incident)
  <1>1. CASE UNCHANGED <<last, scans, said, predictOverlapped>> /\ predictDisk' \subseteq predictDisk
    BY <1>1 DEF Calm, Announces
  <1>2. ASSUME NEW d \in Daemons, UNCHANGED <<last, said, predictDisk>>,
               predictOverlapped => predictOverlapped',
               \/ scans' = [scans EXCEPT ![d] = Predict!Resting]
               \/ scans' = [scans EXCEPT ![d] =
                               [s \in Services |-> [Predict!Done EXCEPT !.phase = "scan"]]]
        PROVE  Calm /\ predictDisk' \subseteq predictDisk
    <2>1. scans \in [Daemons -> [Services -> ScanStates]]
      BY DEF PredictTyped
    <2>2. \A t \in Services : scans'[d][t].phase \in {"done", "scan"}
      <3>1. CASE scans' = [scans EXCEPT ![d] = Predict!Resting]
        BY <2>1, <3>1, Restless DEF Predict!Resting
      <3>2. CASE scans' = [scans EXCEPT ![d] =
                               [s \in Services |-> [Predict!Done EXCEPT !.phase = "scan"]]]
        BY <2>1, <3>2, Restless
      <3> QED
        BY <1>2, <3>1, <3>2
    <2>3. \A e \in Daemons : e # d => scans'[e] = scans[e]
      BY <1>2, <2>1
    <2> QED
      BY <1>2, <2>2, <2>3 DEF Calm, Announces
  <1>3. CASE Predict!Stop
    <2>1. CASE Predict!Alive(pidFile)
      <3>1. pidFile \in Daemons
        BY <1>3 DEF Predict!Stop, PredictTyped, Predict!TypeOK
      <3> QED
        BY <1>2, <1>3, <2>1, <3>1 DEF Predict!Stop, Predict!Gone
    <2>2. CASE ~Predict!Alive(pidFile)
      BY <1>1, <1>3, <2>2 DEF Predict!Stop
    <2> QED
      BY <2>1, <2>2
  <1>4. ASSUME NEW d \in Daemons, Predict!Start(d) \/ Predict!NextTick(d) \/ Predict!Crash(d)
        PROVE  Calm /\ predictDisk' \subseteq predictDisk
    <2>1. CASE Predict!Start(d)
      BY <1>2, <2>1 DEF Predict!Start
    <2>2. CASE Predict!NextTick(d)
      BY <1>2, <2>2 DEF Predict!NextTick
    <2>3. CASE Predict!Crash(d)
      BY <1>2, <2>3 DEF Predict!Crash, Predict!Gone
    <2> QED
      BY <1>4, <2>1, <2>2, <2>3
  <1>5. CASE \/ Predict!Tick \/ \E f \in Past : Predict!Learn(f)
             \/ \E age \in Ages : Predict!Purge(age)
             \/ \E d \in Daemons : Predict!Check(d)
             \/ UNCHANGED Predict!vars
    BY <1>1, <1>5
       DEF Predict!Tick, Predict!Learn, Predict!Purge, Predict!Check, Predict!vars
  <1>6. ASSUME NEW d \in Daemons, NEW s \in Services, Predict!Persist(d, s) PROVE Calm
    <2>1. /\ scans'[d][s] = Predict!Done
          /\ \A e \in Daemons, t \in Services : e # d \/ t # s => scans'[e][t] = scans[e][t]
      BY <1>6, Restless, ScannedAlone DEF Predict!Persist, PredictTyped
    <2>2. UNCHANGED <<last, said, predictOverlapped>>
      BY <1>6 DEF Predict!Persist
    <2> QED
      BY <2>1, <2>2, Restless DEF Calm, Announces
  <1> QED
    BY <1>3, <1>4, <1>5, <1>6, Zenon DEF Predict!Next

LEMMA NumberedNext ==
    ASSUME PredictTyped, Numbered, [Predict!Next]_(Predict!vars) PROVE Numbered'
  <1>1. ASSUME NEW d \in Daemons, NEW s \in Services, Predict!Notify(d, s) PROVE Numbered'
    <2> DEFINE a == [id |-> Predict!Cardinality(said), by |-> d, service |-> s,
                     pattern |-> scans[d][s].pattern, at |-> scans[d][s].at]
    <2>1. said' = said \cup {a} /\ a.id = Predict!Cardinality(said)
      BY <1>1 DEF Predict!Notify
    <2> HIDE DEF a
    <2>2. a.id = Cardinality(said)
      <3>1. Predict!Cardinality(said) = Cardinality(said)
        BY Zenon DEF Predict!Cardinality, Cardinality
      <3> QED
        BY <2>1, <3>1
    <2>3. a \notin said /\ Cardinality(said) \in Nat
      BY <2>2, FS_CardinalityType DEF Numbered
    <2>4. IsFiniteSet(said') /\ Cardinality(said') = Cardinality(said) + 1
      BY <2>1, <2>3, FS_AddElement DEF Numbered
    <2>5. \A b \in said : b.id \in Nat /\ b.id < Cardinality(said)
      BY DEF PredictTyped, Numbered
    <2>6. \A b \in said' : b.id < Cardinality(said')
      BY <2>1, <2>2, <2>3, <2>4, <2>5
    <2>7. \A b, c \in said' : b.id = c.id => b = c
      BY <2>1, <2>2, <2>3, <2>5 DEF Numbered
    <2> QED
      BY <2>4, <2>6, <2>7 DEF Numbered
  <1>2. (\E d \in Daemons, s \in Services : Predict!Notify(d, s)) \/ said' = said
    BY CalmSteps DEF Calm, Predict!Scan
  <1> QED
    BY <1>1, <1>2 DEF Numbered

LEMMA OneUpNext ==
    ASSUME PredictTyped, OneUp, [Predict!Next]_(Predict!vars) PROVE OneUp'
  <1>1. CASE predictOverlapped' = predictOverlapped /\ \A d \in Daemons : life'[d] = "up" => life[d] = "up"
    BY <1>1 DEF OneUp
  <1>2. life \in [Daemons -> {"new", "checked", "up", "gone"}]
    BY DEF PredictTyped, Predict!TypeOK
  <1>3. CASE Predict!Stop
    BY <1>1, <1>2, <1>3 DEF Predict!Stop, Predict!Gone
  <1>4. ASSUME NEW d \in Daemons, Predict!Start(d) PROVE OneUp'
    <2>1. SUFFICES ASSUME ~predictOverlapped' PROVE \A e, f \in Daemons :
                                               life'[e] = "up" /\ life'[f] = "up" => e = f
      BY DEF OneUp
    <2>2. \A e \in Daemons : life[e] # "up"
      BY <1>4, <2>1 DEF Predict!Start, Predict!Up
    <2> QED
      BY <1>2, <1>4, <2>2 DEF Predict!Start
  <1>5. ASSUME NEW d \in Daemons, Predict!Check(d) \/ Predict!Crash(d) PROVE OneUp'
    BY <1>1, <1>2, <1>5 DEF Predict!Check, Predict!Crash, Predict!Gone
  <1>6. \/ Predict!Stop
        \/ \E d \in Daemons : Predict!Start(d)
        \/ \E d \in Daemons : Predict!Check(d) \/ Predict!Crash(d)
        \/ UNCHANGED <<life, predictOverlapped>>
    <2>1. CASE \/ Predict!Tick \/ UNCHANGED Predict!vars
               \/ \E f \in Past : Predict!Learn(f)
               \/ \E age \in Ages : Predict!Purge(age)
               \/ \E d \in Daemons : Predict!NextTick(d)
      BY <2>1 DEF Predict!Tick, Predict!vars, Predict!Learn, Predict!Purge, Predict!NextTick
    <2>2. CASE \E d \in Daemons, s \in Services : Predict!Notify(d, s) \/ Predict!Persist(d, s)
      BY <2>2 DEF Predict!Notify, Predict!Persist
    <2>3. CASE \E d \in Daemons, s \in Services, text \in Texts \cup {None}, t \in Traces,
                  incident \in BOOLEAN : Predict!Scan(d, s, text, t, incident)
      BY <2>3 DEF Predict!Scan
    <2> QED
      BY <2>1, <2>2, <2>3, Zenon DEF Predict!Next
  <1> QED
    BY <1>1, <1>3, <1>4, <1>5, <1>6

\* What a notification leaves of the scan, and what a scan can end with.
LEMMA PersistAfterNotify ==
    ASSUME PredictTyped, NEW d \in Daemons, NEW s \in Services, Predict!Notify(d, s)
    PROVE  /\ scans'[d][s].at = scans[d][s].at /\ scans'[d][s].phase = "persist"
           /\ \A e \in Daemons, t \in Services : e # d \/ t # s => scans'[e][t] = scans[e][t]
  <1> DEFINE scan == [scans[d][s] EXCEPT !.phase = "persist"]
  <1>1. scans[d][s] \in ScanStates /\ scans \in [Daemons -> [Services -> ScanStates]]
    <2> HIDE DEF ScanStates
    <2> QED
      BY DEF PredictTyped
  <1>2. scan \in ScanStates /\ scan.at = scans[d][s].at /\ scan.phase = "persist"
    BY <1>1 DEF ScanStates
  <1>3. Predict!Scanned(d, s, scan)
    BY DEF Predict!Notify
  <1> HIDE DEF scan
  <1> QED
    BY <1>1, <1>2, <1>3, ScannedAlone

LEMMA ScanKinds ==
    ASSUME PredictTyped, NEW d \in Daemons, NEW s \in Services, NEW text \in Texts \cup {None},
           NEW t, NEW incident \in BOOLEAN, Predict!Scan(d, s, text, t, incident)
    PROVE  \/ Predict!Scanned(d, s, Predict!Done) /\ UNCHANGED last
           \/ /\ last' = [last EXCEPT ![d][s] = now]
              /\ ~Predict!Recent(d, s)
              /\ \E f \in Past :
                    /\ ~Predict!RecentOnDisk(s, f.phase)
                    /\ Predict!Scanned(d, s, [phase |-> "notify", pattern |-> f.phase, at |-> now])
  <1>1. known[d] \subseteq Past
    BY DEF PredictTyped
  <1> QED
    BY <1>1 DEF Predict!Scan, Predict!Matches

LEMMA RememberedNext ==
    ASSUME Predict!ConstantsAssumption, PredictTyped, Remembered, [Predict!Next]_(Predict!vars)
    PROVE  Remembered'
  <1> USE DEF PredictTyped
  <1>1. ASSUME Calm
        PROVE  /\ \A a \in said' : last'[a.by][a.service] \in Nat /\ a.at <= last'[a.by][a.service]
               /\ \A e \in Daemons, t \in Services :
                     Announces(e, t)' => last'[e][t] \in Nat /\ scans'[e][t].at <= last'[e][t]
    BY <1>1 DEF Calm, Remembered, Announces
  <1>2. CASE Calm /\ predictDisk' \subseteq predictDisk
    BY <1>1, <1>2 DEF Calm, Remembered
  <1>3. ASSUME NEW d \in Daemons, NEW s \in Services, Predict!Persist(d, s), Calm
        PROVE  Remembered'
    <2>1. ASSUME NEW p \in predictDisk'
          PROVE  \E a \in said : /\ a.id = p.id /\ a.service = p.service
                                 /\ a.pattern = p.pattern /\ a.at <= p.at
      <3>1. CASE p \in predictDisk
        BY <3>1 DEF Remembered
      <3>2. CASE p \notin predictDisk
        <4>1. PICK a \in said :
                 /\ a.by = d /\ a.service = s
                 /\ p = [id |-> a.id, service |-> s, pattern |-> a.pattern, at |-> now]
          BY <1>3, <2>1, <3>2 DEF Predict!Persist
        <4>2. last[d][s] \in Nat /\ a.at <= last[d][s]
          BY <4>1 DEF Remembered
        <4>3. last[d][s] <= now /\ now \in Nat /\ a.at \in Nat
          BY <4>2 DEF Predict!TypeOK, Predict!ConstantsAssumption
        <4> QED
          BY <4>1, <4>2, <4>3
      <3> QED
        BY <3>1, <3>2
    <2>2. said' = said
      BY <1>3 DEF Calm
    <2> QED
      BY <1>1, <1>3, <2>1, <2>2 DEF Remembered
  <1>4. ASSUME NEW d \in Daemons, NEW s \in Services, Predict!Notify(d, s) PROVE Remembered'
    <2> DEFINE new == [id |-> Predict!Cardinality(said), by |-> d, service |-> s,
                       pattern |-> scans[d][s].pattern, at |-> scans[d][s].at]
    <2>1. said' = said \cup {new} /\ UNCHANGED <<last, predictDisk>>
          /\ new.by = d /\ new.service = s /\ new.at = scans[d][s].at
      BY <1>4 DEF Predict!Notify
    <2> HIDE DEF new
    <2>2. Announces(d, s)
      BY <1>4 DEF Predict!Notify, Announces
    <2>3. /\ scans'[d][s].at = scans[d][s].at
          /\ \A e \in Daemons, t \in Services : e # d \/ t # s => scans'[e][t] = scans[e][t]
      BY <1>4, PersistAfterNotify
    <2>4. \A e \in Daemons, t \in Services :
              Announces(e, t)' => last[e][t] \in Nat /\ scans'[e][t].at <= last[e][t]
      BY <2>2, <2>3 DEF Remembered, Announces
    <2>5. \A a \in said' : last[a.by][a.service] \in Nat /\ a.at <= last[a.by][a.service]
      BY <2>1, <2>2 DEF Remembered
    <2> QED
      BY <2>1, <2>4, <2>5 DEF Remembered
  <1>5. ASSUME NEW d \in Daemons, NEW s \in Services, NEW text \in Texts \cup {None},
               NEW t \in Traces, NEW incident \in BOOLEAN, Predict!Scan(d, s, text, t, incident)
        PROVE  Remembered'
    <2>1. UNCHANGED <<said, predictDisk>>
      BY <1>5 DEF Predict!Scan
    <2>2. CASE Predict!Scanned(d, s, Predict!Done) /\ UNCHANGED last
      <3>1. /\ scans'[d][s] = Predict!Done
            /\ \A e \in Daemons, r \in Services : e # d \/ r # s => scans'[e][r] = scans[e][r]
        BY <2>2, Restless, ScannedAlone
      <3> QED
        BY <2>1, <2>2, <3>1, Restless, SMTT(30) DEF Remembered, Announces
    <2>3. ASSUME NEW f \in Past, last' = [last EXCEPT ![d][s] = now],
                 Predict!Scanned(d, s, [phase |-> "notify", pattern |-> f.phase, at |-> now])
          PROVE  Remembered'
      <3> DEFINE scan == [phase |-> "notify", pattern |-> f.phase, at |-> now]
      <3>1. now \in Nat /\ scan \in ScanStates /\ scan.at = now
        BY DEF ScanStates, Predict!Patterns, Predict!TypeOK, Predict!ConstantsAssumption
      <3> HIDE DEF scan
      <3>2. /\ scans'[d][s] = scan
            /\ \A e \in Daemons, r \in Services : e # d \/ r # s => scans'[e][r] = scans[e][r]
        BY <2>3, <3>1, ScannedAlone DEF scan
      <3>3. /\ last'[d][s] = now
            /\ \A e \in Daemons, r \in Services : e # d \/ r # s => last'[e][r] = last[e][r]
        BY <2>3
      <3>4. ASSUME NEW a \in said
            PROVE  last'[a.by][a.service] \in Nat /\ a.at <= last'[a.by][a.service]
        <4>1. /\ last[a.by][a.service] \in Nat /\ a.at <= last[a.by][a.service]
              /\ a.by \in Daemons /\ a.service \in Services /\ a.at \in Nat
          BY DEF Remembered
        <4>2. last[a.by][a.service] <= now
          BY <4>1 DEF Predict!TypeOK, Predict!ConstantsAssumption
        <4>3. a.at <= now
          BY <3>1, <4>1, <4>2
        <4>4. CASE a.by = d /\ a.service = s
          BY <3>1, <3>3, <4>3, <4>4
        <4>5. CASE a.by # d \/ a.service # s
          BY <3>3, <4>1, <4>5
        <4> QED
          BY <4>4, <4>5
      <3>5. ASSUME NEW e \in Daemons, NEW r \in Services, Announces(e, r)'
            PROVE  last'[e][r] \in Nat /\ scans'[e][r].at <= last'[e][r]
        <4>1. CASE e = d /\ r = s
          BY <3>1, <3>2, <3>3, <4>1
        <4>2. CASE e # d \/ r # s
          BY <3>2, <3>3, <3>5, <4>2 DEF Remembered, Announces
        <4> QED
          BY <4>1, <4>2
      <3> QED
        BY <2>1, <3>4, <3>5 DEF Remembered
    <2> QED
      <3>1. \/ Predict!Scanned(d, s, Predict!Done) /\ UNCHANGED last
            \/ /\ last' = [last EXCEPT ![d][s] = now]
               /\ \E f \in Past :
                     Predict!Scanned(d, s, [phase |-> "notify", pattern |-> f.phase, at |-> now])
        <4> HIDE DEF PredictTyped
        <4> QED
          BY <1>5, ScanKinds
      <3> HIDE DEF PredictTyped
      <3> QED
        BY <2>2, <2>3, <3>1, Zenon
  <1> QED
    BY <1>2, <1>3, <1>4, <1>5, CalmSteps

LEMMA LookedNext ==
    ASSUME Predict!ConstantsAssumption, PredictTyped, Numbered, Remembered, OneUp, Looked,
           [Predict!Next]_(Predict!vars)
    PROVE  Looked'
  <1>1. CASE Calm /\ predictDisk' \subseteq predictDisk
    BY <1>1 DEF Calm, Looked, Spaced, OnDisk, Announces
  <1>2. ASSUME NEW e \in Daemons, NEW d \in Daemons, ~predictOverlapped,
               life[e] = "up", life[d] = "up"
        PROVE  e = d
    BY <1>2 DEF OneUp
  <1>3. \A d \in Daemons, s \in Services : scans[d][s].phase # "done" => life[d] = "up"
    BY DEF PredictTyped, Predict!TypeOK
  <1>4. ASSUME NEW e \in Daemons, NEW r \in Services, Predict!Persist(e, r), Calm
        PROVE  Looked'
    <2> SUFFICES ASSUME NEW d \in Daemons, NEW s \in Services, NEW a \in said',
                        scans'[d][s].phase = "notify", a.service = s
                 PROVE  Spaced(d, s, a)'
      BY DEF Looked
    <2>1. a \in said /\ scans'[d][s] = scans[d][s] /\ (predictOverlapped => predictOverlapped')
      BY <1>4 DEF Calm, Announces
    <2>2. Spaced(d, s, a)
      BY <2>1 DEF Looked
    <2>3. d # e \/ s # r
      <3>1. scans'[e][r] = Predict!Done
        BY <1>4, Restless, ScannedAlone DEF Predict!Persist, PredictTyped
      <3> QED
        BY <3>1, Restless
    <2>4. ASSUME ~predictOverlapped', OnDisk(a)' PROVE OnDisk(a)
      <3>1. d = e
        <4>1. life[e] = "up" /\ life[d] = "up"
          BY <1>3, <1>4, <2>1 DEF Predict!Persist
        <4> QED
          BY <1>2, <2>1, <2>4, <4>1
      <3>2. PICK p \in predictDisk' : p.id = a.id
        BY <2>4 DEF OnDisk
      <3>3. CASE p \in predictDisk
        BY <3>2, <3>3 DEF OnDisk
      <3>4. CASE p \notin predictDisk
        <4>1. PICK b \in said : b.service = r /\ p.id = b.id
          BY <1>4, <3>4 DEF Predict!Persist
        <4>2. b = a
          BY <2>1, <3>2, <4>1 DEF Numbered
        <4> QED
          BY <2>3, <3>1, <4>1, <4>2
      <3> QED
        BY <3>3, <3>4
    <2> QED
      BY <2>1, <2>2, <2>4 DEF Spaced
  <1>5. ASSUME NEW e \in Daemons, NEW r \in Services, Predict!Notify(e, r) PROVE Looked'
    <2> SUFFICES ASSUME NEW d \in Daemons, NEW s \in Services, NEW a \in said',
                        scans'[d][s].phase = "notify", a.service = s
                 PROVE  Spaced(d, s, a)'
      BY DEF Looked
    <2>1. (d # e \/ s # r) /\ scans'[d][s] = scans[d][s]
      BY <1>5, PersistAfterNotify
    <2>2. UNCHANGED <<predictOverlapped, predictDisk>>
      BY <1>5 DEF Predict!Notify
    <2>3. CASE a \in said
      BY <2>1, <2>2, <2>3 DEF Looked, Spaced, OnDisk
    <2>4. CASE a \notin said
      <3>1. a.by = e /\ a.service = r
        BY <1>5, <2>4 DEF Predict!Notify
      <3>2. d # e
        BY <2>1, <3>1
      <3>3. life[e] = "up" /\ life[d] = "up"
        BY <1>3, <1>5, <2>1 DEF Predict!Notify
      <3>4. predictOverlapped
        BY <1>2, <3>2, <3>3
      <3> QED
        BY <2>2, <3>1, <3>2, <3>4 DEF Spaced
    <2> QED
      BY <2>3, <2>4
  <1>6. ASSUME NEW e \in Daemons, NEW r \in Services, NEW text \in Texts \cup {None},
               NEW t \in Traces, NEW incident \in BOOLEAN, Predict!Scan(e, r, text, t, incident)
        PROVE  Looked'
    <2>1. UNCHANGED <<said, predictDisk, predictOverlapped>>
      BY <1>6 DEF Predict!Scan
    <2>2. CASE Predict!Scanned(e, r, Predict!Done) /\ UNCHANGED last
      <3>1. /\ scans'[e][r] = Predict!Done
            /\ \A d \in Daemons, s \in Services : d # e \/ s # r => scans'[d][s] = scans[d][s]
        BY <2>2, Restless, ScannedAlone DEF PredictTyped
      <3> QED
        BY <2>1, <3>1, Restless DEF Looked, Spaced, OnDisk
    <2>3. ASSUME NEW f \in Past, ~Predict!Recent(e, r), ~Predict!RecentOnDisk(r, f.phase),
                 Predict!Scanned(e, r, [phase |-> "notify", pattern |-> f.phase, at |-> now])
          PROVE  Looked'
      <3> DEFINE scan == [phase |-> "notify", pattern |-> f.phase, at |-> now]
      <3>1. now \in Nat /\ scan \in ScanStates /\ scan.at = now /\ scan.pattern = f.phase
        BY DEF ScanStates, Predict!Patterns, PredictTyped, Predict!TypeOK,
               Predict!ConstantsAssumption
      <3> HIDE DEF scan
      <3>2. /\ scans'[e][r] = scan
            /\ \A d \in Daemons, s \in Services : d # e \/ s # r => scans'[d][s] = scans[d][s]
        BY <2>3, <3>1, ScannedAlone DEF scan, PredictTyped
      <3> SUFFICES ASSUME NEW d \in Daemons, NEW s \in Services, NEW a \in said,
                          scans'[d][s].phase = "notify", a.service = s
                   PROVE  Spaced(d, s, a)'
        BY <2>1 DEF Looked
      <3>3. CASE d # e \/ s # r
        BY <2>1, <3>2, <3>3 DEF Looked, Spaced, OnDisk
      <3>4. CASE d = e /\ s = r
        <4>1. a.at \in Nat /\ a.by \in Daemons
          BY DEF PredictTyped
        <4>2. ASSUME a.by = d PROVE now - a.at >= Quiet
          <5>1. last[d][s] \in Nat /\ a.at <= last[d][s]
            BY <4>2 DEF Remembered
          <5>2. now - last[d][s] >= Quiet
            BY <2>3, <3>1, <3>4, <5>1 DEF Predict!Recent, Predict!ConstantsAssumption
          <5> QED
            BY <3>1, <4>1, <5>1, <5>2 DEF Predict!ConstantsAssumption
        <4>3. ASSUME a.pattern = f.phase, OnDisk(a) PROVE now - a.at > Quiet
          <5>1. PICK p \in predictDisk : p.id = a.id
            BY <4>3 DEF OnDisk
          <5>2. PICK b \in said : /\ b.id = p.id /\ b.service = p.service
                                  /\ b.pattern = p.pattern /\ b.at <= p.at
            BY DEF Remembered
          <5>3. b = a
            BY <5>1, <5>2 DEF Numbered
          <5>4. now - p.at > Quiet
            <6>1. p.at \in Nat
              BY DEF PredictTyped
            <6>2. ~(now - p.at <= Quiet)
              BY <2>3, <3>4, <4>3, <5>2, <5>3 DEF Predict!RecentOnDisk
            <6> QED
              BY <3>1, <6>1, <6>2 DEF Predict!ConstantsAssumption
          <5>5. p.at \in Nat
            BY DEF PredictTyped
          <5> QED
            BY <3>1, <4>1, <5>2, <5>3, <5>4, <5>5 DEF Predict!ConstantsAssumption
        <4>4. OnDisk(a)' <=> OnDisk(a)
          BY <2>1 DEF OnDisk
        <4>5. scans'[d][s].at = now /\ scans'[d][s].pattern = f.phase
          BY <3>1, <3>2, <3>4
        <4> QED
          BY <4>2, <4>3, <4>4, <4>5 DEF Spaced
      <3> QED
        BY <3>3, <3>4
    <2> QED
      <3>1. \/ Predict!Scanned(e, r, Predict!Done) /\ UNCHANGED last
            \/ \E f \in Past :
                  /\ ~Predict!Recent(e, r) /\ ~Predict!RecentOnDisk(r, f.phase)
                  /\ Predict!Scanned(e, r, [phase |-> "notify", pattern |-> f.phase, at |-> now])
        BY <1>6, ScanKinds
      <3> QED
        BY <2>2, <2>3, <3>1, Zenon
  <1> QED
    BY <1>1, <1>4, <1>5, <1>6, CalmSteps

\* A notification comes after each one before it as Looked says.
LEMMA QuietStep ==
    ASSUME PredictTyped, Looked, [Predict!Next]_(Predict!vars)
    PROVE  \A b \in said' \ said, a \in said :
              a.service = b.service =>
                 /\ a.by = b.by => b.at - a.at >= Quiet
                 /\ a.pattern = b.pattern /\ ~predictOverlapped /\ (\E p \in predictDisk : p.id = a.id)
                       => b.at - a.at > Quiet
  <1>1. ASSUME NEW d \in Daemons, NEW s \in Services, Predict!Notify(d, s),
               NEW b \in said' \ said, NEW a \in said, a.service = b.service
        PROVE  /\ a.by = b.by => b.at - a.at >= Quiet
               /\ a.pattern = b.pattern /\ ~predictOverlapped /\ (\E p \in predictDisk : p.id = a.id)
                     => b.at - a.at > Quiet
    <2>1. /\ b.by = d /\ b.service = s
          /\ b.pattern = scans[d][s].pattern /\ b.at = scans[d][s].at
      BY <1>1 DEF Predict!Notify
    <2>2. Spaced(d, s, a)
      BY <1>1, <2>1 DEF Looked, Predict!Notify
    <2> QED
      BY <2>1, <2>2 DEF Spaced, OnDisk
  <1>2. (\E d \in Daemons, s \in Services : Predict!Notify(d, s)) \/ said' = said
    BY CalmSteps DEF Calm, Predict!Scan
  <1> QED
    BY <1>1, <1>2

LEMMA PredictAlways ==
    Predict!ConstantsAssumption =>
        (Predict!Spec => [](PredictTyped /\ Numbered /\ Remembered /\ OneUp /\ Looked))
  <1> SUFFICES ASSUME Predict!ConstantsAssumption
               PROVE  Predict!Spec =>
                          [](PredictTyped /\ Numbered /\ Remembered /\ OneUp /\ Looked)
    OBVIOUS
  <1>1. ASSUME Predict!Init PROVE PredictTyped /\ Numbered /\ Remembered /\ OneUp /\ Looked
    <2>1. /\ said = {} /\ predictDisk = {} /\ predictOverlapped = FALSE
          /\ \A d \in Daemons : life[d] = "new"
      BY <1>1 DEF Predict!Init
    <2>2. /\ scans \in [Daemons -> [Services -> ScanStates]]
          /\ \A d \in Daemons, s \in Services : scans[d][s].phase = "done"
      <3> HIDE DEF ScanStates
      <3>1. Predict!Resting \in [Services -> ScanStates]
            /\ \A t \in Services : Predict!Resting[t].phase = "done"
        BY Restless DEF Predict!Resting
      <3> QED
        BY <1>1, <3>1 DEF Predict!Init
    <2>3. Numbered
      BY <2>1, FS_EmptySet DEF Numbered
    <2>4. Predict!TypeOK /\ known \in [Daemons -> SUBSET Past]
          /\ last \in [Daemons -> [Services -> Nat \cup {None}]]
      <3>1. /\ now \in 0..MaxTime /\ pidFile \in Daemons \cup {None} /\ predictOverlapped \in BOOLEAN
            /\ past \subseteq Past
        <4>1. past \in {{}, Past}
          BY <1>1 DEF Predict!Init
        <4>2. now = 0 /\ pidFile = None
          BY <1>1 DEF Predict!Init
        <4> QED
          <5>1. past \subseteq Past
            BY <4>1
          <5>2. now \in 0..MaxTime
            BY <4>2 DEF Predict!ConstantsAssumption
          <5>3. predictOverlapped \in BOOLEAN
            BY <2>1, Zenon
          <5> QED
            BY <4>2, <5>1, <5>2, <5>3
      <3>2. /\ known \in [Daemons -> SUBSET Past] /\ \A d \in Daemons : known[d] = {}
            /\ last \in [Daemons -> [Services -> Nat \cup {None}]]
            /\ \A d \in Daemons, s \in Services : last[d][s] = None
            /\ life \in [Daemons -> {"new", "checked", "up", "gone"}]
        BY <1>1 DEF Predict!Init
      <3> QED
        BY <2>1, <2>2, <3>1, <3>2 DEF Predict!TypeOK
    <2>5. PredictTyped
      BY <2>1, <2>2, <2>4 DEF PredictTyped, Announces
    <2>6. Remembered /\ OneUp /\ Looked
      BY <2>1, <2>2 DEF Remembered, OneUp, Looked, Announces
    <2> QED
      BY <2>3, <2>5, <2>6
  <1>2. PredictTyped /\ Numbered /\ Remembered /\ OneUp /\ Looked /\ [Predict!Next]_(Predict!vars)
            => (PredictTyped /\ Numbered /\ Remembered /\ OneUp /\ Looked)'
    BY PredictTypedNext, NumberedNext, RememberedNext, OneUpNext, LookedNext
  <1> QED
    BY <1>1, <1>2, PTL DEF Predict!Spec

\* The daemons, their scans and their files keep to their types: no scan
\* outlives its daemon, and each file is of an announcement (predictor_daemon.go).
THEOREM PredictTypeCorrect ==
    Predict!Spec => []Predict!TypeOK
  <1>1. PredictTyped /\ Numbered /\ Remembered /\ OneUp /\ Looked => Predict!TypeOK
    BY DEF PredictTyped
  <1> QED
    BY <1>1, PredictAlways, PredictAssumption, PTL

\* A service is announced once in a while (predictor_daemon.go): never twice
\* within Quiet by one daemon, nor with the same pattern by one after another
\* while the file of the first is there, for any number of daemons, of services
\* and of scans that run at once.
THEOREM QuietCorrect ==
    Predict!Spec => QuietAfterAnnouncing
  <1> USE PredictAssumption
  <1>1. PredictTyped /\ Numbered /\ Remembered /\ OneUp /\ Looked
            /\ [Predict!Next]_(Predict!vars) =>
        [\A b \in said' \ said, a \in said :
            a.service = b.service =>
               /\ a.by = b.by => b.at - a.at >= Quiet
               /\ a.pattern = b.pattern /\ ~predictOverlapped /\ (\E p \in predictDisk : p.id = a.id)
                     => b.at - a.at > Quiet]_(Predict!vars)
    BY QuietStep
  <1> QED
    BY <1>1, PredictAlways, PTL
       DEF Predict!Spec, QuietAfterAnnouncing, Predict!QuietAfterAnnouncing

-----------------------------------------------------------------------------
\* Whichever tool is at work, its files and what it has in memory keep to their
\* types (config.go, interactive_tui.go, alert/commands.go, server.go,
\* incident_browser.go, wizard_teams.go, updater.go, guide/engine.go,
\* incident/service.go, predictor_daemon.go, runbook/store.go).
THEOREM ToolsTypeCorrect ==
    /\ Config!Spec /\ Edit!Spec /\ Listen!Spec /\ Collab!Spec /\ Browser!Spec /\ Team!Spec
    /\ Update!Spec /\ Tour!Spec /\ Follow!Spec /\ Predict!Spec /\ Books!Spec
    => []TypeOK
  <1>1. /\ Config!TypeOK /\ Edit!TypeOK /\ Listen!TypeOK /\ Collab!TypeOK /\ Browser!TypeOK
        /\ Team!TypeOK /\ Update!TypeOK /\ Tour!TypeOK /\ Follow!TypeOK /\ Predict!TypeOK
        /\ Books!TypeOK
        => TypeOK
    BY DEF TypeOK
  <1> QED
    BY <1>1, ProfilesTypeCorrect, EditTypeCorrect, ListenTypeCorrect, SessionTypeCorrect,
       BrowserTypeCorrect, TeamTypeCorrect, UpdateTypeCorrect, TourTypeCorrect,
       FollowTypeCorrect, PredictTypeCorrect, BooksTypeCorrect, PTL

=============================================================================

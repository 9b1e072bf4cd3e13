------------------------------ MODULE Profiles ------------------------------
(***************************************************************************)
(* Configuration profiles (src/internal/config/config.go, profile.go): the *)
(* profile files, the copies processes keep in memory, the active profile, *)
(* and the credentials of the backends, which live in files of the user,   *)
(* files of the profile and the environment.                               *)
(*                                                                         *)
(* A URL stands for all plain settings, which the environment leaves alone *)
(* here; "basic" stands for a user with its password.                      *)
(***************************************************************************)
EXTENDS Naturals, Sequences

CONSTANTS Procs,        \* running commands, consoles and listeners
          Names,        \* profiles, with "default"
          Backends,     \* backends with credentials, with "prometheus"
          Urls, Creds,
          Typed,        \* tokens and users that are typed together
          Environments, \* tokens and users set for profiles, and for all ("global")
          None          \* no file, no credential, no process

VARIABLES files,        \* the YAML file of each profile
          legacy,       \* config.json of older versions, until it is migrated
          activeFile,   \* .active-profile
          secrets,      \* credential files in the state directory of a profile
          user,         \* credential files of the user
          env,          \* credentials in the environment: of a profile, or global
          active,       \* the profile each process works on
          cache,        \* profiles each process has in memory
          migrating,    \* processes that have yet to rename config.json
          own           \* the user of Prometheus a profile was first set up with

vars == <<files, legacy, activeFile, secrets, user, env, active, cache, migrating, own>>

NoCreds == [b \in Backends |-> None]
Config(u, t, c) == [url |-> u, token |-> t, basic |-> c]
Kept(t, c) == [token |-> t, basic |-> c]
Empty == Kept(NoCreds, NoCreds)

Stored == [url : Urls, token : [Backends -> Creds \cup {None}],
           basic : [Backends -> Creds \cup {None}]]

\* There is a default profile, and Prometheus is a backend.
ConstantsAssumption ==
    /\ "default" \in Names /\ "prometheus" \in Backends /\ None \notin Names
    /\ \A e \in Environments, n \in Names \cup {"global"} :
          e[n] \in [token : [Backends -> Creds \cup {None}],
                   basic : [Backends -> Creds \cup {None}]]
    /\ Typed \subseteq [token : Creds \cup {None}, basic : Creds \cup {None}]

TypeOK ==
    /\ \A p \in Names : files[p] = None \/ files[p] \in Stored
    /\ legacy = None \/ legacy \in Stored
    /\ activeFile \in Names /\ env \in Environments
    /\ active \in [Procs -> Names \cup {None}]
    /\ \A r \in Procs, p \in Names : cache[r][p] = None \/ cache[r][p] \in Stored
    /\ migrating \subseteq {r \in Procs : active[r] = "default"}
    /\ own \in [Names -> Creds \cup {None}]

FirstOf(seq) ==
    LET some == {i \in DOMAIN seq : seq[i] # None}
    IN IF some = {} THEN None ELSE seq[CHOOSE i \in some : \A j \in some : i <= j]

\* applyProfileEnvOverrides: the global variables are applied last and win, and
\* both come before whatever is in a file.
EnvToken(p, b) == FirstOf(<<env["global"].token[b], env[p].token[b]>>)
EnvBasic(p, b) == FirstOf(<<env["global"].basic[b], env[p].basic[b]>>)

\* applyProfileTokenFiles and the fallbacks to the files of the user.
Token(p, cfg, b) ==
    FirstOf(<<EnvToken(p, b), cfg.token[b], secrets[p].token[b], user.token[b]>>)

\* As Basic, with the files of the user before those of the profile.
BasicUserFirst(p, cfg, b) ==
    FirstOf(<<EnvBasic(p, b), cfg.basic[b], user.basic[b],
              IF b = "prometheus" THEN secrets[p].basic[b] ELSE None>>)

\* Of the basic files in the state directory only that of Prometheus is read.
Basic(p, cfg, b) ==
    FirstOf(<<EnvBasic(p, b), cfg.basic[b],
              IF b = "prometheus" THEN secrets[p].basic[b] ELSE None, user.basic[b]>>)

\* LoadForProfile: basic auth is preferred when there is any.
Load(p, cfg) ==
    Config(cfg.url,
           [b \in Backends |-> IF Basic(p, cfg, b) # None THEN None ELSE Token(p, cfg, b)],
           [b \in Backends |-> Basic(p, cfg, b)])

\* Every process starts from what is on disk.
OnDisk(p) == Load(p, files[p])

Init ==
    /\ \E u \in Urls : files \in [Names -> {None, Config(u, NoCreds, NoCreds)}]
    /\ legacy \in {None} \cup {Config(u, [NoCreds EXCEPT !["prometheus"] = c], NoCreds) :
                                  u \in Urls, c \in Creds}
    /\ legacy # None => files["default"] = None
    /\ activeFile \in Names
    /\ secrets = [p \in Names |-> Empty] /\ user = Empty
    /\ env \in Environments
    /\ active = [r \in Procs |-> None]
    /\ cache = [r \in Procs |-> [p \in Names |-> None]]
    /\ migrating = {}
    /\ own = [p \in Names |-> None]

\* --------------------------- opening a profile ---------------------------

Cached(r, p, cfg) == cache' = [cache EXCEPT ![r][p] = cfg]

\* loadDefaultProfile without a file: the legacy settings or the defaults are
\* written at once; config.json is renamed after that.
Migrate(r) ==
    /\ files' = [files EXCEPT !["default"] = legacy]
    /\ Cached(r, "default", legacy)
    /\ migrating' = migrating \cup {r}
    /\ UNCHANGED legacy

LoadProfile(r, p) ==
    \/ /\ files[p] # None
       /\ Cached(r, p, files[p])
       /\ UNCHANGED <<files, legacy, migrating>>
    \/ /\ files[p] = None /\ p = "default" /\ legacy # None
       /\ Migrate(r)
    \/ /\ files[p] = None /\ p = "default" /\ legacy = None
       /\ \E u \in Urls : LET cfg == Config(u, NoCreds, NoCreds) IN
             files' = [files EXCEPT ![p] = cfg] /\ Cached(r, p, cfg)
       /\ UNCHANGED <<legacy, migrating>>

\* InitializeFromCLI: a profile named by a flag is not made the active one; the
\* one of .active-profile is, and default stands in when it is gone.
Open(r, p) ==
    /\ active[r] = None
    /\ LoadProfile(r, p)
    /\ active' = [active EXCEPT ![r] = p]
    /\ \/ UNCHANGED activeFile
       \/ /\ p = activeFile \/ (p = "default" /\ files[activeFile] = None)
          /\ activeFile' = p
    /\ UNCHANGED <<secrets, user, env, own>>

RenameLegacy(r) ==
    /\ r \in migrating
    /\ migrating' = migrating \ {r}
    /\ legacy' = None
    /\ UNCHANGED <<files, activeFile, secrets, user, env, active, cache, own>>

Exit(r) ==
    /\ active[r] # None
    /\ active' = [active EXCEPT ![r] = None]
    /\ cache' = [cache EXCEPT ![r] = [p \in Names |-> None]]
    /\ migrating' = migrating \ {r}
    /\ UNCHANGED <<files, legacy, activeFile, secrets, user, env, own>>

\* ------------------------------- changes ---------------------------------

Ready(r) == active[r] # None /\ r \notin migrating

\* SaveForProfile: the copy in memory changes before the write can fail.
Save(r, p, cfg, written) ==
    /\ Cached(r, p, cfg)
    /\ files' = IF written THEN [files EXCEPT ![p] = cfg] ELSE files

\* Credentials are blanked before every save.
Sanitized(cfg) == Config(cfg.url, NoCreds, NoCreds)

\* The editors of the console: load, change, save, and then write what was
\* typed to the files of the user; any of the three writes may fail.
Edit(r, b, u, t, c) ==
    LET p == active[r] IN
    /\ Ready(r)
    /\ \E done \in 0..3 :
          /\ done = 2 => t # None
          /\ done = 3 => c # None
          /\ Save(r, p, Sanitized([Load(p, cache[r][p]) EXCEPT !.url = u]), done > 0)
          /\ user' = [token |-> IF t # None /\ done > 1 THEN [user.token EXCEPT ![b] = t]
                                ELSE user.token,
                      basic |-> IF c # None /\ done > 2 THEN [user.basic EXCEPT ![b] = c]
                                ELSE user.basic]
    /\ UNCHANGED <<legacy, activeFile, secrets, env, active, migrating, own>>

\* Ctrl+t and ctrl+b.
ClearFile(r, b) ==
    /\ Ready(r)
    /\ user' \in {[user EXCEPT !.token[b] = None], [user EXCEPT !.basic[b] = None]}
    /\ UNCHANGED <<files, legacy, activeFile, secrets, env, active, cache, migrating, own>>

\* SaveNewProfile at the end of the setup: the credentials go to the state
\* directory, which keeps older ones of another kind; then the profile.
SetUp(r, p, b, u, t, c) ==
    /\ Ready(r)
    /\ t = None \/ c = None
    /\ \E done \in BOOLEAN :
          /\ Save(r, p, Config(u, NoCreds, NoCreds), done)
          /\ own' = [own EXCEPT ![p] =
                        IF b # "prometheus" THEN @
                        ELSE IF done /\ secrets[p].basic[b] = None THEN c ELSE None]
    /\ secrets' = [secrets EXCEPT
                      ![p].token[b] = IF t # None THEN t ELSE @,
                      ![p].basic[b] = IF c # None THEN c ELSE @]
    /\ UNCHANGED <<legacy, activeFile, user, env, active, migrating>>

Next == \E r \in Procs :
    \/ \E p \in Names : Open(r, p)
    \/ RenameLegacy(r) \/ Exit(r)
    \/ \E b \in Backends, u \in Urls, in \in Typed :
          \/ Edit(r, b, u, in.token, in.basic)
          \/ \E p \in Names : SetUp(r, p, b, u, in.token, in.basic)
    \/ \E b \in Backends : ClearFile(r, b)

Spec == Init /\ [][Next]_vars

\* ------------------------------ properties -------------------------------

\* A profile that was set up with a user of its own for Prometheus is used with
\* this one by every later command, whatever is typed into the editors of the
\* console for any profile. Only a user of the environment comes before it.
OwnUserStays ==
    \A p \in Names : own[p] # None =>
        OnDisk(p).basic["prometheus"] = FirstOf(<<EnvBasic(p, "prometheus"), own[p]>>)

=============================================================================

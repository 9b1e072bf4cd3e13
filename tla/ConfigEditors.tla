--------------------------- MODULE ConfigEditors ---------------------------
(***************************************************************************)
(* The editors of the console (src/internal/tui/interactive_tui.go): one   *)
(* for each backend, for the correlation settings and for the choice of    *)
(* the log backend. Opening one loads the profile into text fields; enter  *)
(* on the last field checks them, saves the profile and writes the         *)
(* credentials that were typed to files of the user.                       *)
(*                                                                         *)
(* A field holds "" (nothing), "old" (what was configured), "new" or "bad" *)
(* (what no check lets pass). Cursor keys within a field, and what a       *)
(* terminal leaves in it, are left out, and the editors of no key (auth).  *)
(***************************************************************************)
EXTENDS Naturals, Sequences

CONSTANTS Opened,       \* editors this console opens
          MaxOpens,     \* bound on how often an editor is opened
          MaxTyped,     \* bound on how often a field is typed
          NoEditor

VARIABLES editor, index, inputs,
          says, test,   \* the message of the editor, and of its connection test
          copy, disk,   \* the profile: in memory, where Load reads it, and on disk
          files,        \* credential files of the user
          opens, typed

profile == <<copy, disk>>
budget == <<opens, typed>>
vars == <<editor, index, inputs, says, test, profile, files, budget>>

\* Fields by what is checked of them. Tempo and Jaeger edit the same settings.
PromFields == <<"url", "token", "user", "pass", "text", "number", "number", "number">>
LokiFields == <<"anyUrl", "token", "user", "pass", "text", "text", "checked", "checked",
                "number">>
GrafanaFields == <<"text", "token", "user", "pass", "text", "text">>
TraceFields == <<"maybeUrl", "token", "user", "pass", "text", "text", "text", "text",
                 "number", "maybeFlag">>
ElasticFields == <<"url", "text", "token", "user", "pass", "text", "text", "text", "text",
                   "text", "text", "text">>
CorrelationFields == <<"number", "number", "number", "checked", "flag">>
BackendFields == <<"text">>

Fields ==
    [prom |-> PromFields, loki |-> LokiFields, grafana |-> GrafanaFields,
     tempo |-> TraceFields, jaeger |-> TraceFields, elastic |-> ElasticFields,
     correlation |-> CorrelationFields, backend |-> BackendFields]

ConstantsAssumption ==
    /\ Opened \subseteq DOMAIN Fields /\ NoEditor \notin DOMAIN Fields
    /\ MaxOpens \in Nat /\ MaxTyped \in Nat

Owner(e) == IF e \in {"tempo", "jaeger"} THEN "trace" ELSE e
Owners == {Owner(e) : e \in Opened}
Secret == {"token", "user", "pass"}

Values(class) ==
    {"", "new"} \cup (IF class \in {"text", "anyUrl"} \cup Secret THEN {} ELSE {"bad"})

Required(class) == class \in {"url", "anyUrl", "flag"}
Accepts(class, v) == v # "bad" /\ (Required(class) => v # "")

\* An empty number and an empty flag of the traces keep what was configured.
Saved(class, v, old) == IF v = "" /\ class \in {"number", "maybeFlag"} THEN old ELSE v

NoCreds == [token |-> "", user |-> "", pass |-> ""]
At(e, class) == CHOOSE i \in DOMAIN Fields[e] : Fields[e][i] = class
TypedCreds(e) == [c \in Secret |-> inputs[At(e, c)]]
HasCreds(e) == \E i \in DOMAIN Fields[e] : Fields[e][i] \in Secret

\* LoadForProfile: a user and password are preferred to a token.
Creds(o, prof) ==
    IF o = "elastic" THEN prof[o].creds
    ELSE IF files[o].user # "" THEN [files[o] EXCEPT !.token = ""] ELSE files[o]

Settings(o) ==
    LET e == CHOOSE e \in Opened : Owner(e) = o
    IN [i \in DOMAIN Fields[e] |-> IF Fields[e][i] \in Secret THEN "" ELSE "old"]

Init ==
    /\ editor = NoEditor /\ index = 0 /\ inputs = <<>>
    /\ says = "" /\ test = ""
    /\ \E c \in {NoCreds, [token |-> "old", user |-> "", pass |-> ""],
                 [token |-> "", user |-> "old", pass |-> "old"]} :
          /\ files = [o \in Owners |-> IF o = "elastic" THEN NoCreds ELSE c]
          /\ copy = [o \in Owners |->
                [fields |-> Settings(o), creds |-> IF o = "elastic" THEN c ELSE NoCreds]]
    /\ disk = copy
    /\ opens = 0 /\ typed = 0

\* A token and a password are never put into a field; a user is by some.
Shown(e, i) ==
    LET class == Fields[e][i] IN
    IF class = "user" /\ e \in {"grafana", "loki", "elastic"} THEN Creds(Owner(e), copy).user
    ELSE IF class \in Secret THEN "" ELSE copy[Owner(e)].fields[i]

Open(e) ==
    /\ editor = NoEditor /\ opens < MaxOpens
    /\ editor' = e
    /\ index' = 1
    /\ inputs' = [i \in DOMAIN Fields[e] |-> Shown(e, i)]
    /\ says' = "" /\ test' = ""
    /\ opens' = opens + 1
    /\ UNCHANGED <<profile, files, typed>>

\* Esc, and q, which no field can contain.
Close ==
    /\ editor # NoEditor
    /\ editor' = NoEditor /\ index' = 0 /\ inputs' = <<>> /\ says' = "" /\ test' = ""
    /\ UNCHANGED <<profile, files, budget>>

\* Tab and shift+tab go round; enter goes on to the last field. The fields of
\* the choice of a backend are its options, and the arrows change the choice.
Move ==
    /\ editor # NoEditor
    /\ index' \in {(index % Len(inputs)) + 1, IF index = 1 THEN Len(inputs) ELSE index - 1}
    /\ UNCHANGED <<editor, inputs, says, test, profile, files, budget>>

Type(v) ==
    /\ editor # NoEditor /\ typed < MaxTyped
    /\ v \in Values(Fields[editor][index])
    /\ editor = "backend" => v # ""
    /\ inputs' = [inputs EXCEPT ![index] = v]
    /\ typed' = typed + 1
    /\ UNCHANGED <<editor, index, says, test, profile, files, opens>>

\* ------------------------------- saving ----------------------------------

Fine(e) == \A i \in DOMAIN inputs : Accepts(Fields[e][i], inputs[i])

\* What applyElasticUpdates does to the credentials, which are in the profile:
\* a user or a password puts an old token aside.
ElasticCreds(old, new) ==
    [new EXCEPT !.token = IF new.token # "" THEN new.token
                          ELSE IF new.user # "" \/ new.pass # "" THEN "" ELSE old.token]

Changed(e) ==
    [fields |-> [i \in DOMAIN inputs |->
        IF Fields[e][i] \in Secret THEN ""
        ELSE Saved(Fields[e][i], inputs[i], copy[Owner(e)].fields[i])],
     creds |-> IF e = "elastic" THEN ElasticCreds(copy["elastic"].creds, TypedCreds(e))
               ELSE NoCreds]

\* SaveForProfile: the copy in memory changes before the write can fail. The
\* whole profile is written, with what earlier writes failed to.
SaveProfile(e, written) ==
    /\ copy' = [copy EXCEPT ![Owner(e)] = Changed(e)]
    /\ disk' = IF written THEN copy' ELSE disk

\* The credential files: a token, then a user with a password, of which neither
\* may be empty. "done" is how many of the writes that are due succeed.
Due(e) == IF ~HasCreds(e) \/ e = "elastic" THEN {}
          ELSE {k \in {"token", "basic"} :
                  IF k = "token" THEN TypedCreds(e).token # ""
                  ELSE TypedCreds(e).user # "" \/ TypedCreds(e).pass # ""}

\* As Complete, taking any user and password for complete.
CompleteUnchecked(e) == TRUE

Complete(e) == TypedCreds(e).user # "" /\ TypedCreds(e).pass # ""

WriteFiles(e, done) ==
    /\ done \subseteq Due(e)
    /\ "basic" \in done => Complete(e) /\ (Due(e) \ {"basic"} \subseteq done)
    /\ files' = IF done = {} THEN files
                ELSE [files EXCEPT ![Owner(e)] =
                        [c \in Secret |->
                            IF (IF c = "token" THEN "token" ELSE "basic") \in done
                            THEN TypedCreds(e)[c] ELSE @[c]]]

\* The message after all was saved. That of Elasticsearch is set only when
\* there is none, so an older one stays.
SavedMessage(e) ==
    IF e # "elastic" THEN "saved"
    ELSE IF \A i \in {2, 6, 8, 9} : inputs[i] = "" THEN "auto"
    ELSE IF says = "" THEN "saved" ELSE says

Refuse(e) ==
    /\ ~Fine(e)
    /\ says' = "invalid"
    /\ UNCHANGED <<test, profile, files>>

\* As Fail, with the error dropped and the message of a success.
FailSilently(e) ==
    /\ Fine(e)
    /\ SaveProfile(e, FALSE)
    /\ says' = SavedMessage(e)
    /\ UNCHANGED <<test, files>>

\* config.Load fails, or the save does.
Fail(e) ==
    /\ Fine(e)
    /\ SaveProfile(e, FALSE) \/ UNCHANGED profile
    /\ says' = "failed"
    /\ UNCHANGED <<test, files>>

\* The profile is saved; with the files, the connection is tested.
Save(e) ==
    /\ Fine(e)
    /\ SaveProfile(e, TRUE)
    /\ \E done \in SUBSET Due(e) :
          /\ WriteFiles(e, done)
          /\ IF done = Due(e)
             THEN /\ says' = SavedMessage(e)
                  /\ IF e \in {"prom", "loki"} THEN test' \in {"ok", "bad"} ELSE test' = test
             ELSE says' = "failed" /\ test' = test

\* Enter on the last field.
Apply ==
    /\ editor # NoEditor /\ index = Len(inputs)
    /\ Refuse(editor) \/ Fail(editor) \/ Save(editor)
    /\ UNCHANGED <<editor, index, inputs, budget>>

\* Ctrl+t and ctrl+b remove a file, also one that is not there.
Clear(kind) ==
    /\ editor \in {"prom", "loki", "grafana", "tempo", "jaeger"}
    /\ \/ /\ files' = [files EXCEPT ![Owner(editor)] =
                          IF kind = "token" THEN [@ EXCEPT !.token = ""]
                          ELSE [@ EXCEPT !.user = "", !.pass = ""]]
          /\ says' = "cleared"
       \/ files' = files /\ says' = "failed"
    /\ UNCHANGED <<editor, index, inputs, test, profile, budget>>

Next ==
    \/ \E e \in Opened : Open(e)
    \/ \E v \in {"", "new", "bad"} : Type(v)
    \/ \E k \in {"token", "basic"} : Clear(k)
    \/ Close \/ Move \/ Apply

Spec == Init /\ [][Next]_vars

\* ------------------------------ properties -------------------------------

TypeOK ==
    /\ editor \in Opened \cup {NoEditor}
    /\ editor = NoEditor => inputs = <<>> /\ index = 0
    /\ editor # NoEditor => /\ index \in DOMAIN inputs
                            /\ DOMAIN inputs = DOMAIN Fields[editor]
    /\ \A i \in DOMAIN inputs : inputs[i] \in {"", "old", "new", "bad"}
    /\ says \in {"", "saved", "auto", "invalid", "failed", "cleared"}
    /\ test \in {"", "ok", "bad"}
    /\ DOMAIN copy = Owners /\ DOMAIN disk = Owners /\ DOMAIN files = Owners
    /\ opens \in 0..MaxOpens /\ typed \in 0..MaxTyped

\* An editor that says it has saved has done so: all the console has in memory,
\* also what earlier saves failed to write, is on disk.
SavedIsOnDisk == says \in {"saved", "auto"} => disk = copy

\* A save that leaves the field of the password empty, and that of the token,
\* takes nobody's access away: through incomplete users, failing writes and
\* files shared by two editors, the credentials a later command reads stay
\* until new ones are complete or a key clears them. (Those of Elasticsearch
\* do not: they are part of the profile.)
SecretsKept ==
    [][\A o \in Owners \ {"elastic", "correlation", "backend"} :
          /\ editor' = editor /\ editor # NoEditor /\ says' # "cleared"
          /\ HasCreds(editor) => TypedCreds(editor).token = "" /\ TypedCreds(editor).pass = ""
          => Creds(o, disk)' = Creds(o, disk)]_vars

=============================================================================

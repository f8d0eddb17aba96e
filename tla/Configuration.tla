---------------------------- MODULE Configuration ----------------------------
(***************************************************************************)
(* ConfigurationService: a variable has a raw value, from config.json, the *)
(* environment or its default, and the value computed from it, which the   *)
(* services read when they are built and when they are reloaded.  An       *)
(* update sets the variables of a request one by one, each at once in      *)
(* memory and in the file, and then reloads the services it changed; the   *)
(* wizard of the first start sets the variables of one service and tests   *)
(* it.                                                                     *)
(***************************************************************************)
EXTENDS Naturals, FiniteSets, Sequences

CONSTANTS
    Variables,
    Secrets,       \* variables whose value is a password
    Generated,     \* variables whose default is drawn at random, such as JWT_SECRET
    ServiceOf,     \* the service each variable belongs to
    ReadOnce,      \* variables a service reads when it is built and not when it is reloaded
    Restartable,   \* services that can be reloaded (all but SERVER)
    Environments,  \* what a process may be given: "unset" is no value
    Updates        \* requests, and the wizard

ASSUME ConfigurationAssumption ==
    /\ Secrets \subseteq Variables /\ Generated \subseteq Variables \ Secrets
    /\ ReadOnce \subseteq Variables
    /\ ServiceOf \in [Variables -> {ServiceOf[k] : k \in Variables}]
    /\ Restartable \subseteq {ServiceOf[k] : k \in Variables}
    /\ Environments \subseteq [Variables -> {"unset", "A", "a", "b", "bad"}]
    /\ \A e \in Environments : \A k \in Secrets \cup Generated : e[k] \in {"unset", "a", "b"}

VARIABLES
    env,           \* the environment the process was given
    dotenv,        \* the .env file, of which the drawn defaults are kept
    raw,           \* _rawValues
    computed,      \* _computedValues
    fileData,      \* _fileData: what the file should hold; "unset" is no entry
    file,          \* config.json
    inSetup,       \* runSetup has not returned
    updates,       \* stage, values still to set, services changed, keys refused
    owed,          \* <<r, k>>: r set k, and its service has not read it since
    unsaved        \* history: a save has failed, and none succeeded since

configVars == <<env, dotenv, raw, computed, fileData, file, inSetup, updates, owed, unsaved>>

\* The default in another spelling, another value, and one the transform refuses;
\* no secret and no drawn value has a transform.
ValuesOf(k) == IF k \in Secrets \cup Generated THEN {"a", "b"} ELSE {"A", "b", "bad"}

\* getDefaultValue: none, any of the values that may be drawn, or the fixed one.
FixedDefault == "a"
DefaultsOf(k) == IF k \in Secrets THEN {"unset"} ELSE IF k \in Generated THEN ValuesOf(k) ELSE {FixedDefault}
Defaults == {d \in [Variables -> {"unset", "a", "b"}] : \A k \in Variables : d[k] \in DefaultsOf(k)}

\* applyTransform
IsValid(v) == v # "bad"
Transformed(k, v) == IF k \notin Secrets /\ v = "A" THEN "a" ELSE v

\* precomputeValues: a stored value that is not valid gives way to the default.
Computed(k, v) == Transformed(k, IF IsValid(v) THEN v ELSE FixedDefault)

\* node --env-file: what the environment has, the file does not replace.
Overlaid(e, saved) == [k \in Variables |-> IF e[k] # "unset" THEN e[k] ELSE saved[k]]

\* autoConfigureDefaults and loadConfigFile: the file before the environment
\* before the default.  The name of the variable is looked at for the prefix of
\* an encrypted value, which no name has: every value is taken as it stands.
Loaded(e, f, d, k) == IF f[k] # "unset" THEN f[k] ELSE IF e[k] # "unset" THEN e[k] ELSE d[k]

\* autoConfigureDefaults, saveToEnvFile: a default that was drawn, because the
\* environment has none, is saved to .env for the starts to come.
DrawnSaved(e, saved, d) ==
    [k \in Variables |-> IF k \in Generated /\ e[k] = "unset" THEN d[k] ELSE saved[k]]

\* Mutation: a value that is the default is not written to the file.
OnDiskUnlessDefault(k, v) == IF v \in DefaultsOf(k) THEN "unset" ELSE v

\* What setValue writes to the file.
OnDisk(k, v) == IF k \in Secrets THEN "enc:" \o v ELSE v

NoUpdate == [stage |-> "idle", todo |-> [k \in {} |-> "unset"], changed |-> {}, refused |-> FALSE]
Ended(stage) == [NoUpdate EXCEPT !.stage = stage]
Busy(r) == updates[r].stage \in {"setting", "reloading"}

NothingSet == [k \in Variables |-> "unset"]

CfInit ==
    /\ env = NothingSet /\ file = NothingSet /\ fileData = NothingSet
    /\ \E d \in Defaults : raw = d /\ dotenv = DrawnSaved(env, NothingSet, d)
    /\ computed = [k \in Variables |-> Computed(k, raw[k])]
    /\ inSetup = TRUE
    /\ updates = [r \in Updates |-> NoUpdate]
    /\ owed = {} /\ unsaved = FALSE

\* init: a process starts, in another environment perhaps, and every service is
\* built.  It finds its .env file, or none: in a new container, or in a directory
\* other than the one it is written in.
Start ==
    /\ env' \in Environments
    /\ \E saved \in {dotenv, NothingSet}, d \in Defaults :
          /\ dotenv' = DrawnSaved(Overlaid(env', saved), saved, d)
          /\ raw' = [k \in Variables |-> Loaded(Overlaid(env', saved), file, d, k)]
    /\ computed' = [k \in Variables |-> Computed(k, raw'[k])]
    /\ fileData' = file
    /\ inSetup' = TRUE
    /\ updates' = [r \in Updates |-> NoUpdate]
    /\ owed' = {} /\ unsaved' = FALSE
    /\ UNCHANGED file

\* runSetup returns: nothing is missing, or there is no terminal, or the
\* wizard is through.
EndSetup ==
    /\ inSetup /\ \A r \in Updates : ~Busy(r)
    /\ inSetup' = FALSE
    /\ UNCHANGED <<env, dotenv, raw, computed, fileData, file, updates, owed, unsaved>>

\* One id stands for one request of the life of a process.
Begin(r, values) ==
    /\ updates[r].stage = "idle"
    /\ updates' = [updates EXCEPT ![r].stage = "setting", ![r].todo = values]
    /\ UNCHANGED <<env, dotenv, raw, computed, fileData, file, inSetup, owed, unsaved>>

\* updateConfigs, for the entries of a PUT.
UpdateConfigs(r) ==
    /\ ~inSetup
    /\ \E K \in SUBSET Variables \ {{}} :
          \E values \in [K -> UNION {ValuesOf(k) : k \in K}] :
             (\A k \in K : values[k] \in ValuesOf(k)) /\ Begin(r, values)

\* promptForVariable asks again for a value that the transform refuses.
WizardValues == {"a", "b"}

\* configureService: the wizard asks for the variables of one service, alone.
ConfigureService(r) ==
    /\ inSetup /\ \A q \in Updates : ~Busy(q)
    /\ \E s \in {ServiceOf[k] : k \in Variables} :
          \E v \in WizardValues : Begin(r, [k \in {q \in Variables : ServiceOf[q] = s} |-> v])

\* setValue: a value that is stored already, or has the same meaning, is none.
Unchanged(k, v) == raw[k] = v \/ (IsValid(v) /\ computed[k] = Transformed(k, v))

\* Mutation: only the service that was changed last is reloaded.
ServiceChanged(r, k) == {ServiceOf[k]}

\* The services whose variables have changed.
ServicesChanged(r, k) == updates[r].changed \cup {ServiceOf[k]}

\* setValue: without effect, refused by the transform, set and saved, or set
\* and not saved, which the caller takes for a value that was refused.
SetValue(r, k) ==
    /\ updates[r].stage = "setting" /\ k \in DOMAIN updates[r].todo
    /\ LET v == updates[r].todo[k]
           left == [updates[r] EXCEPT !.todo = [q \in DOMAIN @ \ {k} |-> @[q]]]
       IN  \/ /\ Unchanged(k, v)
              /\ updates' = [updates EXCEPT ![r] = left]
              /\ UNCHANGED <<raw, computed, fileData, file, unsaved, owed>>
           \/ /\ ~Unchanged(k, v) /\ ~IsValid(v)
              /\ updates' = [updates EXCEPT ![r] = [left EXCEPT !.refused = TRUE]]
              /\ UNCHANGED <<raw, computed, fileData, file, unsaved, owed>>
           \/ /\ ~Unchanged(k, v) /\ IsValid(v)
              /\ raw' = [raw EXCEPT ![k] = v]
              /\ computed' = [computed EXCEPT ![k] = Transformed(k, v)]
              /\ fileData' = [fileData EXCEPT ![k] = OnDisk(k, v)]
              /\ owed' = owed \cup {<<r, k>>}
              /\ \/ /\ file' = fileData' /\ unsaved' = FALSE
                    /\ updates' = [updates EXCEPT ![r] = [left EXCEPT !.changed = ServicesChanged(r, k)]]
                 \/ /\ unsaved' = TRUE /\ UNCHANGED file
                    /\ updates' = [updates EXCEPT ![r] = [left EXCEPT !.refused = TRUE]]
    /\ UNCHANGED <<env, dotenv, inSetup>>

\* One key that was refused and the update returns, reloading nothing.
EndSetting(r) ==
    /\ updates[r].stage = "setting" /\ DOMAIN updates[r].todo = {}
    /\ updates' = [updates EXCEPT ![r] = IF @.refused THEN Ended("failed") ELSE [@ EXCEPT !.stage = "reloading"]]
    /\ UNCHANGED <<env, dotenv, raw, computed, fileData, file, inSetup, owed, unsaved>>

\* reload: the service reads its variables again, but for those that only its
\* constructor reads (of DOWNLOAD all but the path).
Reads(s) == owed' = {o \in owed : ServiceOf[o[2]] # s \/ o[2] \in ReadOnce}

\* The reload of one service that was changed; one that cannot be reloaded is
\* named in the answer.  A reload that throws ends the update.
ReloadChanged(r) ==
    /\ updates[r].stage = "reloading"
    /\ \E s \in updates[r].changed :
          \/ /\ updates' = [updates EXCEPT ![r].changed = @ \ {s}]
             /\ IF s \in Restartable THEN Reads(s) ELSE UNCHANGED owed
          \/ /\ s \in Restartable
             /\ updates' = [updates EXCEPT ![r] = Ended("failed")]
             /\ UNCHANGED owed
    /\ UNCHANGED <<env, dotenv, raw, computed, fileData, file, inSetup, unsaved>>

AnswerUpdate(r) ==
    /\ updates[r].stage = "reloading" /\ updates[r].changed = {}
    /\ updates' = [updates EXCEPT ![r] = Ended("succeeded")]
    /\ UNCHANGED <<env, dotenv, raw, computed, fileData, file, inSetup, owed, unsaved>>

\* The route /:service/restart, and the self test of a start.
RestartService(s) ==
    /\ Reads(s)
    /\ UNCHANGED <<env, dotenv, raw, computed, fileData, file, inSetup, updates, unsaved>>

CfNext ==
    \/ Start
    \/ EndSetup
    \/ \E r \in Updates :
          \/ UpdateConfigs(r) \/ ConfigureService(r)
          \/ \E k \in Variables : SetValue(r, k)
          \/ EndSetting(r) \/ ReloadChanged(r) \/ AnswerUpdate(r)
    \/ \E s \in Restartable : RestartService(s)

CfSpec == CfInit /\ [][CfNext]_configVars

-----------------------------------------------------------------------------
AllValues == {"a", "A", "b", "bad", "unset"} \cup {"enc:" \o v : v \in {"a", "b"}}

\* Types of the state of the configuration.
CfTypeOK ==
    /\ \A m \in {env, dotenv, raw, computed, fileData, file} : m \in [Variables -> AllValues]
    /\ inSetup \in BOOLEAN /\ unsaved \in BOOLEAN
    /\ owed \subseteq Updates \X Variables
    /\ \A r \in Updates : updates[r].stage \in {"idle", "setting", "reloading", "failed", "succeeded"}

\* An update that is answered with success has reached every service that it
\* concerns: whatever other updates and reloads ran meanwhile, each restartable
\* service has read every variable the update set (updateConfigs, 464-510).  The
\* variables a service reads only when it is built are not among them: they are
\* answered with success too, and wait for the next start (download.service.ts:68-82).
SuccessMeansInForce ==
    \A r \in Updates, k \in Variables \ ReadOnce :
        updates[r].stage = "succeeded" /\ ServiceOf[k] \in Restartable => <<r, k>> \notin owed

\* A process that stopped now would start again with the value it works with, in
\* the same environment and with these drawn defaults in its .env file, as long as
\* no save failed: of what was set and saved, the environment, the defaults and the
\* transforms change nothing (precedence, 39-44).
SurvivesRestart(k, saved) ==
    ~unsaved => \A d \in Defaults : Computed(k, Loaded(Overlaid(env, saved), file, d, k)) = computed[k]

\* Every variable that is not a secret survives a restart that finds the .env file,
\* the random ones too, which "must be saved to avoid them changing at every run"
\* (182); those with a fixed default survive one that does not find it.
RestartKeepsSettings ==
    /\ \A k \in Variables \ Secrets : SurvivesRestart(k, dotenv)
    /\ \A k \in Variables \ (Secrets \cup Generated) : SurvivesRestart(k, NothingSet)

\* The same for secrets: config.json is their "On-disk representation (secrets
\* have enc: prefix)" (50), so what is read back is what was set.
RestartKeepsSecrets == \A k \in Secrets : SurvivesRestart(k, dotenv)

=============================================================================

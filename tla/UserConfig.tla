----------------------------- MODULE UserConfig -----------------------------
(***************************************************************************)
(* userConfig.ts: config.json, which holds the model the user has chosen   *)
(* and the last job. A setting is changed by reading the file, changing    *)
(* one field and writing all of it in place. No lock is taken: any number  *)
(* of processes of the CLI do so, and read it, at the same time.           *)
(***************************************************************************)
EXTENDS Processes

CONSTANTS Model,      \* model ids
          Job         \* job ids

VARIABLES config,     \* what config.json loads as
          edit,       \* edit[p]: the save p is in the middle of
          lastSet,    \* history: what each setting was last set to
          raced       \* history: two saves overlapped, a save was cut short,
                      \* or the file was read while it was being written

configVars == <<config, edit, lastSet, raced>>

ASSUME ConfigAssumption == None \notin Model \cup Job

Settings == [model : Model \cup {None}, job : Job \cup {None}]
(* A missing file, an empty one and a torn one load alike.                 *)
NoSettings == [model |-> None, job |-> None]

Idle == [at |-> "idle", field |-> "model", next |-> NoSettings]
Saving(p) == edit[p].at # "idle"
Writing == \E p \in Proc : edit[p].at = "write"

ConfigInit ==
    /\ config = NoSettings
    /\ edit = [p \in Proc |-> Idle]
    /\ lastSet = config
    /\ raced = FALSE

(* setActiveModelId, setLastJobId: load, change one field.                 *)
\* Mutant of LoadConfig: the file is not read before it is written.
LoadConfigAfresh(p, field, value) ==
    /\ edit' = [edit EXCEPT ![p] = [at |-> "truncate", field |-> field,
                                    next |-> [NoSettings EXCEPT ![field] = value]]]
    /\ raced' = (raced \/ \E q \in Proc : Saving(q))
    /\ UNCHANGED <<config, lastSet>>
LoadConfig(p, field, value) ==
    /\ edit' = [edit EXCEPT ![p] = [at |-> "truncate", field |-> field,
                                    next |-> [config EXCEPT ![field] = value]]]
    /\ raced' = (raced \/ \E q \in Proc : Saving(q))
    /\ UNCHANGED <<config, lastSet>>

(* saveUserConfig: the file is opened, which empties it, and written.      *)
TruncateConfig(p) ==
    /\ edit[p].at = "truncate"
    /\ config' = NoSettings
    /\ edit' = [edit EXCEPT ![p].at = "write"]
    /\ UNCHANGED <<lastSet, raced>>
WriteConfig(p) ==
    /\ edit[p].at = "write"
    /\ config' = edit[p].next
    /\ edit' = [edit EXCEPT ![p] = Idle]
    /\ lastSet' = [lastSet EXCEPT ![edit[p].field] = edit[p].next[edit[p].field]]
    /\ UNCHANGED raced

(* The process is killed in the middle of a save.                          *)
KilledSaving(p) ==
    /\ Saving(p)
    /\ edit' = [edit EXCEPT ![p] = Idle]
    /\ raced' = (raced \/ edit[p].at = "write")
    /\ UNCHANGED <<config, lastSet>>

ConfigTypeOK ==
    /\ config \in Settings /\ lastSet \in Settings /\ raced \in BOOLEAN
    /\ edit \in [Proc -> [at : {"idle", "truncate", "write"},
                          field : {"model", "job"}, next : Settings]]

(* A choice of model survives a job id that is stored later, and the other *)
(* way round: the file holds what each setting was last set to, except     *)
(* while it is being written and after two saves have overlapped or one    *)
(* was cut short (userConfig.ts 31-36, 48-53).                             *)
SettingsKept == ~raced /\ ~Writing => config = lastSet
=============================================================================

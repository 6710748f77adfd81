----------------------------- MODULE LocalModel -----------------------------
(***************************************************************************)
(* mastra/foundryLocal.ts and the model object of mastra/agents/index.ts:  *)
(* how a process finds the local model service, the gate before every use  *)
(* of it, and the object that is resolved once and kept for the life of    *)
(* the process. The service picks a port whenever it starts.               *)
(***************************************************************************)
EXTENDS UserConfig

CONSTANTS Port,          \* loopback endpoints the service may listen on
          Foreign,       \* an endpoint on another machine
          EnvEndpoint,   \* per process: FOUNDRY_LOCAL_ENDPOINT and its aliases
          EnvModel,      \* per process: FOUNDRY_LOCAL_MODEL or MASTRA_MODEL
          Resolves       \* processes that can start the `foundry` command

VARIABLES service,       \* the port the service listens on, or None
          endpointFile,  \* the endpoint that was last known to be good
          probing,       \* probing[p]: the endpoint the gate of p asks
          cached,        \* cached[p]: the model object of the agents of p
          picked,        \* history: the model p was the last to choose, if any
          vouched        \* vouched[p], history: p has passed the gate, and the
                         \* service has stayed where it is since

modelVars == <<service, endpointFile, probing, cached, picked, vouched>>

Endpoint == Port \cup {Foreign}
ASSUME ModelAssumption ==
    /\ None \notin Endpoint /\ Foreign \notin Port
    /\ EnvEndpoint \in [Proc -> Endpoint \cup {None}]
    /\ EnvModel \in [Proc -> Model \cup {None}]
    /\ Resolves \subseteq Proc

LocalModelInit ==
    /\ service \in Port \cup {None}
    /\ endpointFile = None
    /\ probing = [p \in Proc |-> None]
    /\ cached = [p \in Proc |-> None]
    /\ picked = [p \in Proc |-> None]
    /\ vouched = [p \in Proc |-> FALSE]

isLoopbackEndpoint(e) == e \in Port

(* discoverFoundryEndpoint: the environment, else what `foundry service    *)
(* status` says, if it runs (answers), else the file.                      *)
Status(p, answers) == IF answers /\ p \in Resolves THEN service ELSE None
Discovered(p, answers) ==
    IF EnvEndpoint[p] # None THEN EnvEndpoint[p]
    ELSE IF Status(p, answers) # None THEN Status(p, answers)
    ELSE endpointFile
(* What was found by the command is kept in the file.                      *)
Remember(p, answers) ==
    endpointFile' = IF EnvEndpoint[p] = None /\ Status(p, answers) # None
                    THEN service ELSE endpointFile

(* ensureFoundryLocalReady looks for an endpoint on this machine...        *)
GateFinds(p, answers) ==
    /\ isLoopbackEndpoint(Discovered(p, answers))
    /\ probing' = [probing EXCEPT ![p] = Discovered(p, answers)]
    /\ Remember(p, answers)
    /\ UNCHANGED <<service, cached, picked, vouched>>
GateRefuses(p, answers) ==
    /\ ~isLoopbackEndpoint(Discovered(p, answers))
    /\ Remember(p, answers)
    /\ UNCHANGED <<service, probing, cached, picked, vouched>>

(* ...and asks it for its models (probeFoundryLocal).                      *)
\* Mutant of ProbeReaches: an endpoint is taken for the service unasked.
ProbeReachesAny(p) ==
    /\ endpointFile' = probing[p]
    /\ probing' = [probing EXCEPT ![p] = None]
    /\ vouched' = [vouched EXCEPT ![p] = @ \/ cached[p] = None]
    /\ UNCHANGED <<service, cached, picked>>
ProbeReaches(p) ==
    /\ probing[p] = service
    /\ endpointFile' = probing[p]
    /\ probing' = [probing EXCEPT ![p] = None]
    /\ vouched' = [vouched EXCEPT ![p] = @ \/ cached[p] = None]
    /\ UNCHANGED <<service, cached, picked>>
ProbeFails(p) ==
    /\ probing' = [probing EXCEPT ![p] = None]
    /\ UNCHANGED <<service, endpointFile, cached, picked, vouched>>

getActiveModelId(p) == IF config.model # None THEN config.model ELSE EnvModel[p]

(* resolveModel: the object that is there, else a new one.                 *)
Resolvable(p, answers) ==
    getActiveModelId(p) # None /\ isLoopbackEndpoint(Discovered(p, answers))
ModelKnown(p) ==
    /\ cached[p] # None
    /\ UNCHANGED <<modelVars, configVars>>
ModelResolved(p, answers) ==
    /\ cached[p] = None /\ Resolvable(p, answers)
    /\ cached' = [cached EXCEPT ![p] = [model |-> getActiveModelId(p),
                                        url |-> Discovered(p, answers)]]
    /\ Remember(p, answers)
    /\ raced' = (raced \/ Writing)
    /\ UNCHANGED <<service, probing, picked, vouched, config, edit, lastSet>>
ModelUnresolved(p, answers) ==
    /\ cached[p] = None /\ ~Resolvable(p, answers)
    /\ endpointFile' = IF getActiveModelId(p) = None THEN endpointFile
                       ELSE IF EnvEndpoint[p] = None /\ Status(p, answers) # None
                            THEN service ELSE endpointFile
    /\ raced' = (raced \/ Writing)
    /\ UNCHANGED <<service, probing, cached, picked, vouched, config, edit, lastSet>>

(* The end of setActiveModelId in the process that chose: its own object   *)
(* is dropped (invalidateModelCache). Others keep theirs.                  *)
\* Mutant of ModelChosen: the model object is not dropped.
ModelChosenLater(p) ==
    /\ WriteConfig(p)
    /\ picked' = IF edit[p].field # "model" THEN picked
                 ELSE [q \in Proc |-> IF q = p THEN edit[p].next.model ELSE None]
    /\ UNCHANGED <<cached, service, endpointFile, probing, vouched>>
ModelChosen(p) ==
    /\ WriteConfig(p)
    /\ IF edit[p].field = "model"
       THEN /\ cached' = [cached EXCEPT ![p] = None]
            /\ picked' = [q \in Proc |-> IF q = p THEN edit[p].next.model ELSE None]
       ELSE UNCHANGED <<cached, picked>>
    /\ UNCHANGED <<service, endpointFile, probing, vouched>>

(* The service stops, or starts again: on whatever port is free.           *)
ServiceMoves == \E port \in (Port \cup {None}) \ {service} :
    /\ service' = port
    /\ vouched' = [p \in Proc |-> FALSE]
    /\ UNCHANGED <<endpointFile, probing, cached, picked>>

LocalModelTypeOK ==
    /\ service \in Port \cup {None} /\ endpointFile \in Port \cup {None}
    /\ probing \in [Proc -> Port \cup {None}]
    /\ cached \in [Proc -> [model : Model, url : Port] \cup {None}]
    /\ picked \in [Proc -> Model \cup {None}] /\ vouched \in [Proc -> BOOLEAN]
=============================================================================

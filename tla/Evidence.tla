------------------------------- MODULE Evidence -------------------------------
(***************************************************************************)
(* The evidence a specialist starts from: one of the four probes of        *)
(* mastra/tools/specialistTools.ts, run in an execution context, and the   *)
(* decisions drawn from its report. The branches of a run share nothing    *)
(* but the context, which they only read, so that each is followed by      *)
(* itself: Troubleshoot has them side by side.                             *)
(***************************************************************************)
EXTENDS Connectivity, EndpointHealth, AuthPolicy, LogEvidence

vars == <<probeVars, connVars, healthVars, authVars, logVars>>

(* Values of the probes that are not run.                                  *)
NoNetwork == up = {} /\ trusted = {} /\ tlsExit = {} /\ due = {} /\ good = {} /\ untrusted = {}
NoAgent == agent = {} /\ delivery = "" /\ asked = {} /\ found = Nothing
NoService == api = {} /\ target = "" /\ auth = Unasked /\ paths = {}
NoLogs == /\ host = {} /\ power = <<>> /\ files = <<>> /\ counts = <<>>
          /\ read = <<>> /\ source = "none" /\ top = <<>>

Init == \/ ContextInit("connectivity") /\ ConnectivityInit /\ NoAgent /\ NoService /\ NoLogs
        \/ ContextInit("endpoint-health") /\ EndpointHealthInit /\ NoNetwork /\ NoService /\ NoLogs
        \/ ContextInit("auth-policy") /\ AuthPolicyInit /\ NoNetwork /\ NoAgent /\ NoLogs
        \/ ContextInit("log-intelligence") /\ LogEvidenceInit /\ NoNetwork /\ NoAgent /\ NoService

Next ==
    \/ /\ branch = "connectivity" /\ ConnectivityNext
       /\ UNCHANGED <<healthVars, authVars, logVars>>
    \/ /\ branch = "endpoint-health" /\ EndpointHealthNext
       /\ UNCHANGED <<connVars, authVars, logVars>>
    \/ /\ branch = "auth-policy" /\ AuthPolicyNext
       /\ UNCHANGED <<connVars, healthVars, logVars>>
    \/ /\ branch = "log-intelligence" /\ LogEvidenceNext
       /\ UNCHANGED <<connVars, healthVars, authVars>>

Spec == Init /\ [][Next]_vars

-----------------------------------------------------------------------------
(* Types of what the probes keep. The truth about a host is chosen once.   *)
TypeOK ==
    /\ ctx \in Contexts /\ lost \in BOOLEAN
    /\ \A c \in causes : c.score \in 1 .. 92
    /\ due \subseteq Checks(Endpoint) /\ good \subseteq up /\ untrusted \subseteq WebChecks(Endpoint)
    /\ asked \subseteq Command
    /\ found \in [service : {"none", "Running", "Stopped"}, process : BOOLEAN, install : BOOLEAN]
    /\ paths \subseteq PolicyPaths /\ auth.denied \subseteq PolicyPaths
    /\ Len(auth.devices) <= MaxDevices
    /\ Len(files) <= MaxFiles /\ Len(top) <= TopSignatures
    /\ \A i \in DOMAIN counts : counts[i] \in Signature \X (Nat \ {0})

(* specialistTools.ts turns reports into root causes that the workflow     *)
(* marks as anchored in evidence. What such a cause claims is so on the    *)
(* host: what it says was found, always; that something is missing or      *)
(* refused, as long as every command of the probe has answered.            *)
CausesAreReal ==
    Reported =>
    CASE branch = "connectivity" -> ~lost => ConnectivityCausesReal
      [] branch = "endpoint-health" -> EndpointHealthCausesReal
      [] branch = "auth-policy" -> AuthCausesReal
      [] branch = "log-intelligence" -> ~lost => LogCausesReal

(* The converse: a required endpoint that does not work (and is not behind *)
(* a remote TLS failure), an agent that is not there or does not run, a    *)
(* refused token or path, or a target that is not online is among the      *)
(* causes, also when commands are lost where these decide by absence; and  *)
(* a fault the log repeats at least four times leads to a cause unless     *)
(* benign lines are thirteen times as many.                                *)
FaultsAreNamed ==
    Reported =>
    CASE branch = "connectivity" -> ConnectivityFaultsNamed
      [] branch = "endpoint-health" -> EndpointHealthFaultsNamed
      [] branch = "auth-policy" -> AuthFaultsNamed
      [] branch = "log-intelligence" -> LogFaultsNamed

(* rankSignatures is the one ranking of all scan paths: the signature that *)
(* is blamed outweighs every other one among all the lines read, however   *)
(* these were spread over files, and no benign one is ever blamed.         *)
BlamesTheHeaviest ==
    branch = "log-intelligence" =>
    \A c \in causes : \A s \in c.about :
        /\ CategoryOf(s) # "benign"
        /\ \A t \in Signature : LinesOf(s) * WeightOf(s) >= LinesOf(t) * WeightOf(t)

(* Drops through standby, once harvested, are among the causes of every    *)
(* report that rests on some log, and the noise of reconnecting ranks      *)
(* below them, whatever its volume. (logs.ts 805-807; fromLogs drops them  *)
(* when no log was found.)                                                 *)
StandbyLeads ==
    Reported /\ branch = "log-intelligence" /\ source # "none" /\ standbyExplainsDrops =>
        \E c \in causes : /\ c.kind = "standby"
                          /\ \A d \in causes \ {c} : \A s \in d.about :
                                "reconnect" \in Matches[s] => d.score < c.score

-----------------------------------------------------------------------------
(* The inductive invariant behind the theorems of EvidenceProofs: of the   *)
(* probe that runs, what its module says; the others keep their values.    *)
EvidenceInv ==
    /\ TypeOK /\ ContextInv
    /\ branch \in {"connectivity", "endpoint-health", "auth-policy", "log-intelligence"}
    /\ IF branch = "connectivity" THEN ConnectivityInv ELSE NoNetwork
    /\ IF branch = "endpoint-health" THEN EndpointHealthInv ELSE NoAgent
    /\ IF branch = "auth-policy" THEN AuthInv ELSE NoService
    /\ IF branch = "log-intelligence" THEN LogInv ELSE NoLogs
=============================================================================

---------------------------- MODULE EndpointHealth ----------------------------
(***************************************************************************)
(* runEndpointHealthProbe and fromEndpointHealth. Three commands at once   *)
(* look for the services of the product, its processes and an installed    *)
(* version; what a lost command would have found counts as absent.         *)
(***************************************************************************)
EXTENDS ProbeContext, FiniteSets

CONSTANT Deliveries   \* delivery models considered

VARIABLES agent,      \* the truth about the product on the host
          delivery,   \* the delivery model of its profile
          asked,      \* commands under way
          found       \* what the answers said

healthVars == <<agent, delivery, asked, found>>

ASSUME DeliveriesAssumption == Deliveries \subseteq {"local-agent", "cloud-or-mobile"}

Command == {"services", "wrapper", "processes", "install"}

(* installed; visible: its version or ID is where the probe looks for it;  *)
(* service: what the service manager says; running: it has a process;      *)
(* failedOnce: its service has ended with an error at some time;           *)
(* systemd: Linux has systemd. What is not installed leaves no traces.     *)
Agents == {a \in [installed : BOOLEAN, visible : BOOLEAN, running : BOOLEAN,
                  service : {"none", "Running", "Stopped"},
                  failedOnce : BOOLEAN, systemd : BOOLEAN] :
             ~a.installed => ~a.visible /\ ~a.running /\ a.service = "none"}

Nothing == [service |-> "none", process |-> FALSE, install |-> FALSE]

EndpointHealthInit ==
    /\ agent \in Agents
    /\ delivery \in Deliveries
    /\ asked = {}
    /\ found = Nothing

(* No command is sent to a system that is not known.                       *)
HealthCommands ==
    /\ pc = "start"
    /\ asked' = IF ctx.os = "unknown" THEN {} ELSE {"services", "processes", "install"}
    /\ Goto("asked", FALSE)
    /\ UNCHANGED <<agent, delivery, found>>

(* launchctl shows the status a job last ended with, not that it runs now. *)
MacStatus == IF agent.service = "none" THEN "none"
             ELSE IF agent.failedOnce THEN "Stopped" ELSE "Running"

(* getWindowsServices, getMacServices, getLinuxServices where systemd is.  *)
Silent == ctx.os = "linux" /\ ~agent.systemd
ServicesAnswer ==
    /\ "services" \in asked /\ ~Silent
    /\ found' = [found EXCEPT !.service =
                    IF ctx.os = "macos" THEN MacStatus ELSE agent.service]
    /\ asked' = asked \ {"services"}
    /\ Goto(pc, FALSE)
    /\ UNCHANGED <<agent, delivery>>

(* No output on Linux, because systemd or the answer is missing: the older *)
(* `service` wrapper is asked.                                             *)
ServicesSilent == \E missed \in BOOLEAN :
    /\ "services" \in asked /\ ctx.os = "linux" /\ (Silent \/ missed)
    /\ asked' = (asked \ {"services"}) \cup {"wrapper"}
    /\ Goto(pc, missed)
    /\ UNCHANGED <<agent, delivery, found>>

(* Its words for a stopped service may be "is not running" or "inactive",  *)
(* which contain the words the code looks for.                             *)
WrapperAnswers == \E worded \in BOOLEAN :
    /\ "wrapper" \in asked
    /\ found' = IF agent.service = "Running" \/ (agent.service = "Stopped" /\ worded)
                THEN [found EXCEPT !.service = "Running"] ELSE found
    /\ asked' = asked \ {"wrapper"}
    /\ Goto(pc, FALSE)
    /\ UNCHANGED <<agent, delivery>>

(* getWindowsProcesses, getPosixProcesses.                                 *)
ProcessesAnswer ==
    /\ "processes" \in asked
    /\ found' = [found EXCEPT !.process = agent.running]
    /\ asked' = asked \ {"processes"}
    /\ Goto(pc, FALSE)
    /\ UNCHANGED <<agent, delivery>>

(* getWindowsRegistry, getLinuxInfo, getMacInfo.                           *)
InstallAnswers ==
    /\ "install" \in asked
    /\ found' = [found EXCEPT !.install = agent.visible]
    /\ asked' = asked \ {"install"}
    /\ Goto(pc, FALSE)
    /\ UNCHANGED <<agent, delivery>>

(* A command ends without output; on Linux the services have a second one. *)
HealthCommandLost == \E c \in asked :
    /\ ~(c = "services" /\ ctx.os = "linux")
    /\ asked' = asked \ {c}
    /\ Goto(pc, TRUE)
    /\ UNCHANGED <<agent, delivery, found>>

(* The decisions of fromEndpointHealth.                                    *)
fromEndpointHealth ==
    LET absent == ~found.install /\ found.service = "none" /\ ~found.process
        cloud == delivery = "cloud-or-mobile"
        missing == IF absent /\ ~cloud
                   THEN {Cause("not-installed", {}, IF Windows THEN 90 ELSE 75)} ELSE {}
        service == CASE found.service = "Stopped" -> {Cause("service-stopped", {}, 85)}
                     [] found.service = "none" /\ found.install ->
                            {Cause("not-registered", {}, 70)}
                     [] OTHER -> {}
        process == IF ~found.process /\ found.install
                   THEN {Cause("process", {}, 65)} ELSE {}
    IN  missing \cup service \cup process

HealthReports ==
    /\ pc = "asked" /\ asked = {}
    /\ Report(fromEndpointHealth,
              IF fromEndpointHealth = {} THEN {"no-anomalies"} ELSE {})
    /\ UNCHANGED healthVars

EndpointHealthNext ==
    \/ HealthCommands \/ ServicesAnswer \/ ServicesSilent \/ WrapperAnswers
    \/ ProcessesAnswer \/ InstallAnswers \/ HealthCommandLost \/ HealthReports

(* What a cause claims is so on a host whose system is known; what it says *)
(* is missing, only if no command was lost. "Stopped" is said on macOS of  *)
(* any service that has failed once; a stopped service that only the       *)
(* wrapper knows of counts as running or as absent.                        *)
Absent == agent.service = "none" \/ (Silent /\ agent.service = "Stopped")
HealthCauseReal(kind) ==
    CASE kind = "not-installed" -> ~lost => ~agent.visible /\ Absent /\ ~agent.running
      [] kind = "service-stopped" ->
            IF ctx.os = "macos" THEN agent.failedOnce ELSE agent.service = "Stopped"
      [] kind = "not-registered" -> ~lost => Absent
      [] kind = "process" -> ~lost => ~agent.running
EndpointHealthCausesReal ==
    ctx.os # "unknown" => \A c \in causes : HealthCauseReal(c.kind)

(* An agent that is not there is noticed whatever is lost. What keeps it   *)
(* from running is noticed if all commands have answered, where the        *)
(* service manager says it: not through the wrapper or through launchctl.  *)
EndpointHealthFaultsNamed ==
    delivery = "local-agent" =>
    /\ ~agent.visible /\ agent.service = "none" /\ ~agent.running
         => "not-installed" \in {c.kind : c \in causes}
    /\ (~lost /\ (agent.service # "Running" \/ (agent.visible /\ ~agent.running))
           /\ (agent.service = "Stopped" => ctx.os = "windows" \/ (ctx.os = "linux" /\ agent.systemd))
           /\ (agent.running /\ agent.service = "none" => agent.visible))
         => causes # {}
-----------------------------------------------------------------------------
(* The inductive invariant: what a command that has answered has told.     *)
(* Whatever is lost, nothing is found that is not there.                   *)
ServiceTold ==
    CASE ctx.os = "macos" -> {MacStatus}
      [] ctx.os # "macos" /\ ~Silent -> {agent.service}
      [] OTHER -> CASE agent.service = "Running" -> {"Running"}
                    [] agent.service = "Stopped" -> {"Running", "none"}
                    [] OTHER -> {"none"}
EndpointHealthInv ==
    /\ pc \in {"start", "asked", "done"}
    /\ agent \in Agents /\ delivery \in Deliveries
    /\ asked \subseteq Command
    /\ pc # "asked" => asked = {}
    /\ pc = "start" \/ ctx.os = "unknown" => asked = {} /\ found = Nothing
    /\ "wrapper" \in asked => ctx.os = "linux" /\ "services" \notin asked
    /\ "services" \in asked \/ "wrapper" \in asked => found.service = "none"
    /\ found.process => agent.running
    /\ found.install => agent.visible
    /\ found.service # "none" => agent.service # "none"
    /\ found.service = "Stopped" => "Stopped" \in ServiceTold
    /\ ~lost /\ pc # "start" /\ ctx.os # "unknown" =>
          /\ "processes" \notin asked => found.process = agent.running
          /\ "install" \notin asked => found.install = agent.visible
          /\ "wrapper" \in asked => Silent
          /\ "services" \notin asked /\ "wrapper" \notin asked => found.service \in ServiceTold
    /\ Reported => causes = fromEndpointHealth
=============================================================================

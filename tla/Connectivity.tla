---------------------------- MODULE Connectivity ----------------------------
(***************************************************************************)
(* runConnectivityProbe and fromConnectivity. Three categories of checks,  *)
(* one after the other: every host is resolved, the ports of the hosts     *)
(* that resolved are connected to, the HTTPS endpoints are asked. Within a *)
(* category the checks run at once, on a remote Windows host inside one    *)
(* command. A check is <<host, "dns", 0>>, <<host, "tcp", port>> or        *)
(* <<host, "web", 0>>.                                                     *)
(***************************************************************************)
EXTENDS ProbeContext, Sequences

CONSTANTS Profile,    \* endpoints: records [host, ports, https, bestEffort]
          WebApi,     \* the host webapi.teamviewer.com
          Primary     \* port 5938

VARIABLES up,         \* the checks that would succeed: the truth
          trusted,    \* the HTTPS checks whose certificate the host accepts
          tlsExit,    \* the HTTPS checks that fail with a TLS error
          due,        \* checks under way
          good,       \* checks that succeeded
          untrusted   \* checks with tlsValidationFailed

connVars == <<up, trusted, tlsExit, due, good, untrusted>>

Endpoint == {Profile[i] : i \in DOMAIN Profile}
ASSUME ProfileAssumption ==
    \A e, f \in Endpoint : e.host = f.host => e = f

DnsChecks(E) == {<<e.host, "dns", 0>> : e \in E}
TcpChecks(E) == UNION {{<<e.host, "tcp", p>> : p \in e.ports} : e \in E}
WebChecks(E) == {<<e.host, "web", 0>> : e \in {f \in E : f.https}}
Checks(E) == DnsChecks(E) \cup TcpChecks(E) \cup WebChecks(E)
Required == {e \in Endpoint : ~e.bestEffort}

(* The truth a probe may meet: what does not resolve cannot be reached. A  *)
(* check is in up if it would succeed, an HTTPS check if it would but for  *)
(* the certificate. Those that fail over TLS (curl 35, 51 and 60) may be   *)
(* among them or not: a handshake may fail whatever the certificate is.    *)
Networks == {n \in SUBSET Checks(Endpoint) :
                \A c \in n : <<c[1], "dns", 0>> \in n}
Handshakes(n) == {c \in WebChecks(Endpoint) : <<c[1], "dns", 0>> \in n}

ConnectivityInit ==
    /\ up \in Networks
    /\ trusted \in SUBSET (up \cap WebChecks(Endpoint))
    /\ tlsExit \in SUBSET (Handshakes(up) \ trusted)
    /\ due = {} /\ good = {} /\ untrusted = {}

(* One process per category on a remote Windows host.                      *)
Batched == Remote /\ Windows

DnsProbes ==
    /\ pc = "start"
    /\ due' = DnsChecks(Endpoint)
    /\ Goto("dns", FALSE)
    /\ UNCHANGED <<up, trusted, tlsExit, good, untrusted>>

(* What a check comes back with. HTTPS needs the certificate, too. After a *)
(* TLS failure the remote commands set tlsValidationFailed, whether or not *)
(* the server then answers curl -k (which Windows does not try).           *)
Succeeds(c) == c \in up /\ (c[2] = "web" => c \in trusted)
\* Mutant of TlsValidationFails: a TLS failure is a failure like any other.
TlsNeverFails(c) == c \in {}
TlsValidationFails(c) == Remote /\ c \in tlsExit
Record(told) ==
    /\ good' = good \cup {c \in told : Succeeds(c)}
    /\ untrusted' = untrusted \cup {c \in told : TlsValidationFails(c)}
    /\ UNCHANGED <<up, trusted, tlsExit>>

(* localDnsResolve, localTcpProbe, localHttpsProbe, remoteDnsResolve,      *)
(* remoteTcpProbe, remoteHttpsProbe: one check answers.                    *)
CheckAnswers == \E c \in due :
    /\ ~Batched
    /\ due' = due \ {c}
    /\ Record({c})
    /\ Goto(pc, FALSE)

(* No answer within the limit of the check: it has failed.                 *)
CheckTimesOut == \E c \in due :
    /\ ~Batched
    /\ due' = due \ {c}
    /\ Record({})
    /\ Goto(pc, TRUE)

(* remoteDnsResolveAllWindows and its two sisters: the command ends, or is *)
(* killed after a part of its lines. What it has not told has failed.      *)
BatchReturns ==
    /\ Batched /\ due # {}
    /\ \E told \in SUBSET due :
        /\ Record(told)
        /\ Goto(pc, told # due)
    /\ due' = {}

Resolved == {e \in Endpoint : <<e.host, "dns", 0>> \in good}

TcpProbes ==
    /\ pc = "dns" /\ due = {}
    /\ due' = TcpChecks(Resolved)
    /\ Goto("tcp", FALSE)
    /\ UNCHANGED <<up, trusted, tlsExit, good, untrusted>>

HttpsProbes ==
    /\ pc = "tcp" /\ due = {}
    /\ due' = WebChecks(Endpoint)
    /\ Goto("web", FALSE)
    /\ UNCHANGED <<up, trusted, tlsExit, good, untrusted>>

(* The HTTPS check a report leads with: the Web API, else the first one.   *)
WebTargets == {i \in DOMAIN Profile : Profile[i].https}
Headline == IF \E i \in WebTargets : Profile[i].host = WebApi
            THEN {<<WebApi, "web", 0>>}
            ELSE {<<Profile[i].host, "web", 0>> :
                    i \in {j \in WebTargets : \A k \in WebTargets : j <= k}}

(* The decisions of fromConnectivity. A check with tlsValidationFailed is  *)
(* no cause; of the product's endpoints only the required ones are.        *)
fromConnectivity ==
    LET failed == Checks(Endpoint) \ good
        tested == TcpChecks(Resolved) \cap failed
        hard == Checks(Required)
        silent == (WebChecks(Endpoint) \cap failed) \ untrusted
    IN  CauseIfAny("dns", DnsChecks(Endpoint) \cap failed, 88)
        \cup CauseIfAny("port", {c \in tested : c[3] = Primary}, 86)
        \cup (IF Headline = {} THEN {Cause("webapi", {}, 70)}
              ELSE CauseIfAny("webapi", Headline \cap silent, 70))
        \cup CauseIfAny("endpoint", {c \in tested \cap hard : c[3] # Primary}, 80)
        \cup {Cause("https", {c}, 66) : c \in {d \in silent \cap hard : d[1] # WebApi}}

ConnectivityReports ==
    /\ pc = "web" /\ due = {}
    /\ Report(fromConnectivity,
              IF fromConnectivity = {} THEN {"all-succeeded"} ELSE {})
    /\ UNCHANGED connVars

ConnectivityNext ==
    \/ DnsProbes \/ CheckAnswers \/ CheckTimesOut \/ BatchReturns
    \/ TcpProbes \/ HttpsProbes \/ ConnectivityReports

(* What a cause blames does not work. A certificate that is not trusted    *)
(* looks like a server that cannot be reached from this machine, which     *)
(* does not tell TLS failures, and if it shows by another error than those.*)
ConnectivityCausesReal ==
    \A c \in causes : \A check \in c.about :
        check \notin up \/ (check \notin trusted /\ (ctx.local \/ check \notin tlsExit))

(* A required endpoint that does not work is blamed, at least its host. Not*)
(* one behind a remote TLS failure: it is never blamed, even if it gives   *)
(* no answer without the certificate check either.                         *)
ConnectivityFaultsNamed ==
    \A check \in Checks(Required) \ up :
        \/ \E c \in causes : check[1] \in {d[1] : d \in c.about}
        \/ Remote /\ check \in tlsExit
-----------------------------------------------------------------------------
(* The inductive invariant: what has succeeded is true, and as long as no  *)
(* answer is missing, what was asked and is not due has been recorded.     *)
AskedSoFar ==
    IF pc = "start" THEN {}
    ELSE DnsChecks(Endpoint)
         \cup (IF pc = "dns" THEN {} ELSE TcpChecks(Resolved))
         \cup (IF pc \in {"dns", "tcp"} THEN {} ELSE WebChecks(Endpoint))
DueNow ==
    CASE pc = "dns" -> DnsChecks(Endpoint)
      [] pc = "tcp" -> TcpChecks(Resolved)
      [] pc = "web" -> WebChecks(Endpoint)
      [] OTHER -> {}
ConnectivityInv ==
    /\ pc \in {"start", "dns", "tcp", "web", "done"}
    /\ up \in Networks /\ trusted \subseteq up
    /\ tlsExit \subseteq Handshakes(up) \ trusted
    /\ due \subseteq DueNow
    /\ good \subseteq {c \in Checks(Endpoint) : Succeeds(c)}
    /\ untrusted \subseteq {c \in WebChecks(Endpoint) : TlsValidationFails(c)}
    /\ ~lost => \A c \in AskedSoFar \ due :
                  /\ Succeeds(c) => c \in good
                  /\ TlsValidationFails(c) => c \in untrusted
    /\ Reported => causes = fromConnectivity
=============================================================================

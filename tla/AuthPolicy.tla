------------------------------ MODULE AuthPolicy ------------------------------
(***************************************************************************)
(* runAuthPolicyProbe and fromAuth: requests to the Web API, one after the *)
(* other, with the token of the environment. They leave from the machine   *)
(* of the CLI, whatever the execution context is.                          *)
(***************************************************************************)
EXTENDS ProbeContext, Sequences

CONSTANTS Device,       \* names of managed devices
          Includes,     \* pairs <<name, part>>: the name contains the part
          PolicyPaths,  \* the further paths of the product's profile
          MaxDevices    \* devices kept of the list, 25 in the code

VARIABLES api,          \* what the service would answer: the truth
          target,       \* the name the user gave
          auth,         \* what the answers said
          paths         \* paths to be checked

authVars == <<api, target, auth, paths>>

ASSUME AuthAssumption ==
    /\ MaxDevices \in Nat
    /\ \A d \in Device : <<d, d>> \in Includes

(* A device of the account: its online_state is one of the two, or it is   *)
(* something else (busy, away) or missing.                                 *)
Listed == [name : Device, state : {"online", "offline", "other"}]
Unasked == [ping |-> TRUE, account |-> FALSE, devices |-> <<>>, denied |-> {}]

(* token: it is set; ping, account, allowed, scope: these requests (that   *)
(* for /devices) are answered with 200; devices: what the account has, in  *)
(* the order of the service.                                               *)
Services == {s \in [token : BOOLEAN, ping : BOOLEAN, account : BOOLEAN,
                    allowed : SUBSET PolicyPaths, scope : BOOLEAN,
                    devices : UNION {[1 .. n -> Listed] : n \in 0 .. MaxDevices + 1}] :
               ~s.account => s.devices = <<>> /\ s.allowed = {} /\ ~s.scope}

AuthPolicyInit ==
    /\ api \in Services
    /\ target \in Device
    /\ auth = Unasked
    /\ paths = {}

NoToken ==
    /\ pc = "start" /\ ~api.token
    /\ Report({}, {"skipped"})
    /\ UNCHANGED authVars

(* getJson gives up after its limit: the status is then 0, not 200.        *)
Ping == \E missed \in BOOLEAN :
    /\ pc = "start" /\ api.token
    /\ auth' = [auth EXCEPT !.ping = api.ping /\ ~missed]
    /\ Goto("account", missed)
    /\ UNCHANGED <<api, target, paths>>

Account == \E missed \in BOOLEAN :
    /\ pc = "account"
    /\ auth' = [auth EXCEPT !.account = api.account /\ ~missed]
    /\ Goto(IF auth'.account THEN "devices" ELSE "judge", missed)
    /\ UNCHANGED <<api, target, paths>>

(* What is kept of a device, and of the list: every state but "online"     *)
(* becomes offline.                                                        *)
Summary(d) == [name |-> d.name, online |-> d.state = "online"]
Kept == 1 .. (IF Len(api.devices) > MaxDevices THEN MaxDevices ELSE Len(api.devices))

\* Mutant of KeptDevices: the whole list is kept.
KeptDevicesUncut ==
    IF api.scope THEN [i \in DOMAIN api.devices |-> Summary(api.devices[i])] ELSE <<>>

(* What devices becomes: the first MaxDevices, none without the scope.     *)
KeptDevices == IF api.scope THEN [i \in Kept |-> Summary(api.devices[i])] ELSE <<>>

Devices == \E missed \in BOOLEAN :
    /\ pc = "devices"
    /\ auth' = IF missed THEN auth ELSE [auth EXCEPT !.devices = KeptDevices]
    /\ paths' = PolicyPaths
    /\ Goto("paths", missed)
    /\ UNCHANGED <<api, target>>

PolicyCheck == \E p \in paths, missed \in BOOLEAN :
    /\ pc = "paths"
    /\ paths' = paths \ {p}
    /\ auth' = IF p \in api.allowed /\ ~missed THEN auth
               ELSE [auth EXCEPT !.denied = @ \cup {p}]
    /\ Goto(pc, missed)
    /\ UNCHANGED <<api, target>>

(* The first device whose name contains that of the target.                *)
Match == LET hits == {i \in DOMAIN auth.devices :
                        <<auth.devices[i].name, target>> \in Includes}
         IN  {auth.devices[i] : i \in {j \in hits : \A k \in hits : j <= k}}

fromAuth ==
    (IF auth.ping THEN {} ELSE {Cause("webapi", {}, 80)})
    \cup (IF auth.account THEN {} ELSE {Cause("token", {}, 88)})
    \cup {Cause("offline", {d.name}, 72) : d \in {e \in Match : ~e.online}}
    \cup {Cause("policy", {p}, 60) : p \in auth.denied}

AuthReports ==
    /\ \/ pc = "judge"
       \/ pc = "paths" /\ paths = {}
    /\ Report(fromAuth,
              IF auth.devices # <<>> /\ Match = {} THEN {"not-enrolled"} ELSE {})
    /\ UNCHANGED authVars

AuthPolicyNext ==
    \/ NoToken \/ Ping \/ Account \/ Devices \/ PolicyCheck \/ AuthReports

(* What a cause claims is what the service says, unless an answer is lost, *)
(* which can only add a claim that some request was refused. The device    *)
(* that is said to be offline is one the service does not call online (it  *)
(* may call it busy or away) and may be another one whose name contains    *)
(* that of the target.                                                     *)
AuthCausesReal == \A c \in causes :
    CASE c.kind = "webapi" -> ~lost => ~api.ping
      [] c.kind = "token" -> ~lost => ~api.account
      [] c.kind = "policy" -> ~lost => c.about \cap api.allowed = {}
      [] c.kind = "offline" ->
            api.scope /\ \E i \in DOMAIN api.devices :
                /\ c.about = {api.devices[i].name} /\ api.devices[i].state # "online"
                /\ \A j \in 1 .. i - 1 : api.devices[j].name # target

(* An unreachable service, a refused token and each refused policy path    *)
(* are always noticed. The target is known not to be online if the token   *)
(* has the scope for devices (403 leads to a diagnostic and no cause), the *)
(* target is within the part of the list that is kept, and no earlier      *)
(* device takes its place.                                                 *)
AuthFaultsNamed ==
    LET kinds == {c.kind : c \in causes} IN
    /\ api.token /\ ~api.ping => "webapi" \in kinds
    /\ api.token /\ ~api.account => "token" \in kinds
    /\ api.token /\ "token" \notin kinds =>
          \A p \in PolicyPaths \ api.allowed : \E c \in causes : c.kind = "policy" /\ p \in c.about
    /\ api.token /\ api.scope /\ ~lost /\ (\E i \in DOMAIN api.devices :
            /\ i <= MaxDevices /\ api.devices[i].name = target /\ api.devices[i].state # "online"
            /\ \A j \in 1 .. i - 1 : <<api.devices[j].name, target>> \notin Includes)
        => "offline" \in kinds
-----------------------------------------------------------------------------
(* The inductive invariant: what each request has told. Only a lost answer *)
(* makes the service look worse than it is.                                *)
AuthInv ==
    /\ pc \in {"start", "account", "devices", "judge", "paths", "done"}
    /\ api \in Services /\ target \in Device
    /\ auth \in [ping : BOOLEAN, account : BOOLEAN,
                devices : {<<>>, KeptDevices}, denied : SUBSET PolicyPaths]
    /\ paths \subseteq PolicyPaths
    /\ pc = "start" \/ ~api.token => auth = Unasked
    /\ pc \in {"account", "judge"} => ~auth.account /\ auth.devices = <<>> /\ auth.denied = {}
    /\ pc \in {"devices", "paths"} => auth.account
    /\ api.token /\ pc # "start" => (auth.ping => api.ping)
    /\ auth.account => api.account
    /\ ~lost =>
          /\ ~auth.ping => ~api.ping
          /\ api.token /\ pc \notin {"start", "account"} => auth.account = api.account
          /\ auth.account /\ pc \in {"paths", "done"} => auth.devices = KeptDevices
          /\ auth.denied \cap api.allowed = {}
    /\ pc = "paths" \/ paths = {}
    /\ auth.account /\ pc \in {"paths", "done"} =>
          PolicyPaths \ (api.allowed \cup paths) \subseteq auth.denied
    /\ pc \notin {"start", "done"} => api.token
    /\ Reported => causes = IF api.token THEN fromAuth ELSE {}
=============================================================================

----------------------------- MODULE ExecContext -----------------------------
(***************************************************************************)
(* Where the probes of a question run, and how their commands get there:   *)
(* runtime/execContext.ts and runContext.ts as runOneShot (oneShot.ts) and *)
(* the REPL use them.  A question makes a context, which for SSH means to  *)
(* find out by round trips what system the host has, and then its branches *)
(* send it commands.  On a Windows host they are chained on one promise.   *)
(*                                                                         *)
(* The REPL asks the next question as soon as the race of the last one is  *)
(* settled; a workflow that lost its race goes on sending commands.        *)
(* Hosts, ssh, az, kubectl and AsyncLocalStorage are outside src/; what    *)
(* ssh itself says on standard error is taken not to name a system.        *)
(***************************************************************************)
EXTENDS Integers, Sequences, FiniteSets

CONSTANTS
  Questions,  (* how many questions are asked                              *)
  Branch,     (* the specialists that probe                                *)
  Plan,       (* Plan[b][i]: how many commands b sends at once in step i   *)
  Asked,      (* the requests that may be made                             *)
  Hosts       (* the systems their hosts may have                          *)

Run == 1 .. Questions

Target == { "local-device", "label", "address", "user@host", "ssh://host",
            "ssh://user@host", "azure-vm://rg/vm", "k8s://ns/pod", "azure-vm://x" }

\* A target, and whether --user came with it.
Request == [target : Target, user : BOOLEAN]

System == {"windows", "linux", "macos", "other"}
Supported == System \ {"other"}

ASSUME ExecAssumption ==
  /\ Questions \in Nat \ {0}
  /\ Plan \in [Branch -> Seq(Nat \ {0})]
  /\ Asked \subseteq Request
  /\ Hosts \subseteq System

VARIABLES
  asked,      (* asked[r]: the request of question r                       *)
  actual,     (* actual[r]: the system its host really has                 *)
  stage,      (* stage[r]: where question r is                             *)
  os,         (* os[r]: what its context takes the host for                *)
  rejected,   (* rejected[r]: cmd.exe has turned `uname` down              *)
  missed,     (* missed[r]: round trips of the detection without an answer *)
  tries,      (* tries[r]: attempts with PowerShell                        *)
  store,      (* store[r]: the context AsyncLocalStorage has for its code  *)
  step,       (* step[r][b]: the step of its plan b is in                  *)
  pending,    (* pending[r][b]: the commands b waits for                   *)
  queue,      (* queue[r]: the chain of promises of its context            *)
  flying,     (* the commands that run on some host                        *)
  settled,    (* settled[r]: how its race ended                            *)
  used        (* history: used[r], the contexts its probes sent to         *)

detection == <<os, rejected, missed, tries>>
probes == <<step, pending, queue, flying, used>>
vars == <<asked, actual, stage, detection, store, probes, settled>>

\* The context 0 is the local one that a probe outside any run gets.
Command == [run : Run, branch : Branch, step : Nat, n : Nat, to : Run \cup {0}]

Init ==
  /\ asked \in [Run -> Asked]
  /\ actual = [r \in Run |-> "other"]
  /\ stage = [r \in Run |-> "unasked"]
  /\ os = [r \in Run |-> "unknown"]
  /\ rejected = [r \in Run |-> FALSE]
  /\ missed = [r \in Run |-> 0]
  /\ tries = [r \in Run |-> 0]
  /\ store = [r \in Run |-> 0]
  /\ step = [r \in Run |-> [b \in Branch |-> 1]]
  /\ pending = [r \in Run |-> [b \in Branch |-> {}]]
  /\ queue = [r \in Run |-> << >>]
  /\ flying = {}
  /\ settled = [r \in Run |-> "none"]
  /\ used = [r \in Run |-> {}]
-----------------------------------------------------------------------------
(***************************************************************************)
(* The choice of a context                                                 *)
(***************************************************************************)
\* createExecutionContext: the kind of the context, or that it throws.
createExecutionContext(q) ==
  CASE q.target = "local-device"                     -> "local"
    [] q.target = "azure-vm://rg/vm"                 -> "azure-vm"
    [] q.target = "k8s://ns/pod"                     -> "k8s"
    [] q.target = "azure-vm://x"                     -> "throws"
    [] q.target \in {"ssh://user@host", "user@host"} -> "ssh"
    [] q.target \in {"ssh://host", "address"}        -> IF q.user THEN "ssh" ELSE "throws"
    [] q.target = "label"                            -> IF q.user THEN "ssh" ELSE "local"

\* runOneShot asks for a context only if there is a connection block, and
\* parseConnectionFlags makes one only for --user.
Kind(r) == IF asked[r].user THEN createExecutionContext(asked[r]) ELSE "local"

\* withRunContext; what connect has noted for itself is gone.
Start(r) ==
  /\ stage' = [stage EXCEPT ![r] = "probing"]
  /\ store' = [store EXCEPT ![r] = r]
  /\ rejected' = [rejected EXCEPT ![r] = FALSE]
  /\ tries' = [tries EXCEPT ![r] = 0]

\* One more round trip without an answer; two are told apart from one, not from three.
Miss(r) == missed' = [missed EXCEPT ![r] = IF @ < 2 THEN @ + 1 ELSE @]

Refuse(r) ==
  /\ stage' = [stage EXCEPT ![r] = "over"]
  /\ settled' = [settled EXCEPT ![r] = "error"]

\* The REPL waits for the race of the question before, not for its workflow.
Ask(r) ==
  /\ stage[r] = "unasked"
  /\ \A p \in Run : p < r => settled[p] \notin {"none", "pending"}
  /\ \E s \in Hosts : actual' = [actual EXCEPT ![r] = s]
  /\ stage' = [stage EXCEPT ![r] = "connect"]
  /\ settled' = [settled EXCEPT ![r] = "pending"]
  /\ UNCHANGED <<asked, detection, store, probes>>

\* A local context is there at once; az or kubectl may be missing or fail; some
\* targets are refused.
Connect(r) ==
  /\ stage[r] = "connect"
  /\ \/ Kind(r) \in {"local", "azure-vm", "k8s"} /\ Start(r)
        /\ os' \in { [os EXCEPT ![r] = s] :
                       s \in CASE Kind(r) = "k8s" -> {"linux"}
                               [] Kind(r) = "azure-vm" -> {"linux", "windows", "unknown"}
                               [] OTHER -> Supported \cup {"unknown"} }
        /\ UNCHANGED settled
     \/ Kind(r) \in {"throws", "azure-vm", "k8s"} /\ Refuse(r)
        /\ UNCHANGED <<os, rejected, tries, store>>
     \/ Kind(r) = "ssh" /\ stage' = [stage EXCEPT ![r] = "uname"]
        /\ UNCHANGED <<os, rejected, tries, store, settled>>
  /\ UNCHANGED <<asked, actual, missed, probes>>

\* `uname -s`.  A Windows host may have one too, of Git or of MSYS; else cmd.exe
\* turns it down in its own words, or another shell in others.
Uname(r) ==
  /\ stage[r] = "uname"
  /\ \/ /\ actual[r] \in Supported
        /\ os' = [os EXCEPT ![r] = actual[r]]
        /\ Start(r)
        /\ UNCHANGED missed
     \/ /\ stage' = [stage EXCEPT ![r] = "powershell"]
        /\ \/ actual[r] \in {"windows", "other"} /\ UNCHANGED <<rejected, missed>>
           \/ actual[r] = "windows" /\ rejected' = [rejected EXCEPT ![r] = TRUE]
              /\ UNCHANGED missed
           \/ Miss(r) /\ UNCHANGED rejected
        /\ UNCHANGED <<os, tries, store>>
  /\ UNCHANGED <<asked, actual, probes, settled>>

\* Mutant of Powershell: one attempt.
PowershellOnce(r) ==
  /\ stage[r] = "powershell"
  /\ Start(r)
  /\ \/ /\ UNCHANGED missed
        /\ os' = [os EXCEPT ![r] = IF actual[r] = "windows" THEN "windows" ELSE "unknown"]
     \/ /\ Miss(r)
        /\ os' = [os EXCEPT ![r] = IF rejected[r] THEN "windows" ELSE "unknown"]
  /\ UNCHANGED <<asked, actual, probes, settled>>

\* A PowerShell command, twice at most; after the second the words of cmd.exe decide.
Powershell(r) ==
  /\ stage[r] = "powershell"
  /\ \/ /\ actual[r] = "windows"
        /\ os' = [os EXCEPT ![r] = "windows"]
        /\ Start(r)
        /\ UNCHANGED missed
     \/ /\ Miss(r) \/ (actual[r] # "windows" /\ UNCHANGED missed)
        /\ IF tries[r] = 0
           THEN /\ tries' = [tries EXCEPT ![r] = 1]
                /\ UNCHANGED <<os, stage, rejected, store>>
           ELSE /\ Start(r)
                /\ os' = [os EXCEPT ![r] = IF rejected[r] THEN "windows" ELSE @]
  /\ UNCHANGED <<asked, actual, probes, settled>>
-----------------------------------------------------------------------------
(***************************************************************************)
(* The commands of the probes                                              *)
(***************************************************************************)
\* Mutant of getCurrentContext: a variable of the module instead of a store.
getLatestContext(r) ==
  CHOOSE p \in Run : store[p] # 0 /\ \A q \in Run : store[q] # 0 => q <= p

\* The context of the run this code belongs to, 0 outside any run.
getCurrentContext(r) == store[r]

\* Mutant of Chained: nothing is.
NeverChained(to) == FALSE

\* Commands to a Windows host over SSH wait for one another.
Chained(to) == to # 0 /\ Kind(to) = "ssh" /\ os[to] = "windows"

\* The commands of a step, by Promise.all where there are several.
Group(r, b) ==
  [k \in 1 .. Plan[b][step[r][b]] |->
     [run |-> r, branch |-> b, step |-> step[r][b], n |-> k, to |-> getCurrentContext(r)]]

\* A branch sends the commands of its next step.
Send(r, b) ==
  LET to   == getCurrentContext(r)
      sent == { Group(r, b)[k] : k \in DOMAIN Group(r, b) } IN
  /\ stage[r] = "probing"
  /\ step[r][b] <= Len(Plan[b])
  /\ pending[r][b] = {}
  /\ pending' = [pending EXCEPT ![r][b] = sent]
  /\ used' = [used EXCEPT ![r] = @ \cup {to}]
  /\ IF Chained(to)
     THEN queue' = [queue EXCEPT ![to] = @ \o Group(r, b)] /\ UNCHANGED flying
     ELSE flying' = flying \cup sent /\ UNCHANGED queue
  /\ UNCHANGED <<asked, actual, stage, detection, store, step, settled>>

\* Mutant of StartNext: a command does not wait for the one before it.
StartAny(to) ==
  /\ \E i \in DOMAIN queue[to] : queue[to][i] \notin flying /\ flying' = flying \cup {queue[to][i]}
  /\ UNCHANGED <<asked, actual, stage, detection, store, step, pending, queue, settled, used>>

\* The promise before it is settled: the command at the head starts.
StartNext(to) ==
  /\ queue[to] # << >>
  /\ Head(queue[to]) \notin flying
  /\ flying' = flying \cup {Head(queue[to])}
  /\ UNCHANGED <<asked, actual, stage, detection, store, step, pending, queue, settled, used>>

\* Mutant of Returns: a command that failed takes those chained behind it along.
ReturnsBroken(c) ==
  /\ c \in flying
  /\ flying' = flying \ {c}
  /\ queue' \in IF Chained(c.to)
                THEN { [queue EXCEPT ![c.to] = Tail(@)], [queue EXCEPT ![c.to] = << >>] }
                ELSE {queue}
  /\ LET left == pending[c.run][c.branch] \ {c} IN
     /\ pending' = [pending EXCEPT ![c.run][c.branch] = left]
     /\ step' = [step EXCEPT ![c.run][c.branch] = IF left = {} THEN @ + 1 ELSE @]
  /\ UNCHANGED <<asked, actual, stage, detection, store, settled, used>>

\* A command ends, fails or is killed by its own limit: the caller gets a result in
\* each case, and the chain goes on.
Returns(c) ==
  /\ c \in flying
  /\ flying' = flying \ {c}
  /\ queue' = IF Chained(c.to) THEN [queue EXCEPT ![c.to] = Tail(@)] ELSE queue
  /\ LET left == pending[c.run][c.branch] \ {c} IN
     /\ pending' = [pending EXCEPT ![c.run][c.branch] = left]
     /\ step' = [step EXCEPT ![c.run][c.branch] = IF left = {} THEN @ + 1 ELSE @]
  /\ UNCHANGED <<asked, actual, stage, detection, store, settled, used>>

Done(r) == \A b \in Branch : step[r][b] > Len(Plan[b])

\* All branches have what they need: the report is made, if somebody still waits.
Report(r) ==
  /\ stage[r] = "probing" /\ Done(r)
  /\ stage' = [stage EXCEPT ![r] = "over"]
  /\ settled' = [settled EXCEPT ![r] = IF @ = "pending" THEN "report" ELSE @]
  /\ UNCHANGED <<asked, actual, detection, store, probes>>

\* The timer fires, or a step of the workflow throws: the probes go on.
Lose(r) ==
  /\ stage[r] = "probing" /\ settled[r] = "pending"
  /\ settled' = [settled EXCEPT ![r] = "lost"]
  /\ UNCHANGED <<asked, actual, stage, detection, store, probes>>

\* What the program and the child processes of question r do of themselves.
Proceed(r) ==
  \/ Connect(r) \/ Uname(r) \/ Powershell(r) \/ StartNext(r) \/ Report(r)
  \/ \E b \in Branch : Send(r, b)
  \/ \E c \in flying : c.run = r /\ Returns(c)

Next == \E r \in Run : Ask(r) \/ Proceed(r) \/ Lose(r)

Spec == Init /\ [][Next]_vars

(***************************************************************************)
(* The event loop does not stall, and every child process has a limit of   *)
(* its own after which it is killed (execFile with a timeout).             *)
(***************************************************************************)
FairSpec == Spec /\ \A r \in Run : WF_vars(Proceed(r))
-----------------------------------------------------------------------------
(***************************************************************************)
(* Properties                                                              *)
(***************************************************************************)
\* Types of the questions, their contexts, and the commands under way.
TypeOK ==
  /\ asked \in [Run -> Asked]
  /\ actual \in [Run -> System]
  /\ stage \in [Run -> {"unasked", "connect", "uname", "powershell", "probing", "over"}]
  /\ os \in [Run -> Supported \cup {"unknown"}]
  /\ rejected \in [Run -> BOOLEAN]
  /\ missed \in [Run -> Nat] /\ tries \in [Run -> Nat]
  /\ store \in [Run -> Run \cup {0}]
  /\ step \in [Run -> [Branch -> Nat \ {0}]]
  /\ pending \in [Run -> [Branch -> SUBSET Command]]
  /\ queue \in [Run -> Seq(Command)]
  /\ flying \in SUBSET Command
  /\ settled \in [Run -> {"none", "pending", "report", "error", "lost"}]
  /\ used \in [Run -> SUBSET (Run \cup {0})]

\* A PowerShell on a host reached over SSH.
IsShell(c) == c.to # 0 /\ Kind(c.to) = "ssh" /\ os[c.to] = "windows"

\* One powershell.exe at a time (execContext.ts 308-314), with its real precondition:
\* two Windows commands are under way at once only for two questions, one of which
\* nobody waits for any more.
OneShell ==
  \A c, d \in flying :
    IsShell(c) /\ IsShell(d) =>
      \/ c = d
      \/ c.run # d.run /\ (settled[c.run] # "pending" \/ settled[d.run] # "pending")

\* No host is taken for a system it does not have, and a Windows host is recognised
\* although one of the round trips went without an answer, whichever it was
\* (execContext.ts 259-261).
DetectionSound ==
  \A r \in Run : Kind(r) = "ssh" /\ stage[r] \in {"probing", "over"} =>
    /\ os[r] \in {actual[r], "unknown"}
    /\ actual[r] = "windows" /\ missed[r] <= 1 => os[r] = "windows"

\* Whatever a workflow that lost its race still sends goes to the machine of its own
\* question, not to that of the next one.
ProbesStayHome == \A r \in Run : used[r] \subseteq {r}

\* No command waits for ever behind others that failed or were killed: every
\* workflow comes to its end.
ProbesEnd == \A r \in Run : stage[r] = "probing" ~> stage[r] = "over"

-----------------------------------------------------------------------------
(***************************************************************************)
(* The inductive invariant behind the theorems of ExecContextProofs.       *)
(***************************************************************************)
InQueue(to) == { queue[to][i] : i \in DOMAIN queue[to] }
InHand == flying \cup UNION { InQueue(to) : to \in Run }

\* What a branch waits for is under way or in the queue of its context, and nothing
\* else is.
ServedInv ==
  /\ \A r \in Run, b \in Branch : pending[r][b] = { c \in InHand : c.run = r /\ c.branch = b }
  /\ \A c \in InHand : /\ c.to = c.run
                      /\ c.step = step[c.run][c.branch] /\ c.step <= Len(Plan[c.branch])
                      /\ stage[c.run] = "probing"

\* The command under way in a chain is its head; a chain holds no command twice.
ChainInv ==
  /\ \A r \in Run : queue[r] # << >> => Chained(r)
  /\ \A r \in Run : \A i, j \in DOMAIN queue[r] : queue[r][i] = queue[r][j] => i = j
  /\ \A r \in Run : \A c \in InQueue(r) : c.to = r
  /\ \A c \in flying : Chained(c.to) => queue[c.to] # << >> /\ c = Head(queue[c.to])

\* A question is asked when those before it are settled, and has its own context.
AskInv ==
  /\ \A p, q \in Run : p < q /\ stage[q] # "unasked" => settled[p] \notin {"none", "pending"}
  /\ \A r \in Run : stage[r] = "unasked" <=> settled[r] = "none"
  /\ \A r \in Run : /\ store[r] \in {0, r}
                    /\ stage[r] = "probing" => store[r] = r
                    /\ used[r] \subseteq {r}

\* What the detection knows of the host before it is over.
DetectInv ==
  /\ \A r \in Run :
       /\ stage[r] \notin {"probing", "over"} => os[r] = "unknown"
       /\ stage[r] \in {"uname", "powershell"} => Kind(r) = "ssh"
       /\ stage[r] \in {"unasked", "connect", "uname"} => ~rejected[r] /\ tries[r] = 0 /\ missed[r] = 0
       /\ rejected[r] => actual[r] = "windows"
       /\ stage[r] = "powershell" /\ actual[r] = "windows" => missed[r] >= tries[r]
       /\ stage[r] = "powershell" => tries[r] \in {0, 1}
  /\ DetectionSound

QueueInv == ServedInv /\ ChainInv /\ AskInv /\ DetectInv
=============================================================================

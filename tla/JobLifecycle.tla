---------------------------- MODULE JobLifecycle ----------------------------
(***************************************************************************)
(* The processes around one background job: the command that enqueues it   *)
(* (cli.ts enqueue, dispatch.ts startDetachedWorker), the detached worker  *)
(* (workerCore.ts runWorkerJob) and any number of `jobs cancel` commands   *)
(* (cli.ts; /cancel of repl.ts is the same code).  They share only         *)
(* jobs.json and the worker's pid.  Each call of jobStore is one step here:*)
(* JobStore shows that it is atomic until a waiter breaks the lock.        *)
(***************************************************************************)
EXTENDS JobTable

CONSTANTS
  Cancel,     (* the cancel commands that are run                          *)
  NoJob,      (* no job id                                                 *)
  Crashes     (* TRUE: processes may be killed from outside                *)

ASSUME LifecycleAssumption ==
  /\ NoJob \notin Job
  /\ Crashes \in BOOLEAN

VARIABLES
  table,      (* the list in jobs.json                                     *)
  lastJob,    (* lastJobId in config.json                                  *)
  cli,        (* cli[j]: where the command that enqueues j is              *)
  shown,      (* shown[j]: the status `--wait` printed at its end          *)
  worker,     (* worker[j]: where the worker of j is                       *)
  cancel,     (* cancel[k]: where cancel command k is                      *)
  seen        (* seen[k]: the record k read, as [id, pid]                  *)

vars == <<table, lastJob, cli, shown, worker, cancel, seen>>

Terminal == {"completed", "failed", "cancelled"}
Status == {"queued", "running"} \cup Terminal

\* What the properties tell apart of an AgentJob.  pid is whether
\* it is set.
Rec == [id : Job, status : Status, pid : {"unset", "set"}]

StatusOf(j) == table[IndexOf(table, j)].status

\* updateJob(j, patch) of a listed job.
SetStatus(j, s) == table' = Kept([table EXCEPT ![IndexOf(table, j)].status = s])
SetPid(j) == table' = Kept([table EXCEPT ![IndexOf(table, j)].pid = "set"])

Alive == {"started", "read", "running", "succeeded", "erred"}

Init ==
  /\ table = << >>
  /\ lastJob = NoJob
  /\ cli = [j \in Job |-> "new"]
  /\ shown = [j \in Job |-> "nothing"]
  /\ worker = [j \in Job |-> "none"]
  /\ cancel = [k \in Cancel |-> "idle"]
  /\ seen = [k \in Cancel |-> [id |-> NoJob, pid |-> "unset"]]
-----------------------------------------------------------------------------
(***************************************************************************)
(* enqueue                                                                 *)
(***************************************************************************)
Cli(j, from, to) ==
  /\ cli[j] = from
  /\ cli' = [cli EXCEPT ![j] = to]

AddJob(j) ==
  /\ Cli(j, "new", "added")
  /\ table' = Kept(Unshift(table, [id |-> j, status |-> "queued", pid |-> "unset"]))
  /\ UNCHANGED <<lastJob, shown, worker, cancel, seen>>

SetLastJob(j) ==
  /\ Cli(j, "added", "saved")
  /\ lastJob' = j
  /\ UNCHANGED <<table, shown, worker, cancel, seen>>

\* Mutant of Spawn: the worker is started before the job is saved.
SpawnFirst(j) ==
  /\ cli[j] = "new"
  /\ worker[j] = "none"
  /\ worker' = [worker EXCEPT ![j] = "started"]
  /\ UNCHANGED <<table, lastJob, cli, shown, cancel, seen>>

\* spawn(...): from here on the worker runs on its own.
Spawn(j) ==
  /\ Cli(j, "saved", "spawned")
  /\ worker' = [worker EXCEPT ![j] = "started"]
  /\ UNCHANGED <<table, lastJob, shown, cancel, seen>>

\* Mutant of RecordPid: the record enqueue made is written back with the pid.
RecordPidStale(j) ==
  /\ Cli(j, "spawned", "waiting") \/ Cli(j, "spawned", "returned")
  /\ table' = IF Has(table, j)
              THEN Kept([table EXCEPT ![IndexOf(table, j)] =
                           [id |-> j, status |-> "queued", pid |-> "set"]])
              ELSE table
  /\ UNCHANGED <<lastJob, shown, worker, cancel, seen>>

\* updateJob(jobId, { pid }); "Job not found" is swallowed.  Then --wait or not.
RecordPid(j) ==
  /\ Cli(j, "spawned", "waiting") \/ Cli(j, "spawned", "returned")
  /\ IF Has(table, j) THEN SetPid(j) ELSE UNCHANGED table
  /\ UNCHANGED <<lastJob, shown, worker, cancel, seen>>

\* waitForJob sees a terminal status.
WaitSees(j) ==
  /\ Has(table, j) /\ StatusOf(j) \in Terminal
  /\ Cli(j, "waiting", "returned")
  /\ shown' = [shown EXCEPT ![j] = StatusOf(j)]
  /\ UNCHANGED <<table, lastJob, worker, cancel, seen>>

\* The 180 s are over: waitForJob returns whatever getJob returns, and enqueue
\* prints the details of any job it gets, "Still running" if it gets none.
WaitExpires(j) ==
  /\ Cli(j, "waiting", "returned")
  /\ shown' = [shown EXCEPT ![j] = IF Has(table, j) THEN StatusOf(j) ELSE "still running"]
  /\ UNCHANGED <<table, lastJob, worker, cancel, seen>>
-----------------------------------------------------------------------------
(***************************************************************************)
(* runWorkerJob                                                            *)
(***************************************************************************)
Worker(j, from, to) ==
  /\ worker[j] = from
  /\ worker' = [worker EXCEPT ![j] = to]

GetJob(j) ==
  /\ Worker(j, "started", IF Has(table, j) THEN "read" ELSE "dead")
  /\ UNCHANGED <<table, lastJob, cli, shown, cancel, seen>>

\* Before the try: if the job is gone by now, the rejection is unhandled.
MarkRunning(j) ==
  /\ Worker(j, "read", IF Has(table, j) THEN "running" ELSE "dead")
  /\ IF Has(table, j) THEN SetStatus(j, "running") ELSE UNCHANGED table
  /\ UNCHANGED <<lastJob, cli, shown, cancel, seen>>

\* createExecutionContext and the agent return a report, or throw.
RunAgent(j) ==
  /\ Worker(j, "running", "succeeded") \/ Worker(j, "running", "erred")
  /\ UNCHANGED <<table, lastJob, cli, shown, cancel, seen>>

\* Mutant of WriteCompleted: the code of the catch runs in a finally.
WriteCompletedThenFails(j) ==
  /\ Worker(j, "succeeded", "erred")
  /\ IF Has(table, j) THEN SetStatus(j, "completed") ELSE UNCHANGED table
  /\ UNCHANGED <<lastJob, cli, shown, cancel, seen>>

\* The last statement of the try: if updateJob throws, the catch is entered.
WriteCompleted(j) ==
  /\ Worker(j, "succeeded", IF Has(table, j) THEN "exited" ELSE "erred")
  /\ IF Has(table, j) THEN SetStatus(j, "completed") ELSE UNCHANGED table
  /\ UNCHANGED <<lastJob, cli, shown, cancel, seen>>

\* Mutant of WriteFailed: the error is only logged.
WriteFailedForgets(j) ==
  /\ Worker(j, "erred", "exited")
  /\ UNCHANGED <<table, lastJob, cli, shown, cancel, seen>>

WriteFailed(j) ==
  /\ Worker(j, "erred", IF Has(table, j) THEN "exited" ELSE "dead")
  /\ IF Has(table, j) THEN SetStatus(j, "failed") ELSE UNCHANGED table
  /\ UNCHANGED <<lastJob, cli, shown, cancel, seen>>
-----------------------------------------------------------------------------
(***************************************************************************)
(* jobs cancel: read, kill, write.  The steps are of one process, but the  *)
(* other processes run between them.                                       *)
(***************************************************************************)
CancelStep(k, from, to) ==
  /\ cancel[k] = from
  /\ cancel' = [cancel EXCEPT ![k] = to]

CancelReads(k, j) ==
  /\ IF Has(table, j) /\ StatusOf(j) \in {"queued", "running"}
     THEN /\ CancelStep(k, "idle", "seen")
          /\ seen' = [seen EXCEPT ![k] = [id |-> j, pid |-> table[IndexOf(table, j)].pid]]
     ELSE CancelStep(k, "idle", "done") /\ UNCHANGED seen
  /\ UNCHANGED <<table, lastJob, cli, shown, worker>>

\* Mutant of CancelKills: killProcessTree answers ok after a kill that failed.
CancelKillsNobody(k) ==
  /\ CancelStep(k, "seen", "killed")
  /\ UNCHANGED <<table, lastJob, cli, shown, worker, seen>>

\* The worker handles no SIGTERM: a signal that reaches it alive ends it.
KillWorker(j) == worker' = [worker EXCEPT ![j] = IF @ \in Alive THEN "killed" ELSE @]

\* killProcessTree if the record had a pid; it answers ok.
CancelKills(k) ==
  /\ CancelStep(k, "seen", "killed")
  /\ IF seen[k].pid = "set" THEN KillWorker(seen[k].id) ELSE UNCHANGED worker
  /\ UNCHANGED <<table, lastJob, cli, shown, seen>>

\* It does not: no such process, no permission, or taskkill failed (the plain kill
\* tried after that may work all the same).  The command warns, and goes on.
CancelWarns(k) ==
  /\ seen[k].pid = "set"
  /\ CancelStep(k, "seen", "warned")
  /\ KillWorker(seen[k].id) \/ UNCHANGED worker
  /\ UNCHANGED <<table, lastJob, cli, shown, seen>>

\* updateJob(jobId, { status: "cancelled" }), whatever the status is by now and
\* whatever became of the worker.  "doubtful" is a command that had warned.
CancelWrites(k) ==
  /\ CancelStep(k, "killed", "done") \/ CancelStep(k, "warned", "doubtful")
  /\ IF Has(table, seen[k].id) THEN SetStatus(seen[k].id, "cancelled") ELSE UNCHANGED table
  /\ UNCHANGED <<lastJob, cli, shown, worker, seen>>
-----------------------------------------------------------------------------
(***************************************************************************)
(* Processes killed from outside: nothing restarts them.                   *)
(***************************************************************************)
CliCrashes(j) ==
  /\ Crashes
  /\ cli[j] \in {"added", "saved", "spawned", "waiting"}
  /\ cli' = [cli EXCEPT ![j] = "dead"]
  /\ UNCHANGED <<table, lastJob, shown, worker, cancel, seen>>

WorkerCrashes(j) ==
  /\ Crashes
  /\ worker[j] \in Alive
  /\ worker' = [worker EXCEPT ![j] = "crashed"]
  /\ UNCHANGED <<table, lastJob, cli, shown, cancel, seen>>

CancelCrashes(k) ==
  /\ Crashes
  /\ cancel[k] \in {"seen", "killed", "warned"}
  /\ cancel' = [cancel EXCEPT ![k] = "dead"]
  /\ UNCHANGED <<table, lastJob, cli, shown, worker, seen>>

CliStep(j) ==
  \/ SetLastJob(j) \/ Spawn(j) \/ RecordPid(j) \/ WaitSees(j) \/ WaitExpires(j)

WorkerStep(j) ==
  \/ GetJob(j) \/ MarkRunning(j) \/ RunAgent(j) \/ WriteCompleted(j) \/ WriteFailed(j)

CancelGoes(k) == CancelKills(k) \/ CancelWarns(k) \/ CancelWrites(k)

Next ==
  \/ \E j \in Job : AddJob(j) \/ CliStep(j) \/ WorkerStep(j) \/ CliCrashes(j) \/ WorkerCrashes(j)
  \/ \E k \in Cancel : CancelGoes(k) \/ CancelCrashes(k) \/ \E j \in Job : CancelReads(k, j)

Spec == Init /\ [][Next]_vars

(***************************************************************************)
(* A process that was started and is not killed runs to its end: the run   *)
(* of the agent is bounded by the workflow timeout of mastraAdapter.ts.    *)
(* Nobody is obliged to enqueue or to cancel.                              *)
(***************************************************************************)
FairSpec ==
  /\ Spec
  /\ \A j \in Job : WF_vars(CliStep(j)) /\ WF_vars(WorkerStep(j))
  /\ \A k \in Cancel : WF_vars(CancelGoes(k))
-----------------------------------------------------------------------------
(***************************************************************************)
(* Properties                                                              *)
(***************************************************************************)
\* Types of the shared list and of every process.
TypeOK ==
  /\ table \in Seq(Rec)
  /\ lastJob \in Job \cup {NoJob}
  /\ cli \in [Job -> {"new", "added", "saved", "spawned", "waiting", "returned", "dead"}]
  /\ shown \in [Job -> {"nothing", "still running"} \cup Status]
  /\ worker \in [Job -> {"none", "exited", "dead", "killed", "crashed"} \cup Alive]
  /\ cancel \in [Cancel -> {"idle", "seen", "killed", "warned", "done", "doubtful", "dead"}]
  /\ seen \in [Cancel -> [id : Job \cup {NoJob}, pid : {"unset", "set"}]]

\* A worker that has exited normally has left its job finished: in particular the
\* enqueuer's late { pid } patch does not put a fast job back to queued, and the
\* report is dropped only with the job itself.
ExitLeavesFinished ==
  \A j \in Job : worker[j] = "exited" /\ Has(table, j) => StatusOf(j) \in Terminal

\* A worker dies of an unknown job only if the job was evicted meanwhile: the job
\* is persisted before its worker is spawned.
WorkerKnowsJob ==
  \A j \in Job : worker[j] = "dead" => ~Has(table, j) /\ Len(table) = MaxRetained

\* `jobs show` without an id finds the job queued last unless it was evicted.
LastJobListed ==
  lastJob # NoJob /\ ~Has(table, lastJob) => Len(table) = MaxRetained

\* A cancel command that had read a pid and went through without the warning that
\* the worker could not be killed has cancelled: nothing is written over it.
CancelWithPidHolds ==
  \A k \in Cancel :
    cancel[k] = "done" /\ seen[k].id # NoJob /\ seen[k].pid = "set" /\ Has(table, seen[k].id)
      => StatusOf(seen[k].id) = "cancelled"

\* The same with or without a pid: what README.md 106 says of `jobs cancel`
\* ("Kill a running or queued job").
CancelHolds ==
  \A k \in Cancel :
    cancel[k] = "done" /\ seen[k].id # NoJob /\ Has(table, seen[k].id)
      => StatusOf(seen[k].id) = "cancelled"

\* What `--wait` printed as the outcome of a job stays its outcome: only a cancel
\* command that had read the job before may change it (cli.ts 76-89).
ShownOutcomeStands ==
  \A j \in Job :
    shown[j] \in {"completed", "failed"} /\ Has(table, j) =>
      \/ StatusOf(j) = shown[j]
      \/ StatusOf(j) = "cancelled" /\ \E k \in Cancel : seen[k].id = j

\* A process of j was killed from outside: its enqueuer, its worker, or the cancel
\* command that killed its worker.
Abandoned(j) ==
  \/ cli[j] = "dead" \/ worker[j] = "crashed"
  \/ worker[j] = "killed" /\ \E k \in Cancel : seen[k].id = j /\ cancel[k] = "dead"

\* Every job that is enqueued ends in a terminal status for good, unless it is
\* evicted or a process is killed from outside: nothing supervises the processes.
Settles ==
  \A j \in Job :
    cli[j] = "added" ~> (Abandoned(j) \/ [](~Has(table, j) \/ StatusOf(j) \in Terminal))

\* The refinement mapping: the life of each job as the list and its enqueuer show
\* it, and the jobs some cancel command has read in order to cancel them.
LifeOf ==
  [j \in Job |-> IF Has(table, j) THEN StatusOf(j)
                 ELSE IF cli[j] = "new" THEN "absent" ELSE "evicted"]

AimedAt == { seen[k].id : k \in Cancel } \ {NoJob}

\* The code follows the documented life of a job, whoever is killed: only the job a
\* cancel command has read may leave it, and only to be cancelled or to have its
\* cancellation overwritten by a worker that goes on.
Contract == INSTANCE JobContract WITH status <- LifeOf, disturbed <- AimedAt

FollowsContract == Contract!Spec
-----------------------------------------------------------------------------
(***************************************************************************)
(* The inductive invariant behind the theorems of JobLifecycleProofs.      *)
(***************************************************************************)
TableInv == UniqueIds(table) /\ Len(table) <= MaxRetained

\* The order enqueue works in: save the job, save its id, spawn.
OrderInv ==
  /\ \A j \in Job :
       /\ cli[j] \in {"new", "added", "saved"} => worker[j] = "none"
       /\ cli[j] \in {"spawned", "waiting", "returned"} => worker[j] # "none"
       /\ cli[j] # "new" /\ ~Has(table, j) => Len(table) = MaxRetained
       /\ worker[j] = "dead" => cli[j] # "new" /\ ~Has(table, j)
  /\ lastJob # NoJob => cli[lastJob] # "new"

\* What a record in the list says of the processes around it.
RecordInv ==
  \A i \in DOMAIN table :
    /\ cli[table[i].id] # "new"
    /\ worker[table[i].id] = "exited" => table[i].status \in Terminal
    /\ table[i].pid = "set" => worker[table[i].id] # "none"
    /\ \A k \in Cancel :
         cancel[k] = "done" /\ seen[k].pid = "set" /\ seen[k].id = table[i].id
           => table[i].status = "cancelled"

\* A cancel command that read a pid read it of a worker that was spawned, and
\* that worker is gone once the kill has been reported done.
CancelInv ==
  \A k \in Cancel : seen[k].pid = "set" =>
    /\ cancel[k] # "idle"
    /\ seen[k].id \in Job
    /\ worker[seen[k].id] # "none"
    /\ cancel[k] \in {"killed", "done"} => worker[seen[k].id] \notin Alive

\* Which statuses a job can have while its worker is at each of its steps.  An
\* outcome in the list is that of a worker that will not write again, and until
\* then the status follows the worker, or says that the job was cancelled.
FateInv ==
  /\ \A k \in Cancel : cancel[k] = "idle" => seen[k].id = NoJob
  /\ \A j \in Job : shown[j] \in {"completed", "failed"} => worker[j] = "exited"
  /\ \A j \in Job : Has(table, j) =>
       /\ StatusOf(j) \in {"completed", "failed"} => worker[j] = "exited"
       /\ StatusOf(j) = "cancelled" => j \in AimedAt
       /\ worker[j] \in {"none", "started", "read"} => StatusOf(j) \in {"queued", "cancelled"}
       /\ worker[j] \in {"running", "succeeded", "erred"} => StatusOf(j) \in {"running", "cancelled"}
       /\ shown[j] \in {"completed", "failed"} => StatusOf(j) \in {shown[j], "cancelled"}

LifeInv == TableInv /\ OrderInv /\ RecordInv /\ CancelInv /\ FateInv
=============================================================================

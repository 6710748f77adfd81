------------------------------ MODULE JobStore ------------------------------
(***************************************************************************)
(* jobs/jobStore.ts, one file-system call at a time: withLock, loadJobs    *)
(* and saveJobs as run by addJob and updateJob in any number of processes  *)
(* (CLI, REPL, detached workers).  A process may be killed between any two *)
(* calls, a waiter's 5 s deadline may pass, and every process uses the     *)
(* same lock directory and the same temporary file.                        *)
(*                                                                         *)
(* Files are inodes: an inode is named by the call that created it.  That  *)
(* is what tells a rename from a copy: a descriptor opened on jobs.json.tmp*)
(* keeps writing to the same inode after somebody renamed it.              *)
(***************************************************************************)
EXTENDS StoreOps

CONSTANTS
  NoCall,                 (* "no such directory", "no such file"           *)
  Impatient,              (* the calls whose wait may reach its deadline   *)
  Prompt,                 (* TRUE: no live process holds the lock for 5 s, *)
                          (* so a deadline passes only on a dead holder    *)
  FirstUse                (* TRUE: the data directory may not exist yet    *)

ASSUME StoreAssumption ==
  /\ NoCall \notin Call
  /\ Impatient \subseteq Call
  /\ Prompt \in BOOLEAN
  /\ FirstUse \in BOOLEAN

VARIABLES
  home,       (* APP_DIR, where the lock and the files go, exists          *)
  lock,       (* jobs.json.lock: the call whose mkdir made it, or NoCall   *)
  pc,         (* where each call is                                        *)
  jobs,       (* jobs[c]: the list c holds in memory                       *)
  fd,         (* fd[c]: the inode c has open for writing                   *)
  file,       (* the inode jobs.json names, or NoCall                      *)
  tmp,        (* the inode jobs.json.tmp names, or NoCall                  *)
  content,    (* content[i]: what inode i holds                            *)
  logs,       (* the jobs that have a log file                             *)
  outcome,    (* outcome[c]: "none", "ok", "notfound", "error"             *)
  breached    (* history: a waiter took the lock of a living process, or   *)
              (* went inside without having made the lock                  *)

vars == <<home, lock, pc, jobs, fd, file, tmp, content, logs, outcome, breached>>

\* loadJobs: a missing, blank or unparsable file is an empty list.
LoadJobs ==
  IF file = NoCall \/ content[file].form # "json" THEN << >>
  ELSE content[file].jobs

\* The promise, with what a reader would load as its table.  A call that has
\* failed with an I/O error has had no effect it may count on.
Store == INSTANCE AtomicStore WITH
           table   <- LoadJobs,
           effect  <- [c \in Call |-> IF outcome[c] = "error" THEN "none"
                                      ELSE outcome[c]],
           trusted <- ~breached

Empty == [form |-> "empty", jobs |-> << >>]
Garbled == [form |-> "garbled", jobs |-> << >>]
Json(js) == [form |-> "json", jobs |-> js]

\* Inside fn() of withLock, up to and including the rmdir of the finally.
Critical == {"load", "open", "write", "rename", "unlink", "release"}

InFlight == {"try", "reclaimRmdir", "reclaimMkdir"} \cup Critical

Init ==
  /\ home \in {TRUE, ~FirstUse}
  /\ lock = NoCall
  /\ pc = [c \in Call |-> "idle"]
  /\ jobs = [c \in Call |-> << >>]
  /\ fd = [c \in Call |-> NoCall]
  /\ file = NoCall
  /\ tmp = NoCall
  /\ content = [c \in Call |-> Empty]
  /\ logs = {}
  /\ outcome = [c \in Call |-> "none"]
  /\ breached = FALSE

Goto(c, from, to) ==
  /\ pc[c] = from
  /\ pc' = [pc EXCEPT ![c] = to]
-----------------------------------------------------------------------------
(***************************************************************************)
(* withLock                                                                *)
(***************************************************************************)
\* The call begins: its deadline is set.
Begin(c) ==
  /\ Goto(c, "idle", "try")
  /\ UNCHANGED <<home, lock, jobs, fd, file, tmp, content, logs, outcome, breached>>

\* Mutant of TakeLock: mkdirSync with recursive: true never fails.
TakeLockAnyway(c) ==
  /\ Goto(c, "try", "load")
  /\ home' = TRUE
  /\ lock' = c
  /\ UNCHANGED <<jobs, fd, file, tmp, content, logs, outcome, breached>>

\* mkdirSync succeeds: the lock is free and its parent directory exists.
TakeLock(c) ==
  /\ Goto(c, "try", "load")
  /\ home
  /\ lock = NoCall
  /\ lock' = c
  /\ UNCHANGED <<home, jobs, fd, file, tmp, content, logs, outcome, breached>>

\* Mutant of DeadlinePasses: the deadline is set anew at every attempt.
DeadlineRestarts(c) ==
  /\ c \in Impatient
  /\ pc[c] = "try"
  /\ home => lock # NoCall
  /\ UNCHANGED vars

\* mkdirSync fails and Date.now() > deadline.  It fails on a lock that is held,
\* and for as long as the directory the lock belongs in does not exist.
DeadlinePasses(c) ==
  /\ c \in Impatient
  /\ Goto(c, "try", "reclaimRmdir")
  /\ home => /\ lock # NoCall
             /\ Prompt => pc[lock] = "crashed"
  /\ UNCHANGED <<home, lock, jobs, fd, file, tmp, content, logs, outcome, breached>>

\* rmdirSync, whoever made the directory; an error is ignored.
ReclaimRmdir(c) ==
  /\ Goto(c, "reclaimRmdir", "reclaimMkdir")
  /\ lock' = NoCall
  /\ breached' = (breached \/ (lock # NoCall /\ pc[lock] # "crashed"))
  /\ UNCHANGED <<home, jobs, fd, file, tmp, content, logs, outcome>>

\* mkdirSync; its failure is ignored too, and the loop is left either way.
ReclaimMkdir(c) ==
  /\ Goto(c, "reclaimMkdir", "load")
  /\ lock' = IF home /\ lock = NoCall THEN c ELSE lock
  /\ breached' = (breached \/ ~home \/ lock # NoCall)
  /\ UNCHANGED <<home, jobs, fd, file, tmp, content, logs, outcome>>

\* finally { rmdirSync }: again whoever made the directory.
Release(c) ==
  /\ Goto(c, "release", "returned")
  /\ lock' = NoCall
  /\ jobs' = [jobs EXCEPT ![c] = << >>]
  /\ fd' = [fd EXCEPT ![c] = NoCall]
  /\ UNCHANGED <<home, file, tmp, content, logs, outcome, breached>>
-----------------------------------------------------------------------------
(***************************************************************************)
(* addJob, updateJob: loadJobs, the change in memory, saveJobs             *)
(***************************************************************************)
\* loadJobs calls ensureDataDir, which a caller's mkdir of the lock precedes.
Load(c) ==
  /\ ~Refused(LoadJobs, c)
  /\ Goto(c, "load", "open")
  /\ home' = TRUE
  /\ jobs' = [jobs EXCEPT ![c] = Applied(LoadJobs, c)]
  /\ UNCHANGED <<lock, fd, file, tmp, content, logs, outcome, breached>>

\* updateJob throws; the finally still runs.
NotFound(c) ==
  /\ Refused(LoadJobs, c)
  /\ Goto(c, "load", "release")
  /\ home' = TRUE
  /\ outcome' = [outcome EXCEPT ![c] = "notfound"]
  /\ UNCHANGED <<lock, jobs, fd, file, tmp, content, logs, breached>>

\* Mutant of OpenTmp: jobs.json is written in place.
OpenInPlace(c) ==
  /\ Goto(c, "open", "write")
  /\ LET inode == IF file = NoCall THEN c ELSE file IN
     /\ file' = inode
     /\ fd' = [fd EXCEPT ![c] = inode]
     /\ content' = [content EXCEPT ![inode] = Empty]
  /\ UNCHANGED <<home, lock, jobs, tmp, logs, outcome, breached>>

\* writeFileSync(tmp) opens jobs.json.tmp with O_CREAT | O_TRUNC ...
OpenTmp(c) ==
  /\ Goto(c, "open", "write")
  /\ LET inode == IF tmp = NoCall THEN c ELSE tmp IN
     /\ tmp' = inode
     /\ fd' = [fd EXCEPT ![c] = inode]
     /\ content' = [content EXCEPT ![inode] = Empty]
  /\ UNCHANGED <<home, lock, jobs, file, logs, outcome, breached>>

\* Mutant of WriteTmp: saveJobs forgets the slice.
WriteTmpUnsliced(c) ==
  /\ Goto(c, "write", "rename")
  /\ content' = [content EXCEPT ![fd[c]] = Json(jobs[c])]
  /\ UNCHANGED <<home, lock, jobs, fd, file, tmp, logs, outcome, breached>>

\* ... and writes from offset 0.  Bytes another descriptor put there in the
\* meantime remain where they reach further than ours.
WriteTmp(c) ==
  /\ Goto(c, "write", "rename")
  /\ \E new \in {Json(Kept(jobs[c])), Garbled} :
       /\ content[fd[c]] = Empty => new # Garbled
       /\ content' = [content EXCEPT ![fd[c]] = new]
  /\ UNCHANGED <<home, lock, jobs, fd, file, tmp, logs, outcome, breached>>

RenameTmp(c) ==
  /\ tmp # NoCall
  /\ Goto(c, "rename", "unlink")
  /\ file' = tmp
  /\ tmp' = NoCall
  /\ outcome' = [outcome EXCEPT ![c] = "ok"]
  /\ UNCHANGED <<home, lock, jobs, fd, content, logs, breached>>

\* renameSync throws ENOENT: somebody else renamed the temporary file.
RenameFails(c) ==
  /\ tmp = NoCall
  /\ Goto(c, "rename", "release")
  /\ outcome' = [outcome EXCEPT ![c] = "error"]
  /\ UNCHANGED <<home, lock, jobs, fd, file, tmp, content, logs, breached>>

\* The logs of the evicted jobs go, best effort.
UnlinkLogs(c) ==
  /\ Goto(c, "unlink", "release")
  /\ logs' = logs \ Evicted(jobs[c])
  /\ UNCHANGED <<home, lock, jobs, fd, file, tmp, content, outcome, breached>>
-----------------------------------------------------------------------------
\* enqueue goes on to startDetachedWorker, which opens the job's log.
OpenLog(c) ==
  /\ c \in AddCall
  /\ outcome[c] = "ok"
  /\ Goto(c, "returned", "dispatched")
  /\ logs' = logs \cup {JobOf[c]}
  /\ UNCHANGED <<home, lock, jobs, fd, file, tmp, content, outcome, breached>>

\* getJob, listJobs or the REPL's history make the data directory meanwhile.
EnsureDataDir ==
  /\ ~home
  /\ home' = TRUE
  /\ UNCHANGED <<lock, pc, jobs, fd, file, tmp, content, logs, outcome, breached>>

\* The process is killed: the lock directory and the files stay.
Crash(c) ==
  /\ pc[c] \in InFlight
  /\ pc' = [pc EXCEPT ![c] = "crashed"]
  /\ UNCHANGED <<home, lock, jobs, fd, file, tmp, content, logs, outcome, breached>>

Step(c) ==
  \/ TakeLock(c) \/ DeadlinePasses(c) \/ ReclaimRmdir(c) \/ ReclaimMkdir(c)
  \/ Load(c) \/ NotFound(c) \/ OpenTmp(c) \/ WriteTmp(c)
  \/ RenameTmp(c) \/ RenameFails(c) \/ UnlinkLogs(c) \/ Release(c)

Next ==
  \/ \E c \in Call : Begin(c) \/ Step(c) \/ OpenLog(c) \/ Crash(c)
  \/ EnsureDataDir

Spec == Init /\ [][Next]_vars

(***************************************************************************)
(* A process that is not killed keeps executing synchronous code, and the  *)
(* clock that its deadline is read from keeps running.  Nothing obliges a  *)
(* process to begin a call, to open a log or to crash.                     *)
(***************************************************************************)
FairSpec == Spec /\ \A c \in Call : WF_vars(Step(c))
-----------------------------------------------------------------------------
(***************************************************************************)
(* Properties                                                              *)
(***************************************************************************)
Content == [form : {"empty", "garbled", "json"}, jobs : Seq(Rec)]

\* Types of the lock, of the files and of every call's locals.
TypeOK ==
  /\ home \in BOOLEAN
  /\ lock \in Call \cup {NoCall}
  /\ pc \in [Call -> {"idle", "returned", "dispatched", "crashed"} \cup InFlight]
  /\ jobs \in [Call -> Seq(Rec)]
  /\ fd \in [Call -> Call \cup {NoCall}]
  /\ file \in Call \cup {NoCall}
  /\ tmp \in Call \cup {NoCall}
  /\ content \in [Call -> Content]
  /\ logs \in SUBSET Job
  /\ outcome \in [Call -> {"none", "ok", "notfound", "error"}]
  /\ breached \in BOOLEAN

\* No two live processes are inside the function withLock protects.
Exclusive ==
  \A c, d \in Call : pc[c] \in Critical /\ pc[d] \in Critical => c = d

\* Until some waiter breaks the lock, withLock excludes: the guarantee
\* ARCHITECTURE.md 188 states, with its real precondition. A waiter that reclaims
\* the lock of a dead holder and meets nobody else on the way does not break it; one
\* that goes in because the data directory is still missing does.
MutualExclusion == ~breached => Exclusive

\* jobs.json, when it exists, holds a complete list: a reader that takes no
\* lock (getJob, listJobs) never takes a half-written file for an empty list,
\* at whatever point writers are killed.
Intact == file # NoCall => content[file].form = "json"

JobsFileIntact == ~breached => Intact

\* A call that returned normally has left its mark: the record it wrote still
\* contains its patch whatever others wrote since, and a job that was added is
\* gone only because the list is full.
Durable ==
  \A c \in Call : outcome[c] = "ok" =>
    /\ \A i \in DOMAIN LoadJobs : LoadJobs[i].id = JobOf[c] => c \in LoadJobs[i].by
    /\ c \in AddCall /\ ~Has(LoadJobs, JobOf[c]) => Len(LoadJobs) = MaxRetained

NoLostUpdate == ~breached => Durable

\* saveJobs deletes the log of no job that is still listed, as long as the
\* lock is respected.
OnlyEvictedLogsGo ==
  [][~breached => \A j \in logs \ logs' : ~Has(LoadJobs, j)]_vars

\* The calls are atomic in the sense of AtomicStore.
Linearizable == Store!Spec

\* withLock gives up waiting: a call whose process survives always comes back,
\* also when the holder of the lock was killed inside.
EveryCallReturns ==
  \A c \in Call : pc[c] = "try" ~> pc[c] \in {"returned", "dispatched", "crashed"}
-----------------------------------------------------------------------------
(***************************************************************************)
(* The inductive invariant behind the theorems of JobStoreProofs: what is  *)
(* true of every call, and of the files dead ones left, until the lock is  *)
(* broken.                                                                 *)
(***************************************************************************)
\* The lock belongs to whoever is inside, and lies in a directory that exists.
LockInv ==
  /\ \A c \in Call : pc[c] \in Critical => lock = c
  /\ lock # NoCall => home

\* Before a call opens the temporary file.
Unopened == {"idle", "try", "reclaimRmdir", "reclaimMkdir", "load", "open"}

\* A call has created no inode before it opens the temporary file.
FreshInv ==
  \A c \in Call : pc[c] \in Unopened => file # c /\ tmp # c

\* What the call inside has loaded is still what jobs.json holds, and the
\* temporary file is its own.
HolderInv ==
  \A c \in Call :
    /\ pc[c] \in {"open", "write", "rename"} =>
         ~Refused(LoadJobs, c) /\ jobs[c] = Applied(LoadJobs, c)
    /\ pc[c] = "write" => tmp # NoCall /\ fd[c] = tmp /\ content[tmp] = Empty
    /\ pc[c] = "rename" => tmp # NoCall /\ content[tmp] = Json(Kept(jobs[c]))
    /\ pc[c] = "unlink" => LoadJobs = Kept(jobs[c]) /\ UniqueIds(jobs[c])

FileInv == Intact /\ (tmp # NoCall => tmp # file)

OutcomeInv ==
  \A c \in Call :
    /\ pc[c] \in Unopened \cup {"write", "rename"} => outcome[c] = "none"
    /\ outcome[c] # "error"

\* Every job listed or updated was added by a call that succeeded.
OriginInv ==
  LET Added(j) == \E a \in AddCall : JobOf[a] = j /\ outcome[a] = "ok" IN
  /\ \A i \in DOMAIN LoadJobs : Added(LoadJobs[i].id)
  /\ \A c \in Call : outcome[c] = "ok" => Added(JobOf[c])
  /\ UniqueIds(LoadJobs)

StoreInv ==
  ~breached => /\ LockInv /\ FreshInv /\ HolderInv /\ FileInv
                /\ OutcomeInv /\ OriginInv /\ Durable
=============================================================================

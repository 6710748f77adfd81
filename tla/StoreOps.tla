------------------------------ MODULE StoreOps ------------------------------
(***************************************************************************)
(* What one call of addJob or updateJob does to the list it has loaded,    *)
(* whoever else is running: shared by the promise (AtomicStore) and by the *)
(* implementation (JobStore).                                              *)
(***************************************************************************)
EXTENDS JobTable

CONSTANTS
  Call,      (* the calls of addJob and updateJob, in every process        *)
  AddCall,   (* those of addJob                                            *)
  JobOf      (* the job each call is about                                 *)

ASSUME CallAssumption ==
  /\ AddCall \subseteq Call
  /\ JobOf \in [Call -> Job]
  \* addJob is called once per job, with a fresh nanoid
  /\ \A c, d \in AddCall : JobOf[c] = JobOf[d] => c = d

(***************************************************************************)
(* A record remembers, in by, the calls whose effect it contains: the      *)
(* merge { ...job, ...patch } adds the patch and keeps the rest.           *)
(***************************************************************************)
Rec == [id : Job, by : SUBSET Call]

\* Mutant of Applied: updateJob stores the patch instead of the merge.
AppliedUnmerged(jobs, c) ==
  IF c \in AddCall
  THEN Unshift(jobs, [id |-> JobOf[c], by |-> {c}])
  ELSE [jobs EXCEPT ![IndexOf(jobs, JobOf[c])].by = {c}]

\* The body of addJob and updateJob: the table a call makes of the one it
\* has loaded.
Applied(jobs, c) ==
  IF c \in AddCall
  THEN Unshift(jobs, [id |-> JobOf[c], by |-> {c}])
  ELSE [jobs EXCEPT ![IndexOf(jobs, JobOf[c])].by = @ \cup {c}]

\* updateJob throws "Job not found"; addJob never refuses.
Refused(jobs, c) == c \notin AddCall /\ ~Has(jobs, JobOf[c])
=============================================================================

------------------------------ MODULE JobTable ------------------------------
(***************************************************************************)
(* The list kept in jobs.json as jobs/jobStore.ts manipulates it: a        *)
(* sequence of records, newest first, each with an id that nanoid made     *)
(* unique.  Nothing here depends on what else a record holds: the modules  *)
(* that extend this one add the fields their properties tell apart.        *)
(***************************************************************************)
EXTENDS Integers, Sequences, FiniteSets

CONSTANTS
  Job,          (* job ids                                                 *)
  MaxRetained   (* MAX_JOBS_RETAINED, 200 in the code                      *)

ASSUME RetainedAssumption == MaxRetained \in Nat \ {0}

Ids(jobs) == { jobs[i].id : i \in DOMAIN jobs }

Has(jobs, j) == \E i \in DOMAIN jobs : jobs[i].id = j

\* findIndex / find.  Ids are unique, so "the" index is the first one.
IndexOf(jobs, j) == CHOOSE i \in DOMAIN jobs : jobs[i].id = j

UniqueIds(jobs) == \A i, k \in DOMAIN jobs : jobs[i].id = jobs[k].id => i = k

\* jobs.unshift(job)
Unshift(jobs, r) == <<r>> \o jobs

\* jobs.slice(0, MAX_JOBS_RETAINED): what saveJobs writes.
Kept(jobs) ==
  IF Len(jobs) <= MaxRetained THEN jobs ELSE SubSeq(jobs, 1, MaxRetained)

\* Mutant of Evicted: the slice starts one job early.
EvictedOneEarly(jobs) == { jobs[i].id : i \in MaxRetained..Len(jobs) }

\* jobs.slice(MAX_JOBS_RETAINED): the ids whose logs saveJobs deletes.
Evicted(jobs) == { jobs[i].id : i \in (MaxRetained + 1)..Len(jobs) }
=============================================================================

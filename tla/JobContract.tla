----------------------------- MODULE JobContract -----------------------------
(***************************************************************************)
(* The life of a background job as ARCHITECTURE.md 185 draws it            *)
(*     queued -> running -> completed | failed                             *)
(* with the retention limit the drawing leaves out: a job of any status    *)
(* may be dropped from the list for ever.  A cancel command may disturb    *)
(* this life, but only that of the job it is aimed at, and only in two     *)
(* ways: it writes "cancelled" over any status, and the next write of a    *)
(* worker it did not reach replaces that.  Nothing puts a job back to      *)
(* queued, or one that is finished back to running.                        *)
(***************************************************************************)
CONSTANT Job

VARIABLES
  status,      (* status[j], "absent" before addJob, "evicted" at last     *)
  disturbed    (* the jobs some cancel command is aimed at                 *)

Statuses ==
  {"absent", "queued", "running", "completed", "failed", "cancelled", "evicted"}

Edges ==
  { <<"absent", "queued">>, <<"queued", "running">>,
    <<"running", "completed">>, <<"running", "failed">> }
  \cup { <<s, "evicted">> : s \in Statuses \ {"absent", "evicted"} }

\* What becomes possible for a job some cancel command is aimed at.
CancelEdges ==
  { <<s, "cancelled">> : s \in {"queued", "running", "completed", "failed"} }
  \cup { <<"cancelled", s>> : s \in {"running", "completed", "failed"} }

EdgesOf(j) == IF j \in disturbed THEN Edges \cup CancelEdges ELSE Edges

Init ==
  /\ status = [j \in Job |-> "absent"]
  /\ disturbed = {}

\* One job moves along an edge; the same write may evict others.
Live ==
  /\ status' \in [Job -> Statuses]
  /\ \A j \in Job : status'[j] # status[j] => <<status[j], status'[j]>> \in EdgesOf(j)
  /\ \A i, j \in Job :
       i # j /\ status'[i] # status[i] /\ status'[j] # status[j]
         => "evicted" \in {status'[i], status'[j]}
  /\ UNCHANGED disturbed

Disturb ==
  /\ \E j \in Job : disturbed' = disturbed \cup {j}
  /\ UNCHANGED status

Next == Live \/ Disturb

Spec == Init /\ [][Next]_<<status, disturbed>>
=============================================================================

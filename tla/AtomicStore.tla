----------------------------- MODULE AtomicStore -----------------------------
(***************************************************************************)
(* What jobs/jobStore.ts promises its callers: addJob and updateJob are    *)
(* atomic transformations of one table, and an update of a job that is not *)
(* in the table is refused.  The promise lasts as long as no caller has    *)
(* taken the lock of a living one or gone in without it; from then on      *)
(* (trusted = FALSE) nothing is promised.                                  *)
(***************************************************************************)
EXTENDS StoreOps

VARIABLES
  table,     (* the jobs a reader sees                                     *)
  effect,    (* effect[c]: "none", "ok" or "notfound"                      *)
  trusted    (* the lock has not been broken                               *)

vars == <<table, effect, trusted>>

Init ==
  /\ table = << >>
  /\ effect = [c \in Call |-> "none"]
  /\ trusted = TRUE

Commit(c) ==
  /\ effect[c] = "none"
  /\ ~Refused(table, c)
  /\ table' = Kept(Applied(table, c))
  /\ effect' = [effect EXCEPT ![c] = "ok"]
  /\ UNCHANGED trusted

Refuse(c) ==
  /\ effect[c] = "none"
  /\ Refused(table, c)
  /\ effect' = [effect EXCEPT ![c] = "notfound"]
  /\ UNCHANGED <<table, trusted>>

\* A caller whose deadline has passed breaks the lock.
Distrust ==
  /\ trusted
  /\ ~trusted'
  /\ UNCHANGED <<table, effect>>

Next ==
  \/ \E c \in Call : Commit(c) \/ Refuse(c)
  \/ Distrust
  \/ ~trusted /\ ~trusted'

Spec == Init /\ [][Next]_vars
=============================================================================

------------------------------ MODULE MCSession ------------------------------
EXTENDS Session

CONSTANTS repl, cmd, m1, m2, q1, home

(* There is no index and nothing to fetch: what is looked for here is what *)
(* the front ends do to each other. MCAsk has the knowledge.               *)
MCNothing == [c \in {} |-> c]
MCMatch == q1 :> MCNothing
MCBestSource == q1 :> home

MCEnvEndpoint == [p \in {repl, cmd} |-> None]
MCEnvModel == (cmd :> m1) @@ (repl :> None)
MCLines == (cmd :> {"model", "enqueue"}) @@ (repl :> {"docs", "model", "issue", "exit"})
=============================================================================

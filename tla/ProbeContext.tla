---------------------------- MODULE ProbeContext ----------------------------
(***************************************************************************)
(* What the four probes of a run have in common: the execution context     *)
(* they send their commands to, the progress of the probe, and the output  *)
(* of its specialist. A command that times out, or whose connection is     *)
(* lost, comes back without output; lost records that it happened.         *)
(***************************************************************************)
EXTENDS Integers

CONSTANT Contexts     \* the contexts considered: records [local, os]

VARIABLES branch,     \* the probe that is run
          ctx,        \* its execution context
          pc,         \* where the probe is
          lost,       \* some command came back without (all of) its answer
          causes,     \* what the specialist makes of the report: root causes
          notes       \* and those lines of evidence that deny a fault

probeVars == <<branch, ctx, pc, lost, causes, notes>>

OS == {"windows", "linux", "macos", "unknown"}
ASSUME ContextsAssumption == Contexts \subseteq [local : BOOLEAN, os : OS]

(* Targets of the three platforms; POSIX commands go to the other two.     *)
Remote == ~ctx.local
Windows == ctx.os = "windows"

(* A root cause: its kind, what it names, its score in per cent.           *)
Cause(kind, about, score) == [kind |-> kind, about |-> about, score |-> score]

(* One candidate if it is about something, none otherwise.                 *)
CauseIfAny(kind, about, score) ==
    IF about = {} THEN {} ELSE {Cause(kind, about, score)}

Reported == pc = "done"

ContextInit(b) ==
    /\ branch = b
    /\ ctx \in Contexts
    /\ pc = "start"
    /\ lost = FALSE
    /\ causes = {}
    /\ notes = {}

(* Nothing is concluded before the report.                                 *)
ContextInv ==
    /\ ctx \in Contexts /\ lost \in BOOLEAN
    /\ ~Reported => causes = {}

(* The specialist hands its output on.                                     *)
Report(cs, ns) ==
    /\ pc' = "done"
    /\ causes' = cs
    /\ notes' = ns
    /\ UNCHANGED <<branch, ctx, lost>>

(* The probe goes on with its next step; a command may have been lost.     *)
Goto(next, missed) ==
    /\ pc' = next
    /\ lost' = (lost \/ missed)
    /\ UNCHANGED <<branch, ctx, causes, notes>>
=============================================================================

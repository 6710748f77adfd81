------------------------------- MODULE Session -------------------------------
(***************************************************************************)
(* The front ends at work at the same time: shells (runRepl of repl.ts)    *)
(* and single commands (cli.ts, the one-shot mode of index.ts), with the   *)
(* settings, the model service, the knowledge and the questions of         *)
(* UserConfig, LocalModel, Retrieval and Ask. The user may type any line   *)
(* whenever there is a prompt, and end a shell at any time.                *)
(***************************************************************************)
EXTENDS Ask

CONSTANTS Shells,        \* the processes that are shells
          Lines,         \* bound: the kinds of lines typed in a process
          MaxLines       \* bound: lines typed at the prompt of a shell

VARIABLE shell           \* shell[p]: what the front end of p is doing

vars == <<askingVars, shell>>

ASSUME SessionAssumption ==
    /\ Shells \subseteq Proc /\ MaxLines \in Nat
    /\ Lines \in [Proc -> SUBSET {"docs", "model", "enqueue", "issue", "exit"}]

(* open: the readline of a shell; product: one is active; issue: what was  *)
(* asked before the question for the product.                              *)
Places == {"prompt", "product", "saving", "asking", "leaving", "over"}
Fresh == [at |-> "prompt", open |-> TRUE, product |-> FALSE, issue |-> None, lines |-> 0]

Init ==
    /\ AskingInit
    /\ shell = [p \in Proc |-> Fresh]

In(p, place) == shell[p].at = place
Turn(p, place) == shell' = [shell EXCEPT ![p].at = place]
BeginAsk(p, mode, q) ==
    StartAsk(p, mode, q) /\ UNCHANGED <<configVars, modelVars, retrievalVars>>
BeginSave(p, field, value) ==
    LoadConfig(p, field, value) /\ UNCHANGED <<modelVars, retrievalVars, askVars>>
Undisturbed == UNCHANGED askingVars

-----------------------------------------------------------------------------
(* The lines of a shell, and what a command is called with: a command is   *)
(* the one line of a process that reads no other.                          *)
Reads(p, kind) ==
    /\ In(p, "prompt") /\ shell[p].open /\ kind \in Lines[p]
    /\ shell[p].lines < IF p \in Shells THEN MaxLines ELSE 1
Typed(p, place) == [shell[p] EXCEPT !.at = place, !.lines = @ + 1]

(* /docs, docs ask.                                                        *)
DocsLine(p) == \E q \in Question :
    /\ Reads(p, "docs")
    /\ shell' = [shell EXCEPT ![p] = Typed(p, "asking")]
    /\ BeginAsk(p, "docs", q)

(* /model, models use, models unset, and the --model of a run, which is    *)
(* two lines here; enqueue, as far as it changes config.json.              *)
ModelLine(p) == \E m \in Model \cup {None} :
    /\ Reads(p, "model") /\ (m = None => p \notin Shells)
    /\ shell' = [shell EXCEPT ![p] = Typed(p, "saving")]
    /\ BeginSave(p, "model", m)
EnqueueLine(p) == \E j \in Job :
    /\ Reads(p, "enqueue")
    /\ shell' = [shell EXCEPT ![p] = Typed(p, "saving")]
    /\ BeginSave(p, "job", j)

(* An issue. The sentence may name the product; a shell that has none yet  *)
(* asks for it, a command takes teamviewer-remote.                         *)
IssueLine(p) == \E q \in Question, named \in BOOLEAN :
    /\ Reads(p, "issue")
    /\ LET known == named \/ shell[p].product \/ p \notin Shells IN
       /\ shell' = [shell EXCEPT ![p] =
              [Typed(p, IF known THEN "asking" ELSE "product") EXCEPT
                  !.product = known, !.issue = IF known THEN None ELSE q]]
       /\ IF known THEN BeginAsk(p, "run", q) ELSE Undisturbed
ProductLine(p) == \E supported \in BOOLEAN :
    /\ In(p, "product") /\ shell[p].open
    /\ shell' = [shell EXCEPT ![p].at = IF supported THEN "asking" ELSE "prompt",
                              ![p].product = supported, ![p].issue = None]
    /\ IF supported THEN BeginAsk(p, "run", shell[p].issue) ELSE Undisturbed
ExitLine(p) ==
    /\ Reads(p, "exit")
    /\ shell' = [shell EXCEPT ![p] = [Typed(p, "leaving") EXCEPT !.open = FALSE]]
    /\ Undisturbed

(* Ctrl+C twice within 1.5 s, or Ctrl+D, closes the readline. The first    *)
(* also clears the flag of the loop, so that the shell takes its leave; at *)
(* the second its next question throws, and the exit code is 70.           *)
CloseInput(p) ==
    /\ p \in Shells /\ shell[p].open
    /\ shell' = [shell EXCEPT ![p].open = FALSE]
    /\ Undisturbed

(* A prompt nobody can answer any more keeps no process running.           *)
\* Mutant of PromptClosed: the question for the product ignores the end of input.
OnlyPromptClosed(p) ==
    /\ In(p, "prompt") /\ ~shell[p].open
    /\ Turn(p, "leaving") /\ Undisturbed
PromptClosed(p) ==
    /\ In(p, "prompt") \/ In(p, "product")
    /\ ~shell[p].open
    /\ Turn(p, "leaving") /\ Undisturbed

-----------------------------------------------------------------------------
(* A save is carried out, or the process is killed in the middle of it.    *)
Save(p) ==
    /\ \/ TruncateConfig(p) /\ UNCHANGED modelVars
       \/ ModelChosen(p)
    /\ UNCHANGED <<retrievalVars, askVars, shell>>
Killed(p) ==
    /\ KilledSaving(p)
    /\ shell' = [shell EXCEPT ![p].at = "over"]
    /\ adrift' = [adrift EXCEPT ![p] = FALSE]
    /\ enriching' = [enriching EXCEPT ![p] = {}]
    /\ UNCHANGED <<modelVars, index, urlmap, pageCache, embedder, find, task, answer>>

(* Back to the loop of a shell, or the end of a command.                   *)
Return(p) ==
    /\ \/ In(p, "asking") /\ At(p, "idle")
       \/ In(p, "saving") /\ ~Saving(p)
    /\ Turn(p, IF p \in Shells /\ shell[p].open THEN "prompt" ELSE "leaving")
    /\ Undisturbed

(* No front end ends a process: it lives until what it has begun is over.  *)
Ends(p) ==
    /\ In(p, "leaving") /\ ~adrift[p] /\ enriching[p] = {}
    /\ Turn(p, "over") /\ Undisturbed

(* The event loop of a process: its question, and what goes on beside it.  *)
Step(p) ==
    \/ (AskStep(p) \/ StragglerEnds(p) \/ Enrich(p)) /\ UNCHANGED shell
    \/ Save(p) \/ Return(p) \/ PromptClosed(p) \/ Ends(p)
Event(p) == (StragglerResolves(p) \/ RunTimesOut(p)) /\ UNCHANGED shell
User(p) ==
    \/ DocsLine(p) \/ ModelLine(p) \/ EnqueueLine(p) \/ IssueLine(p) \/ ProductLine(p)
    \/ ExitLine(p) \/ CloseInput(p)

Next ==
    \/ \E p \in Proc : Step(p) \/ Event(p) \/ Killed(p) \/ User(p)
    \/ Restart /\ UNCHANGED shell

(* As in Ask. Neither the user nor the service need do anything.           *)
Fairness == \A p \in Proc : WF_vars(Step(p))
Spec == Init /\ [][Next]_vars /\ Fairness

-----------------------------------------------------------------------------
TypeOK ==
    /\ AskingTypeOK
    /\ shell \in [Proc -> [at : Places, open : BOOLEAN, product : BOOLEAN,
                           issue : Question \cup {None}, lines : 0 .. MaxLines + 1]]

(* agents/index.ts 29-32: the model a process has just chosen is the one   *)
(* its agents use next, also when a run that was given up is still at work *)
(* in it, as long as config.json was not being written at the same time.   *)
PickedModelServes ==
    ~raced => \A p \in Proc :
        picked[p] # None /\ cached[p] # None => cached[p].model = picked[p]

(* foundryLocal.ts 153-157, the hard gate: the model object a process      *)
(* builds after the gate let it pass asks the service where it is, until   *)
(* the service moves; neither a stale file nor another process changes it. *)
GateHolds == \A p \in Proc :
    vouched[p] /\ cached[p] # None => cached[p].url = service

(* A shell that was told to leave ends, whatever it was doing: a question, *)
(* an abandoned run, an enrichment or a save keeps no process for ever.    *)
ShellsEnd == \A p \in Shells : ~shell[p].open ~> In(p, "over")
=============================================================================

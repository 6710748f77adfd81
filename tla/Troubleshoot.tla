---------------------------- MODULE Troubleshoot -----------------------------
(***************************************************************************)
(* One troubleshoot run: runMastraAgent of agents/mastraAdapter.ts races   *)
(* the workflow against a timer; the workflow is classify, the specialists *)
(* in parallel, aggregate.  Losing the race does not stop the workflow:    *)
(* its steps go on, and what it returns is dropped.                        *)
(*                                                                         *)
(* Outside src/ are Mastra, which runs the steps and fails the workflow    *)
(* when a step throws, the model, which may answer anything at any time or *)
(* never, and the probed machine.  Time is counted in ticks; only the timer*)
(* and a live log capture measure it.                                      *)
(***************************************************************************)
EXTENDS ReportScoring, Functions

CONSTANTS
  Branch,         (* the specialists, in the order of the branches         *)
  Bucket,         (* the issue buckets                                     *)
  ProductBuckets, (* productBaselineBuckets of the product                 *)
  Timeout,        (* TWC_WORKFLOW_TIMEOUT_MS, in ticks                     *)
  Window,         (* the window of --capture in ticks, 0 without it        *)
  Retries,        (* retries of generateStructured, 1 everywhere           *)
  ProbeResults,   (* what a probe may find: evidence lines, scored causes  *)
  Guesses,        (* the scores a specialist's model may propose           *)
  Rescores,       (* the scores the model may give when it reranks         *)
  Faults,         (* FALSE: every probe and every answer is sound          *)
  Swift           (* TRUE: only captures take time                         *)

Key == { Branch[b] : b \in DOMAIN Branch }
BranchOf(s) == CHOOSE b \in DOMAIN Branch : Branch[b] = s
Caller == Key \cup {"classify", "rerank", "summary"}

ASSUME RunAssumption ==
  /\ Branch \in Seq(STRING)
  /\ \A a, b \in DOMAIN Branch : Branch[a] = Branch[b] => a = b
  /\ Key \cap {"classify", "rerank", "summary"} = {}
  /\ Bucket \subseteq STRING /\ ProductBuckets \in (SUBSET Bucket) \ {{}}
  /\ Timeout \in Nat \ {0} /\ Window \in Nat /\ Retries \in Nat
  /\ ProbeResults \subseteq [evidence : Nat, causes : Seq(Percent)]
  /\ Guesses \subseteq Seq(Int) /\ Rescores \subseteq Int
  /\ Faults \in BOOLEAN /\ Swift \in BOOLEAN

VARIABLES
  task,       (* "debug" or "troubleshoot"                                 *)
  buckets,    (* what classify made of the issue                           *)
  phase,      (* where the workflow is                                     *)
  spec,       (* spec[s]: where specialist s is                            *)
  garbled,    (* garbled[x]: how many answers x could not use              *)
  probe,      (* probe[s]: what the baseline probe of s found              *)
  roots,      (* roots[s]: the causes s returned                           *)
  found,      (* the candidates that passed the evidence filter            *)
  cause,      (* the same with the scores they have now                    *)
  report,     (* what the workflow returned                                *)
  outcome,    (* how the race ended                                        *)
  now,        (* the clock                                                 *)
  captured    (* when the live capture that is going on will be over         *)

gathered == <<spec, probe, roots>>
judged == <<found, cause, report>>
clock == <<now, captured>>
vars == <<task, buckets, phase, gathered, garbled, judged, outcome, clock>>

Nothing == [evidence |-> 0, causes |-> << >>]
ProbeError == [evidence |-> 1, causes |-> << >>]
NoReport == [summary |-> "none", top |-> {}, escalate |-> FALSE, execution |-> << >>]

\* specialists[..].active
active(s, b, t) ==
  IF s = "log-intelligence"
  THEN "log-intelligence" \in b \/ "generic" \in b \/ t = "debug"
  ELSE s \in b

\* The specialists selectAgents lists: a second statement of the same rule.
selectAgents(t, b) ==
  (b \cap (Key \ {"log-intelligence"}))
  \cup { s \in Key : s = "log-intelligence"
                     /\ (t = "debug" \/ b \cap {"log-intelligence", "generic"} # {}) }

Init ==
  /\ task \in {"debug", "troubleshoot"}
  /\ buckets = {}
  /\ phase = "preflight"
  /\ spec = [s \in Key |-> "waiting"]
  /\ garbled = [x \in Caller |-> 0]
  /\ probe = [s \in Key |-> Nothing]
  /\ roots = [s \in Key |-> << >>]
  /\ found = << >>
  /\ cause = << >>
  /\ report = NoReport
  /\ outcome = "pending"
  /\ now = 0
  /\ captured = 0

\* Promise.race: the first to settle decides.
Settle(result) == outcome' = IF outcome = "pending" THEN result ELSE outcome

Fail == phase' = "failed" /\ Settle("error")

Garble(x) == Faults /\ garbled' = [garbled EXCEPT ![x] = @ + 1]
-----------------------------------------------------------------------------
(***************************************************************************)
(* ensureFoundryLocalReady and classifyStep                                *)
(***************************************************************************)
Preflight ==
  /\ phase = "preflight"
  /\ \/ phase' = "classify" /\ UNCHANGED outcome
     \/ Faults /\ Fail
  /\ UNCHANGED <<task, buckets, gathered, garbled, judged, clock>>

\* The model's buckets are added to what the text and the product give; the
\* specialists start, and the inactive ones return at once.
ClassifyAnswers ==
  /\ phase = "classify"
  /\ phase' = "specialists"
  /\ \E inferred \in (SUBSET Bucket) \ {{}} :
       LET b == ProductBuckets \cup inferred IN
       /\ buckets' = b
       /\ spec' = [s \in Key |-> IF active(s, b, task) THEN "probe" ELSE "skipped"]
  /\ UNCHANGED <<task, garbled, probe, roots, judged, outcome, clock>>

\* generateStructured: an unusable answer is retried, the last one throws.
ClassifyGarbled ==
  /\ phase = "classify"
  /\ Garble("classify")
  /\ IF garbled["classify"] < Retries THEN UNCHANGED <<phase, outcome>> ELSE Fail
  /\ UNCHANGED <<task, buckets, gathered, judged, clock>>
-----------------------------------------------------------------------------
(***************************************************************************)
(* The specialists                                                         *)
(***************************************************************************)
Specialist(s, from, to) ==
  /\ spec[s] = from
  /\ spec' = [spec EXCEPT ![s] = to]

Captures(s) == s = "log-intelligence" /\ Window > 0

\* What a probe brings: an error is turned into one line of evidence.
Baseline(s) ==
  \E r \in ProbeResults \cup (IF Faults THEN {ProbeError} ELSE {}) :
    probe' = [probe EXCEPT ![s] = r]

ProbeEnds(s) ==
  /\ ~Captures(s)
  /\ Specialist(s, "probe", "model")
  /\ Baseline(s)
  /\ UNCHANGED <<task, buckets, phase, garbled, roots, judged, outcome, clock>>

\* runLogProbe with a window streams the log for that long before it returns.
CaptureStarts(s) ==
  /\ Captures(s)
  /\ Specialist(s, "probe", "capture")
  /\ captured' = now + Window
  /\ UNCHANGED <<task, buckets, phase, garbled, probe, roots, judged, outcome, now>>

\* The window is over, or the shell failed and the history is read instead.
CaptureEnds(s) ==
  /\ now >= captured \/ Faults
  /\ Specialist(s, "capture", "model")
  /\ Baseline(s)
  /\ captured' = 0
  /\ UNCHANGED <<task, buckets, phase, garbled, roots, judged, outcome, now>>

SpecialistAnswers(s) ==
  /\ Specialist(s, "model", "completed")
  /\ \E g \in Guesses : roots' = [roots EXCEPT ![s] = Merged(probe[s].causes, g)]
  /\ UNCHANGED <<task, buckets, phase, garbled, probe, judged, outcome, clock>>

\* Mutant of SpecialistGarbled: after the last retry the baseline is returned.
SpecialistFallsBack(s) ==
  /\ Garble(s)
  /\ IF garbled[s] < Retries
     THEN spec[s] = "model" /\ UNCHANGED <<spec, roots>>
     ELSE /\ Specialist(s, "model", "completed")
          /\ roots' = [roots EXCEPT ![s] = Merged(probe[s].causes, << >>)]
  /\ UNCHANGED <<task, buckets, phase, probe, judged, outcome, clock>>

SpecialistGarbled(s) ==
  /\ Garble(s)
  /\ IF garbled[s] < Retries
     THEN spec[s] = "model" /\ UNCHANGED spec
     ELSE Specialist(s, "model", "failed")
  /\ UNCHANGED <<task, buckets, phase, probe, roots, judged, outcome, clock>>

\* Mastra fails the workflow once a step has thrown; the other specialists are
\* not stopped.
WorkflowFails ==
  /\ phase = "specialists"
  /\ \E s \in Key : spec[s] = "failed"
  /\ Fail
  /\ UNCHANGED <<task, buckets, gathered, garbled, judged, clock>>
-----------------------------------------------------------------------------
(***************************************************************************)
(* aggregateStep                                                           *)
(***************************************************************************)
\* allRoots, each candidate at its place.
Candidates ==
  LET Here(b) == { <<b, k>> : k \in DOMAIN roots[Branch[b]] } IN
  [p \in UNION { Here(b) : b \in DOMAIN Branch } |-> roots[Branch[p[1]]][p[2]]]

\* evidence.length: two lines of its own, then those of the probes.
Evidence == 2 + SumFunction([s \in Key |-> probe[s].evidence])

\* What filterRootCausesAgainstEvidence may return: it judges each candidate by its
\* wording and that of the evidence, which are not modelled; probe-derived ones are
\* only exempt from one of its rules.
filterRootCausesAgainstEvidence(c) == { [p \in kept |-> c[p]] : kept \in SUBSET DOMAIN c }

\* A candidate that is left alone is not reranked.
Aggregate ==
  /\ phase = "specialists"
  /\ \A s \in Key : spec[s] \in {"skipped", "completed"}
  /\ \E filtered \in filterRootCausesAgainstEvidence(Candidates) :
       /\ found' = filtered
       /\ cause' = filtered
       /\ phase' = IF Cardinality(DOMAIN filtered) > 1 THEN "rerank" ELSE "summary"
  /\ UNCHANGED <<task, buckets, gathered, garbled, report, outcome, clock>>

\* The answer scores some of the candidates.
RerankAnswers ==
  /\ phase = "rerank"
  /\ phase' = "summary"
  /\ \E scored \in SUBSET DOMAIN cause : \E answer \in [scored -> Rescores] :
       cause' = applyRerankScores(cause, answer)
  /\ UNCHANGED <<task, buckets, gathered, garbled, found, report, outcome, clock>>

\* Here generateStructured has a fallback: the candidates as they are.
RerankGarbled ==
  /\ phase = "rerank"
  /\ Garble("rerank")
  /\ phase' = IF garbled["rerank"] < Retries THEN "rerank" ELSE "summary"
  /\ UNCHANGED <<task, buckets, gathered, judged, outcome, clock>>

\* The report is returned, with a summary of some origin.
Return(summary) ==
  /\ phase' = "done"
  /\ Settle("report")
  /\ report' = [ summary   |-> summary,
                 top       |-> topRoots(cause),
                 escalate  |-> escalationRequired(cause, Evidence, task),
                 execution |-> [s \in selectAgents(task, buckets) |-> spec[s]] ]

Worded == hasPlausibleCause(cause) /\ ~cause[First(cause)].anchored

\* No plausible cause, or one that a probe found: the summary is a fixed text.
SummaryFixed ==
  /\ phase = "summary"
  /\ ~Worded
  /\ Return(IF hasPlausibleCause(cause) THEN "cause found" ELSE "no cause found")
  /\ UNCHANGED <<task, buckets, gathered, garbled, found, cause, clock>>

SummaryAnswers ==
  /\ phase = "summary"
  /\ Worded
  /\ Return("worded by the model")
  /\ UNCHANGED <<task, buckets, gathered, garbled, found, cause, clock>>

\* cleanSummary leaves nothing of the answer: one stricter attempt, then a
\* template.
SummaryBlank ==
  /\ phase = "summary"
  /\ Worded
  /\ Garble("summary")
  /\ IF garbled["summary"] = 0
     THEN UNCHANGED <<phase, outcome, report>>
     ELSE Return("cause found")
  /\ UNCHANGED <<task, buckets, gathered, found, cause, clock>>

\* agent.generate throws, outside generateStructured: the run fails.
SummaryThrows ==
  /\ phase = "summary"
  /\ Worded
  /\ Faults
  /\ Fail
  /\ UNCHANGED <<task, buckets, gathered, garbled, judged, clock>>
-----------------------------------------------------------------------------
(***************************************************************************)
(* Time                                                                    *)
(***************************************************************************)
\* Mutant of TimerFires: the timer only covers the specialists.
TimerFiresInSpecialists ==
  /\ outcome = "pending" /\ phase = "specialists"
  /\ now >= Timeout
  /\ Settle("timeout")
  /\ UNCHANGED <<task, buckets, phase, gathered, garbled, judged, clock>>

TimerFires ==
  /\ outcome = "pending"
  /\ now >= Timeout
  /\ Settle("timeout")
  /\ UNCHANGED <<task, buckets, phase, gathered, garbled, judged, clock>>

Capturing == \E s \in Key : spec[s] = "capture" /\ now < captured

\* All that is left to do is wait for the capture.
Waiting ==
  /\ phase = "specialists"
  /\ Capturing
  /\ \A s \in Key : spec[s] \in {"skipped", "completed", "capture"}

\* Time passes until the timer is due, and for a capture also after it fired.
Tick ==
  /\ IF outcome = "pending" THEN now < Timeout ELSE Capturing
  /\ Swift => Waiting
  /\ now' = now + 1
  /\ UNCHANGED <<task, buckets, phase, gathered, garbled, judged, outcome, captured>>

Probing(s) == ProbeEnds(s) \/ CaptureStarts(s) \/ CaptureEnds(s)

ModelAnswers ==
  \/ ClassifyAnswers \/ RerankAnswers \/ SummaryAnswers
  \/ \E s \in Key : SpecialistAnswers(s)

ModelFails ==
  \/ ClassifyGarbled \/ RerankGarbled \/ SummaryBlank \/ SummaryThrows
  \/ \E s \in Key : SpecialistGarbled(s)

Runtime == Preflight \/ WorkflowFails \/ Aggregate \/ SummaryFixed

Next ==
  \/ Runtime \/ ModelAnswers \/ ModelFails \/ TimerFires \/ Tick
  \/ \E s \in Key : Probing(s)

Spec == Init /\ [][Next]_vars

(***************************************************************************)
(* The clock runs and the event loop fires a timer that is due; the code   *)
(* itself does not stall, and probes have limits of their own.  The model  *)
(* may hang for ever: no request to it has a limit.                        *)
(***************************************************************************)
FairSpec ==
  /\ Spec
  /\ WF_vars(Tick) /\ WF_vars(TimerFires) /\ WF_vars(Runtime)
  /\ \A s \in Key : WF_vars(Probing(s))

\* A model that always answers in the end.
ResponsiveSpec == FairSpec /\ WF_vars(ModelAnswers)
-----------------------------------------------------------------------------
(***************************************************************************)
(* Properties                                                              *)
(***************************************************************************)
Summaries == {"none", "no cause found", "cause found", "worded by the model"}

\* Types of the run, of its specialists and of its report.
TypeOK ==
  /\ task \in {"debug", "troubleshoot"}
  /\ buckets \subseteq Bucket
  /\ phase \in {"preflight", "classify", "specialists", "rerank", "summary", "done", "failed"}
  /\ spec \in [Key -> {"waiting", "skipped", "probe", "capture", "model", "completed", "failed"}]
  /\ garbled \in [Caller -> Nat]
  /\ probe \in [Key -> [evidence : Nat, causes : Seq(Percent)]]
  /\ roots \in [Key -> Seq(Cause)]
  /\ DOMAIN found \subseteq (DOMAIN Branch) \X Nat
  /\ found \in [DOMAIN found -> Cause]
  /\ cause \in [DOMAIN found -> Cause]
  /\ report.summary \in Summaries /\ report.top \subseteq DOMAIN found
  /\ outcome \in {"pending", "report", "error", "timeout"}
  /\ now \in Nat /\ captured \in Nat

\* No silent degradation (ARCHITECTURE.md 151): every specialist that a report
\* lists as part of the run was active, came to its end, and got a usable answer of
\* the model within its retries; the others did not run at all.
NoDegradedReport ==
  report # NoReport =>
    /\ \A s \in Key : IF s \in DOMAIN report.execution
                      THEN report.execution[s] = "completed" /\ garbled[s] <= Retries
                      ELSE spec[s] = "skipped"
    /\ garbled["classify"] <= Retries

\* What the probes found keeps its order: of two probe-derived causes the report
\* shows the one with the higher probe score whenever it shows the other.
ProbeOrderKept ==
  report # NoReport =>
    \A p, q \in DOMAIN found :
      /\ found[p].anchored /\ found[q].anchored
      /\ found[p].score > found[q].score
      /\ q \in report.top
      => p \in report.top

\* A report that says that no cause was found asks for an escalation, whatever the
\* amount of evidence did for the confidence.
NoCauseEscalates ==
  report # NoReport /\ report.summary = "no cause found" => report.escalate

\* The race always ends, even if the model never answers (HARDENING.md 9, "Hanging
\* LLM call").
RaceEnds == (outcome = "pending") ~> (outcome # "pending")

-----------------------------------------------------------------------------
(***************************************************************************)
(* The inductive invariant behind the theorems of TroubleshootProofs.      *)
(***************************************************************************)
\* Whoever is still in the run has not used up its retries.
RetryInv ==
  /\ phase # "failed" => garbled["classify"] <= Retries
  /\ \A s \in Key : spec[s] # "failed" => garbled[s] <= Retries

\* The specialists wait for the classification, then exactly the active ones run,
\* and all of them have ended by the time the workflow goes on.
BranchInv ==
  /\ phase \in {"preflight", "classify"} => \A s \in Key : spec[s] = "waiting"
  /\ phase \in {"specialists", "rerank", "summary", "done"} =>
       \A s \in Key : spec[s] = "skipped" <=> ~active(s, buckets, task)
  /\ phase \in {"rerank", "summary", "done"} =>
       \A s \in Key : spec[s] \in {"skipped", "completed"}

\* Reranking leaves alone what the probes found.
CauseInv ==
  /\ IsFiniteSet(DOMAIN found)
  /\ \A p \in DOMAIN found :
       /\ cause[p].anchored = found[p].anchored
       /\ found[p].anchored => cause[p].score = found[p].score

\* The report was made from the state it was returned in.
ReportInv ==
  report # NoReport =>
    /\ phase = "done"
    /\ report.top = topRoots(cause)
    /\ report.execution = [s \in selectAgents(task, buckets) |-> spec[s]]
    /\ report.summary = "no cause found" => ~hasPlausibleCause(cause)
    /\ report.escalate = escalationRequired(cause, Evidence, task)

RunInv == RetryInv /\ BranchInv /\ CauseInv /\ ReportInv
=============================================================================

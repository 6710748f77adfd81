---------------------------- MODULE ReportScoring ----------------------------
(***************************************************************************)
(* The arithmetic of a troubleshoot report: how root causes are scored,    *)
(* re-scored by the model and ranked, how confident the report is and      *)
(* whether it escalates (the helpers of teamviewerTroubleshootWorkflow.ts).*)
(*                                                                         *)
(* Scores are percents.  A candidate stands at <<b, k>>, the k-th of the   *)
(* b-th branch, which is the order aggregateStep concatenates them in; a   *)
(* list of candidates that lost some to a filter is a function on the      *)
(* places that are left.                                                   *)
(***************************************************************************)
EXTENDS Integers, Sequences, FiniteSets

Percent == 0..100

\* evidenceAnchored: derived from a probe, not proposed by the model.
Cause == [score : Percent, anchored : BOOLEAN]

Least(x, y) == IF x <= y THEN x ELSE y
Greatest(x, y) == IF x >= y THEN x ELSE y

\* Math.max(0, Math.min(1, score))
Clamp(score) == Greatest(0, Least(100, score))

Tagged(scores, anchored) ==
  [k \in DOMAIN scores |-> [score |-> Clamp(scores[k]), anchored |-> anchored]]

\* mergedRoots of a specialist: the probe's causes, then the model's guesses.
Merged(probed, guessed) == Tagged(probed, TRUE) \o Tagged(guessed, FALSE)

Floor(score) == (score * 6) \div 10

\* The score an unanchored cause gets from an answer that may not mention it.
Rescored(old, answer, p) ==
  IF p \in DOMAIN answer THEN Greatest(Floor(old), Clamp(answer[p])) ELSE Floor(old)

\* Mutant of applyRerankScores: anchored causes are re-scored like the others.
RerankAll(cause, answer) ==
  [p \in DOMAIN cause |-> [cause[p] EXCEPT !.score = Rescored(@, answer, p)]]

\* answer: the scores the model returned, by candidate (titles are unique here).
applyRerankScores(cause, answer) ==
  [p \in DOMAIN cause |-> IF cause[p].anchored THEN cause[p]
                          ELSE [cause[p] EXCEPT !.score = Rescored(@, answer, p)]]

Earlier(p, q) == p[1] < q[1] \/ (p[1] = q[1] /\ p[2] < q[2])

\* sort((a, b) => b.score - a.score), which is stable.
Outranks(cause, p, q) ==
  \/ cause[p].score > cause[q].score
  \/ cause[p].score = cause[q].score /\ Earlier(p, q)

Ahead(cause, p) == { q \in DOMAIN cause : Outranks(cause, q, p) }

\* .slice(0, 3)
topRoots(cause) == { p \in DOMAIN cause : Cardinality(Ahead(cause, p)) < 3 }

First(cause) == CHOOSE p \in DOMAIN cause : Ahead(cause, p) = {}

\* topRoots[0]?.score ?? 0
TopScore(cause) == IF DOMAIN cause = {} THEN 0 ELSE cause[First(cause)].score

\* topRoots[0]?.score >= score: the top is the largest score there is.
TopReaches(cause, score) == \E p \in DOMAIN cause : cause[p].score >= score

calculateConfidence(cause, evidence, task) ==
  IF DOMAIN cause = {}
  THEN Least(55, 45 + Least(10, evidence))
  ELSE Least(95, TopScore(cause) + Least(15, 2 * evidence)
                 + (IF task = "troubleshoot" THEN 5 ELSE 0))

escalationRequired(cause, evidence, task) ==
  calculateConfidence(cause, evidence, task) < 60 \/ ~TopReaches(cause, 65)

hasPlausibleCause(cause) == TopReaches(cause, 50)
=============================================================================

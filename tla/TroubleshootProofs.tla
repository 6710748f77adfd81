------------------------- MODULE TroubleshootProofs --------------------------
(***************************************************************************)
(* Theorems about Troubleshoot, for any specialists, any scores and any    *)
(* number of retries.                                                      *)
(***************************************************************************)
EXTENDS Troubleshoot, FiniteSetTheorems, SequenceTheorems, TLAPS

\* The two statements of the routing rule, SpecialistDef.active of the workflow and
\* selectAgents of routing.ts, agree on every specialist.
LEMMA RoutingAgrees ==
  ASSUME NEW s \in Key, NEW b, NEW t
  PROVE  s \in selectAgents(t, b) <=> active(s, b, t)
<1>1. CASE s = "log-intelligence"
  BY <1>1 DEF selectAgents, active
<1>2. CASE s # "log-intelligence"
  BY <1>2 DEF selectAgents, active
<1>3. QED
  BY <1>1, <1>2

LEMMA ClampIsPercent ==
  ASSUME NEW x \in Int
  PROVE  Clamp(x) \in Percent
BY DEF Clamp, Greatest, Least, Percent

LEMMA TaggedCauses ==
  ASSUME NEW scores \in Seq(Int), NEW anchored \in BOOLEAN
  PROVE  Tagged(scores, anchored) \in Seq(Cause)
<1>1. \A k \in 1..Len(scores) : Clamp(scores[k]) \in Percent
  BY ClampIsPercent
<1>2. \A k \in 1..Len(scores) : [score |-> Clamp(scores[k]), anchored |-> anchored] \in Cause
  BY <1>1 DEF Cause
<1>3. QED
  BY <1>2 DEF Tagged

\* What a specialist returns is a list of causes with scores in range.
LEMMA MergedCauses ==
  ASSUME NEW probed \in Seq(Percent), NEW guessed \in Seq(Int)
  PROVE  Merged(probed, guessed) \in Seq(Cause)
<1>1. probed \in Seq(Int)
  <2>1. Len(probed) \in Nat /\ probed \in [1..Len(probed) -> Percent]
    OBVIOUS
  <2>2. Percent \subseteq Int
    BY DEF Percent
  <2>3. probed \in [1..Len(probed) -> Int]
    BY <2>1, <2>2
  <2>4. QED
    BY <2>1, <2>3
<1>2. Tagged(probed, TRUE) \in Seq(Cause) /\ Tagged(guessed, FALSE) \in Seq(Cause)
  BY <1>1, TaggedCauses
<1>3. QED
  BY <1>2, ConcatProperties, Zenon DEF Merged

\* Reranking keeps the candidates, what they are derived from, and the score of the
\* anchored ones; every score stays in range.
LEMMA RerankKeeps ==
  ASSUME NEW D, NEW c \in [D -> Cause], NEW S \in SUBSET D, NEW answer \in [S -> Int]
  PROVE  /\ applyRerankScores(c, answer) \in [D -> Cause]
         /\ \A p \in D :
              /\ applyRerankScores(c, answer)[p].anchored = c[p].anchored
              /\ c[p].anchored => applyRerankScores(c, answer)[p].score = c[p].score
<1>1. \A p \in D : c[p].score \in Percent /\ c[p].anchored \in BOOLEAN
  BY DEF Cause
<1>2. ASSUME NEW x \in Percent, NEW p \in D
      PROVE  Rescored(x, answer, p) \in Percent
  <2>1. Floor(x) \in Percent
    BY DEF Floor, Percent
  <2>2. p \in S => Clamp(answer[p]) \in Percent
    BY ClampIsPercent
  <2>3. QED
    BY <2>1, <2>2 DEF Rescored, Greatest, Percent
<1>3. ASSUME NEW p \in D
      PROVE  [c[p] EXCEPT !.score = Rescored(@, answer, p)] \in Cause
  BY <1>1, <1>2 DEF Cause
<1>4. QED
  BY <1>1, <1>3 DEF applyRerankScores, Cause

\* A cause that outranks one of the top three is one of them.
LEMMA TopIsUpward ==
  ASSUME NEW D \in SUBSET (Nat \X Nat), IsFiniteSet(D), NEW c \in [D -> Cause],
         NEW p \in D, NEW q \in D, Outranks(c, p, q), q \in topRoots(c)
  PROVE  p \in topRoots(c)
<1>1. Ahead(c, p) \subseteq Ahead(c, q)
  <2>1. \A x \in D : c[x].score \in Int /\ x[1] \in Nat /\ x[2] \in Nat
    BY DEF Cause, Percent
  <2>2. ASSUME NEW x \in D, Outranks(c, x, p) PROVE Outranks(c, x, q)
    BY <2>1, <2>2 DEF Outranks, Earlier
  <2>3. QED
    BY <2>2 DEF Ahead
<1>2. IsFiniteSet(Ahead(c, q)) /\ IsFiniteSet(Ahead(c, p))
  BY FS_Subset DEF Ahead
<1>3. Cardinality(Ahead(c, p)) <= Cardinality(Ahead(c, q))
  BY <1>1, <1>2, FS_Subset
<1>4. Cardinality(Ahead(c, p)) \in Nat /\ Cardinality(Ahead(c, q)) \in Nat
  BY <1>2, FS_CardinalityType
<1>5. Cardinality(Ahead(c, q)) < 3
  BY DEF topRoots
<1>6. QED
  BY <1>3, <1>4, <1>5 DEF topRoots

\* The candidates of a run: finitely many, at places in the order of the branches.
LEMMA CandidatesShape ==
  ASSUME roots \in [Key -> Seq(Cause)]
  PROVE  /\ IsFiniteSet(DOMAIN Candidates)
         /\ DOMAIN Candidates \subseteq (DOMAIN Branch) \X Nat
         /\ Candidates \in [DOMAIN Candidates -> Cause]
<1> DEFINE Here(b) == { <<b, k>> : k \in DOMAIN roots[Branch[b]] }
           All == { Here(b) : b \in DOMAIN Branch }
<1>1. Branch \in Seq(STRING) /\ DOMAIN Branch = 1..Len(Branch) /\ Len(Branch) \in Nat
  BY RunAssumption
<1>2. \A b \in DOMAIN Branch : /\ roots[Branch[b]] \in Seq(Cause)
                               /\ DOMAIN roots[Branch[b]] = 1..Len(roots[Branch[b]])
                               /\ Len(roots[Branch[b]]) \in Nat
  BY DEF Key
<1>3. ASSUME NEW b \in DOMAIN Branch PROVE IsFiniteSet(Here(b))
  <2> DEFINE n == Len(roots[Branch[b]])
             f == [k \in 1..n |-> <<b, k>>]
  <2>1. f \in Surjection(1..n, Here(b))
    BY <1>2 DEF Surjection
  <2>2. IsFiniteSet(1..n)
    BY <1>2, FS_Interval
  <2>3. QED
    BY <2>1, <2>2, FS_Surjection
<1>4. IsFiniteSet(All)
  <2> DEFINE g == [b \in 1..Len(Branch) |-> Here(b)]
  <2>1. g \in Surjection(1..Len(Branch), All)
    <3>1. \A b \in 1..Len(Branch) : g[b] = Here(b)
      OBVIOUS
    <3> HIDE DEF Here
    <3>2. DOMAIN g = 1..Len(Branch) /\ All = { Here(b) : b \in 1..Len(Branch) }
      BY <1>1
    <3> HIDE DEF g, All
    <3>3. g \in [1..Len(Branch) -> All]
      BY <1>1, <3>1, <3>2 DEF All, g
    <3>4. \A T \in All : \E b \in 1..Len(Branch) : g[b] = T
      BY <3>1, <3>2
    <3>5. QED
      BY <3>3, <3>4 DEF Surjection
  <2>2. IsFiniteSet(1..Len(Branch))
    BY <1>1, FS_Interval
  <2>3. QED
    BY <2>1, <2>2, FS_Surjection
<1>5. \A T \in All : IsFiniteSet(T)
  BY <1>3
<1>6. IsFiniteSet(UNION All)
  <2> HIDE DEF All
  <2> QED
    BY <1>4, <1>5, FS_UNION
<1>7. DOMAIN Candidates = UNION All
  BY DEF Candidates
<1>8. \A p \in UNION All : \E b \in DOMAIN Branch : \E k \in DOMAIN roots[Branch[b]] : p = <<b, k>>
  OBVIOUS
<1>9. \A p \in UNION All : p \in (DOMAIN Branch) \X Nat /\ roots[Branch[p[1]]][p[2]] \in Cause
  BY <1>2, <1>8
<1>10. QED
  BY <1>6, <1>7, <1>9 DEF Candidates

-----------------------------------------------------------------------------
Inv == TypeOK /\ RunInv

Ends == {"skipped", "completed"}

LEMMA InitInv == Init => Inv
<1>1. Key \cap {"classify", "rerank", "summary"} = {} /\ Retries \in Nat
  BY RunAssumption
<1>2. << >> \in [{} -> Cause] /\ DOMAIN << >> = {} /\ << >> \in Seq(Percent) /\ << >> \in Seq(Cause)
  OBVIOUS
<1>3. SUFFICES ASSUME Init PROVE TypeOK /\ RunInv
  BY DEF Inv
<1>4. TypeOK
  BY <1>2, <1>3 DEF Init, TypeOK, Nothing, NoReport, Summaries, Percent
<1>5. RetryInv /\ BranchInv /\ ReportInv
  BY <1>1, <1>3 DEF Init, RetryInv, BranchInv, ReportInv, Caller
<1>6. CauseInv
  BY <1>2, <1>3, FS_EmptySet DEF Init, CauseInv
<1>7. QED
  BY <1>4, <1>5, <1>6 DEF RunInv

\* Nothing happens to the specialists once the workflow has returned.
LEMMA QuietReport ==
  ASSUME Inv, report' = report,
         \/ phase # "done"
         \/ \E s \in Key : spec[s] \notin Ends
         \/ phase' = phase /\ UNCHANGED <<task, buckets, spec, probe, found, cause>>
  PROVE  ReportInv'
<1>1. CASE report = NoReport
  BY <1>1 DEF ReportInv
<1>2. CASE report # NoReport
  <2>1. phase = "done" /\ \A s \in Key : spec[s] \in Ends
    BY <1>2 DEF Inv, RunInv, ReportInv, BranchInv, Ends
  <2>2. phase' = phase /\ UNCHANGED <<task, buckets, spec, probe, found, cause>>
    BY <2>1
  <2>3. Evidence' = Evidence /\ selectAgents(task, buckets)' = selectAgents(task, buckets)
    BY <2>2 DEF Evidence
  <2>4. QED
    BY <2>2, <2>3 DEF Inv, RunInv, ReportInv
<1>3. QED
  BY <1>1, <1>2

\* What a returned report says follows from the state it is returned in.
LEMMA ReturnedReport ==
  ASSUME NEW summary \in Summaries, Inv, phase = "summary", Return(summary),
         UNCHANGED <<task, buckets, spec, probe, found, cause>>,
         summary = "no cause found" => ~hasPlausibleCause(cause)
  PROVE  /\ ReportInv'
         /\ report'.summary \in Summaries /\ report'.top \subseteq DOMAIN found
         /\ phase' = "done" /\ outcome' \in {"report", outcome}
<1>1. Evidence' = Evidence /\ selectAgents(task, buckets)' = selectAgents(task, buckets)
  BY DEF Evidence
<1>2. topRoots(cause) \subseteq DOMAIN found
  BY DEF topRoots, Inv, TypeOK
<1>3. QED
  BY <1>1, <1>2 DEF Return, Settle, ReportInv

\* The workflow settles and the race with it.
LEMMA FailTypes ==
  ASSUME Inv, Fail
  PROVE  phase' = "failed" /\ outcome' \in {"pending", "report", "error", "timeout"}
BY DEF Fail, Settle, Inv, TypeOK

LEMMA GarbleTypes ==
  ASSUME Inv, NEW x \in Caller, Garble(x)
  PROVE  /\ garbled' \in [Caller -> Nat]
         /\ garbled'[x] = garbled[x] + 1
         /\ \A y \in Caller : y # x => garbled'[y] = garbled[y]
BY DEF Garble, Inv, TypeOK

\* A specialist that moves on, before or after the workflow has failed.
LEMMA SpecialistStep ==
  ASSUME Inv, NEW s \in Key, NEW from \in {"probe", "capture", "model"},
         NEW to \in {"capture", "model", "completed", "failed"},
         Specialist(s, from, to),
         UNCHANGED <<task, buckets, phase, judged, outcome, now>>,
         garbled' \in [Caller -> Nat],
         garbled'["classify"] = garbled["classify"],
         \A x \in Key : garbled'[x] = garbled[x] \/ x = s,
         garbled'[s] = garbled[s] \/ to = "failed",
         probe' \in [Key -> [evidence : Nat, causes : Seq(Percent)]],
         roots' \in [Key -> Seq(Cause)], captured' \in Nat
  PROVE  Inv'
<1>1. spec' = [spec EXCEPT ![s] = to] /\ spec[s] = from /\ spec[s] \notin Ends /\ spec[s] # "skipped"
  BY DEF Specialist, Ends
<1>2. TypeOK'
  BY <1>1 DEF Inv, TypeOK, judged
<1>3. RetryInv'
  BY <1>1 DEF Inv, RunInv, RetryInv, TypeOK
<1>4. BranchInv'
  BY <1>1 DEF Inv, RunInv, BranchInv, TypeOK, Ends
<1>5. CauseInv'
  BY DEF Inv, RunInv, CauseInv, judged
<1>6. ReportInv'
  BY <1>1, QuietReport DEF judged
<1>7. QED
  BY <1>2, <1>3, <1>4, <1>5, <1>6 DEF Inv, RunInv

\* A probe brings the sort of result it may bring.
LEMMA BaselineTypes ==
  ASSUME Inv, NEW s \in Key, Baseline(s)
  PROVE  probe' \in [Key -> [evidence : Nat, causes : Seq(Percent)]]
<1>1. << >> \in Seq(Percent)
  OBVIOUS
<1>2. PICK r \in ProbeResults \cup {ProbeError} : probe' = [probe EXCEPT ![s] = r]
  BY DEF Baseline
<1>3. ProbeError \in [evidence : Nat, causes : Seq(Percent)]
  BY <1>1 DEF ProbeError
<1>4. ProbeResults \subseteq [evidence : Nat, causes : Seq(Percent)]
  BY RunAssumption
<1>5. r \in [evidence : Nat, causes : Seq(Percent)]
  BY <1>2, <1>3, <1>4
<1>6. QED
  BY <1>2, <1>5 DEF Inv, TypeOK

\* A step of a specialist: its probe, its capture, its model.
LEMMA SpecialistsKeepInv ==
  ASSUME Inv, NEW s \in Key, Probing(s) \/ SpecialistAnswers(s) \/ SpecialistGarbled(s)
  PROVE  Inv'
<1>1. s \in Caller /\ s # "classify" /\ Retries \in Nat /\ Window \in Nat
  BY RunAssumption DEF Caller
<1>2. /\ TypeOK
      /\ spec[s] = "model" => garbled[s] <= Retries
  BY DEF Inv, RunInv, RetryInv
<1>3. CASE ProbeEnds(s)
  <2>1. probe' \in [Key -> [evidence : Nat, causes : Seq(Percent)]]
    BY <1>3, BaselineTypes DEF ProbeEnds
  <2>2. /\ Specialist(s, "probe", "model")
        /\ UNCHANGED <<task, buckets, phase, judged, outcome, now>>
        /\ UNCHANGED garbled
    BY <1>3 DEF ProbeEnds, clock
  <2>3. /\ garbled' \in [Caller -> Nat] /\ \A x \in Key : garbled'[x] = garbled[x]
        /\ garbled'["classify"] = garbled["classify"]
        /\ probe' \in [Key -> [evidence : Nat, causes : Seq(Percent)]]
        /\ roots' \in [Key -> Seq(Cause)] /\ captured' \in Nat
    BY <1>2, <1>3, <2>1, <2>2 DEF ProbeEnds, TypeOK, clock
  <2>4. QED
    BY <2>2, <2>3, SpecialistStep, Zenon
<1>4. CASE CaptureStarts(s)
  <2>1. captured' \in Nat
    BY <1>1, <1>2, <1>4 DEF CaptureStarts, TypeOK
  <2>2. /\ Specialist(s, "probe", "capture")
        /\ UNCHANGED <<task, buckets, phase, judged, outcome, now>>
        /\ UNCHANGED garbled
    BY <1>4 DEF CaptureStarts, clock
  <2>3. /\ garbled' \in [Caller -> Nat] /\ \A x \in Key : garbled'[x] = garbled[x]
        /\ garbled'["classify"] = garbled["classify"]
        /\ probe' \in [Key -> [evidence : Nat, causes : Seq(Percent)]]
        /\ roots' \in [Key -> Seq(Cause)] /\ captured' \in Nat
    BY <1>2, <1>4, <2>1, <2>2 DEF CaptureStarts, TypeOK, clock
  <2>4. QED
    BY <2>2, <2>3, SpecialistStep, Zenon
<1>5. CASE CaptureEnds(s)
  <2>1. probe' \in [Key -> [evidence : Nat, causes : Seq(Percent)]]
    BY <1>5, BaselineTypes DEF CaptureEnds
  <2>2. /\ Specialist(s, "capture", "model")
        /\ UNCHANGED <<task, buckets, phase, judged, outcome, now>>
        /\ UNCHANGED garbled
    BY <1>5 DEF CaptureEnds, clock
  <2>3. /\ garbled' \in [Caller -> Nat] /\ \A x \in Key : garbled'[x] = garbled[x]
        /\ garbled'["classify"] = garbled["classify"]
        /\ probe' \in [Key -> [evidence : Nat, causes : Seq(Percent)]]
        /\ roots' \in [Key -> Seq(Cause)] /\ captured' \in Nat
    BY <1>2, <1>5, <2>1, <2>2 DEF CaptureEnds, TypeOK, clock
  <2>4. QED
    BY <2>2, <2>3, SpecialistStep, Zenon
<1>6. CASE SpecialistAnswers(s)
  <2>1. PICK g \in Guesses : roots' = [roots EXCEPT ![s] = Merged(probe[s].causes, g)]
    BY <1>6 DEF SpecialistAnswers
  <2>2. g \in Seq(Int) /\ probe[s].causes \in Seq(Percent)
    BY <1>2, RunAssumption DEF TypeOK
  <2>3. Merged(probe[s].causes, g) \in Seq(Cause)
    BY <2>2, MergedCauses
  <2>4. roots' \in [Key -> Seq(Cause)]
    BY <1>2, <2>1, <2>3 DEF TypeOK
  <2>5. /\ Specialist(s, "model", "completed")
        /\ UNCHANGED <<task, buckets, phase, judged, outcome, now>>
        /\ UNCHANGED garbled
    BY <1>6 DEF SpecialistAnswers, clock
  <2>6. /\ garbled' \in [Caller -> Nat] /\ \A x \in Key : garbled'[x] = garbled[x]
        /\ garbled'["classify"] = garbled["classify"]
        /\ probe' \in [Key -> [evidence : Nat, causes : Seq(Percent)]]
        /\ roots' \in [Key -> Seq(Cause)] /\ captured' \in Nat
    BY <1>2, <1>6, <2>1, <2>5, <2>4 DEF SpecialistAnswers, TypeOK, clock
  <2>7. QED
    BY <2>5, <2>6, SpecialistStep, Zenon
<1>7. CASE SpecialistGarbled(s)
  <2>1. /\ garbled' \in [Caller -> Nat]
        /\ garbled'[s] = garbled[s] + 1
        /\ \A y \in Caller : y # s => garbled'[y] = garbled[y]
    BY <1>1, <1>7, GarbleTypes DEF SpecialistGarbled
  <2>2. "classify" \in Caller /\ Key \subseteq Caller
    BY DEF Caller
  <2>3. CASE garbled[s] < Retries
    <3>1. UNCHANGED <<task, buckets, phase, gathered, judged, outcome, clock>>
      BY <1>7, <2>3 DEF SpecialistGarbled, gathered
    <3>2. garbled'[s] <= Retries
      BY <1>1, <1>2, <2>1, <2>3 DEF TypeOK
    <3>3. TypeOK'
      BY <1>2, <2>1, <3>1 DEF TypeOK, gathered, judged, clock
    <3>4. RetryInv' /\ BranchInv' /\ CauseInv'
      BY <1>1, <2>1, <2>2, <3>1, <3>2
      DEF Inv, RunInv, RetryInv, BranchInv, CauseInv, gathered, judged
    <3>5. ReportInv'
      BY <3>1, QuietReport DEF gathered, judged
    <3>6. QED
      BY <3>3, <3>4, <3>5 DEF Inv, RunInv
  <2>4. CASE ~(garbled[s] < Retries)
    <3>1. /\ Specialist(s, "model", "failed")
          /\ UNCHANGED <<task, buckets, phase, probe, roots, judged, outcome, clock>>
      BY <1>7, <2>4 DEF SpecialistGarbled
    <3>2. \A x \in Key : garbled'[x] = garbled[x] \/ x = s
      BY <2>1, <2>2
    <3>3. QED
      BY <1>1, <1>2, <2>1, <2>2, <3>1, <3>2, SpecialistStep DEF TypeOK, clock
  <2>5. QED
    BY <2>3, <2>4
<1>8. QED
  BY <1>3, <1>4, <1>5, <1>6, <1>7 DEF Probing

\* How the workflow moves when no specialist starts and nothing is returned.
Moves ==
  \/ phase' \in {phase, "failed"}
  \/ phase = "preflight" /\ phase' = "classify"
  \/ phase = "rerank" /\ phase' = "summary"

\* Steps that only move the workflow, the race and the counts of bad answers, out
\* of a phase in which nothing has been returned.
LEMMA ControlStep ==
  ASSUME Inv, UNCHANGED <<task, buckets, gathered, judged, clock>>,
         phase # "done",
         Moves,
         outcome' \in {"pending", "report", "error", "timeout"},
         garbled' \in [Caller -> Nat],
         \A s \in Key : garbled'[s] = garbled[s],
         phase' # "failed" =>
            garbled'["classify"] = garbled["classify"] \/ garbled'["classify"] <= Retries
  PROVE  Inv'
<1>1. TypeOK'
  BY DEF Inv, TypeOK, gathered, judged, clock, Moves
<1>2. RetryInv'
  BY DEF Inv, RunInv, RetryInv, TypeOK, gathered, Moves
<1>3. BranchInv' /\ CauseInv'
  BY DEF Inv, RunInv, BranchInv, CauseInv, gathered, judged, Moves
<1>4. ReportInv'
  BY QuietReport DEF judged
<1>5. QED
  BY <1>1, <1>2, <1>3, <1>4 DEF Inv, RunInv

LEMMA ControlKeepsInv ==
  ASSUME Inv, Preflight \/ ClassifyGarbled \/ WorkflowFails \/ RerankGarbled \/ SummaryThrows
  PROVE  Inv'
<1>1. /\ {"classify", "rerank", "summary"} \subseteq Caller /\ Key \subseteq Caller
      /\ "classify" \notin Key /\ "rerank" \notin Key /\ "summary" \notin Key
      /\ Retries \in Nat
  BY RunAssumption DEF Caller
<1>2. garbled \in [Caller -> Nat] /\ outcome \in {"pending", "report", "error", "timeout"}
  BY DEF Inv, TypeOK
<1>3. CASE Preflight
  <2>1. /\ UNCHANGED <<task, buckets, gathered, judged, clock>> /\ phase # "done" /\ Moves
        /\ outcome' \in {"pending", "report", "error", "timeout"} /\ UNCHANGED garbled
    BY <1>2, <1>3, FailTypes DEF Preflight, Moves
  <2>2. /\ garbled' \in [Caller -> Nat] /\ \A s \in Key : garbled'[s] = garbled[s]
        /\ garbled'["classify"] = garbled["classify"]
    BY <1>2, <2>1
  <2>3. QED
    BY <2>1, <2>2, ControlStep, Zenon
<1>4. CASE WorkflowFails
  <2>1. /\ UNCHANGED <<task, buckets, gathered, judged, clock>> /\ phase # "done" /\ Moves
        /\ outcome' \in {"pending", "report", "error", "timeout"} /\ UNCHANGED garbled
    BY <1>2, <1>4, FailTypes DEF WorkflowFails, Moves
  <2>2. /\ garbled' \in [Caller -> Nat] /\ \A s \in Key : garbled'[s] = garbled[s]
        /\ garbled'["classify"] = garbled["classify"]
    BY <1>2, <2>1
  <2>3. QED
    BY <2>1, <2>2, ControlStep, Zenon
<1>5. CASE SummaryThrows
  <2>1. /\ UNCHANGED <<task, buckets, gathered, judged, clock>> /\ phase # "done" /\ Moves
        /\ outcome' \in {"pending", "report", "error", "timeout"} /\ UNCHANGED garbled
    BY <1>2, <1>5, FailTypes DEF SummaryThrows, Moves
  <2>2. /\ garbled' \in [Caller -> Nat] /\ \A s \in Key : garbled'[s] = garbled[s]
        /\ garbled'["classify"] = garbled["classify"]
    BY <1>2, <2>1
  <2>3. QED
    BY <2>1, <2>2, ControlStep, Zenon
<1>6. CASE ClassifyGarbled
  <2>1. /\ garbled' \in [Caller -> Nat]
        /\ garbled'["classify"] = garbled["classify"] + 1
        /\ \A s \in Key : garbled'[s] = garbled[s]
    BY <1>1, <1>6, GarbleTypes DEF ClassifyGarbled
  <2>2. garbled["classify"] < Retries => garbled'["classify"] <= Retries
    BY <1>1, <1>2, <2>1
  <2>3. /\ UNCHANGED <<task, buckets, gathered, judged, clock>> /\ phase # "done" /\ Moves
        /\ outcome' \in {"pending", "report", "error", "timeout"}
        /\ phase' # "failed" => garbled'["classify"] <= Retries
    BY <1>2, <1>6, <2>2, FailTypes DEF ClassifyGarbled, Moves
  <2>4. QED
    BY <2>1, <2>3, ControlStep, Zenon
<1>7. CASE RerankGarbled
  <2>1. /\ garbled' \in [Caller -> Nat]
        /\ garbled'["classify"] = garbled["classify"]
        /\ \A s \in Key : garbled'[s] = garbled[s]
    BY <1>1, <1>7, GarbleTypes DEF RerankGarbled
  <2>2. /\ UNCHANGED <<task, buckets, gathered, judged, clock>> /\ phase # "done" /\ Moves
        /\ outcome' \in {"pending", "report", "error", "timeout"}
    BY <1>2, <1>7 DEF RerankGarbled, Moves
  <2>3. QED
    BY <2>1, <2>2, ControlStep, Zenon
<1>8. QED
  BY <1>3, <1>4, <1>5, <1>6, <1>7

\* The classification starts exactly the active specialists.
LEMMA ClassifyKeepsInv ==
  ASSUME Inv, ClassifyAnswers
  PROVE  Inv'
<1>1. PICK inferred \in (SUBSET Bucket) \ {{}} :
        /\ buckets' = ProductBuckets \cup inferred
        /\ spec' = [s \in Key |-> IF active(s, ProductBuckets \cup inferred, task)
                                 THEN "probe" ELSE "skipped"]
  BY DEF ClassifyAnswers
<1>2. /\ phase = "classify" /\ phase' = "specialists"
      /\ UNCHANGED <<task, garbled, probe, roots, judged, outcome, clock>>
  BY DEF ClassifyAnswers
<1>3. /\ spec' \in [Key -> {"probe", "skipped"}]
      /\ \A s \in Key : spec'[s] = "skipped" <=> ~active(s, buckets', task)
  BY <1>1
<1>4. TypeOK'
  BY <1>1, <1>2, <1>3, RunAssumption DEF Inv, TypeOK, judged, clock
<1>5. RetryInv'
  BY <1>2, <1>3 DEF Inv, RunInv, RetryInv, BranchInv
<1>6. BranchInv'
  BY <1>2, <1>3 DEF BranchInv, active
<1>7. CauseInv'
  BY <1>2 DEF Inv, RunInv, CauseInv, judged
<1>8. ReportInv'
  BY <1>2, QuietReport DEF judged
<1>9. QED
  BY <1>4, <1>5, <1>6, <1>7, <1>8 DEF Inv, RunInv

\* The aggregation takes over some of the candidates.
LEMMA AggregateKeepsInv ==
  ASSUME Inv, Aggregate
  PROVE  Inv'
<1>1. PICK filtered \in filterRootCausesAgainstEvidence(Candidates) :
        /\ found' = filtered /\ cause' = filtered
        /\ phase' = IF Cardinality(DOMAIN filtered) > 1 THEN "rerank" ELSE "summary"
  BY DEF Aggregate
<1>a. PICK kept \in SUBSET DOMAIN Candidates : filtered = [p \in kept |-> Candidates[p]]
  BY DEF filterRootCausesAgainstEvidence
<1>2. /\ phase = "specialists" /\ \A s \in Key : spec[s] \in Ends
      /\ UNCHANGED <<task, buckets, gathered, garbled, report, outcome, clock>>
  BY DEF Aggregate, Ends
<1>3. roots \in [Key -> Seq(Cause)]
  BY DEF Inv, TypeOK
<1>4. /\ IsFiniteSet(DOMAIN Candidates)
      /\ DOMAIN Candidates \subseteq (DOMAIN Branch) \X Nat
      /\ Candidates \in [DOMAIN Candidates -> Cause]
  BY <1>3, CandidatesShape
<1>5. DOMAIN found' = kept /\ found' \in [kept -> Cause] /\ IsFiniteSet(kept)
  BY <1>a, <1>1, <1>4, FS_Subset
<1>6. report = NoReport
  BY <1>2 DEF Inv, RunInv, ReportInv
<1>7. phase' \in {"rerank", "summary"}
  BY <1>1
<1>8. TypeOK'
  <2>1. report.top = {}
    BY <1>6 DEF NoReport
  <2>2. QED
    BY <1>1, <1>2, <1>4, <1>5, <1>7, <2>1 DEF Inv, TypeOK, gathered, clock
<1>9. RetryInv'
  BY <1>2, <1>7 DEF Inv, RunInv, RetryInv, gathered
<1>10. BranchInv'
  BY <1>2, <1>7 DEF Inv, RunInv, BranchInv, Ends, gathered
<1>11. CauseInv'
  BY <1>1, <1>5 DEF CauseInv
<1>12. ReportInv'
  BY <1>2, <1>6 DEF ReportInv
<1>13. QED
  BY <1>8, <1>9, <1>10, <1>11, <1>12 DEF Inv, RunInv

LEMMA RerankKeepsInv ==
  ASSUME Inv, RerankAnswers
  PROVE  Inv'
<1>1. PICK scored \in SUBSET DOMAIN cause : \E answer \in [scored -> Rescores] :
        cause' = applyRerankScores(cause, answer)
  BY DEF RerankAnswers
<1>2. PICK answer \in [scored -> Rescores] : cause' = applyRerankScores(cause, answer)
  BY <1>1
<1>3. /\ phase = "rerank" /\ phase' = "summary"
      /\ UNCHANGED <<task, buckets, gathered, garbled, found, report, outcome, clock>>
  BY DEF RerankAnswers
<1>4. cause \in [DOMAIN found -> Cause] /\ DOMAIN cause = DOMAIN found
  BY DEF Inv, TypeOK
<1>5. answer \in [scored -> Int] /\ scored \in SUBSET DOMAIN found
  BY <1>4, RunAssumption
<1>6. /\ cause' \in [DOMAIN found -> Cause]
      /\ \A p \in DOMAIN found :
           /\ cause'[p].anchored = cause[p].anchored
           /\ cause[p].anchored => cause'[p].score = cause[p].score
  <2>1. /\ applyRerankScores(cause, answer) \in [DOMAIN found -> Cause]
        /\ \A p \in DOMAIN found :
             /\ applyRerankScores(cause, answer)[p].anchored = cause[p].anchored
             /\ cause[p].anchored => applyRerankScores(cause, answer)[p].score = cause[p].score
    <3> DEFINE D == DOMAIN found
    <3>1. cause \in [D -> Cause] /\ scored \in SUBSET D /\ answer \in [scored -> Int]
      BY <1>4, <1>5
    <3> HIDE DEF D
    <3>2. /\ applyRerankScores(cause, answer) \in [D -> Cause]
          /\ \A p \in D :
               /\ applyRerankScores(cause, answer)[p].anchored = cause[p].anchored
               /\ cause[p].anchored => applyRerankScores(cause, answer)[p].score = cause[p].score
      BY <3>1, RerankKeeps
    <3>3. QED
      BY <3>2 DEF D
  <2>2. QED
    BY <1>2, <2>1
<1>7. TypeOK'
  BY <1>3, <1>6 DEF Inv, TypeOK, gathered, clock
<1>8. RetryInv' /\ BranchInv'
  BY <1>3 DEF Inv, RunInv, RetryInv, BranchInv, gathered
<1>9. CauseInv'
  <2>1. CauseInv /\ found' = found
    BY <1>3 DEF Inv, RunInv
  <2>2. IsFiniteSet(DOMAIN found')
    BY <2>1 DEF CauseInv
  <2>3. ASSUME NEW p \in DOMAIN found
        PROVE  /\ cause'[p].anchored = found[p].anchored
               /\ found[p].anchored => cause'[p].score = found[p].score
    <3>1. /\ cause[p].anchored = found[p].anchored
          /\ found[p].anchored => cause[p].score = found[p].score
      BY <2>1 DEF CauseInv
    <3>2. /\ cause'[p].anchored = cause[p].anchored
          /\ cause[p].anchored => cause'[p].score = cause[p].score
      BY <1>6, Zenon
    <3>3. QED
      BY <3>1, <3>2, Zenon
  <2>4. QED
    BY <2>1, <2>2, <2>3 DEF CauseInv
<1>10. ReportInv'
  BY <1>3, QuietReport
<1>11. QED
  BY <1>7, <1>8, <1>9, <1>10 DEF Inv, RunInv

\* The report: what is left of aggregateStep.
LEMMA ReturnKeepsInv ==
  ASSUME Inv, NEW summary \in Summaries, phase = "summary", Return(summary),
         UNCHANGED <<task, buckets, gathered, found, cause, clock>>,
         summary = "no cause found" => ~hasPlausibleCause(cause),
         garbled' \in [Caller -> Nat], garbled'["classify"] = garbled["classify"],
         \A s \in Key : garbled'[s] = garbled[s]
  PROVE  Inv'
<1>1. UNCHANGED <<task, buckets, spec, probe, roots, found, cause, now, captured>>
  BY DEF gathered, clock
<1>2. /\ ReportInv'
      /\ report'.summary \in Summaries /\ report'.top \subseteq DOMAIN found
      /\ phase' = "done" /\ outcome' \in {"report", outcome}
  BY <1>1, ReturnedReport
<1>3. TypeOK'
  BY <1>1, <1>2 DEF Inv, TypeOK
<1>4. RetryInv' /\ BranchInv' /\ CauseInv'
  BY <1>1, <1>2 DEF Inv, RunInv, RetryInv, BranchInv, CauseInv
<1>5. QED
  BY <1>2, <1>3, <1>4 DEF Inv, RunInv

LEMMA SummaryKeepsInv ==
  ASSUME Inv, SummaryFixed \/ SummaryAnswers \/ SummaryBlank
  PROVE  Inv'
<1>1. /\ {"classify", "rerank", "summary"} \subseteq Caller /\ Key \subseteq Caller
      /\ "classify" \notin Key /\ "rerank" \notin Key /\ "summary" \notin Key
  BY RunAssumption DEF Caller
<1>2. garbled \in [Caller -> Nat] /\ outcome \in {"pending", "report", "error", "timeout"}
  BY DEF Inv, TypeOK
<1>3. {"no cause found", "cause found", "worded by the model"} \subseteq Summaries
  BY DEF Summaries
<1>4. CASE SummaryFixed
  BY <1>2, <1>3, <1>4, ReturnKeepsInv DEF SummaryFixed
<1>5. CASE SummaryAnswers
  BY <1>2, <1>3, <1>5, ReturnKeepsInv DEF SummaryAnswers
<1>6. CASE SummaryBlank
  <2>1. /\ garbled' \in [Caller -> Nat]
        /\ garbled'["classify"] = garbled["classify"]
        /\ \A s \in Key : garbled'[s] = garbled[s]
    BY <1>1, <1>6, GarbleTypes DEF SummaryBlank
  <2>2. /\ phase = "summary"
        /\ UNCHANGED <<task, buckets, gathered, found, cause, clock>>
    BY <1>6 DEF SummaryBlank
  <2>3. CASE Return("cause found")
    BY <1>3, <2>1, <2>2, <2>3, ReturnKeepsInv
  <2>4. CASE UNCHANGED <<phase, outcome, report>>
    <3>1. /\ UNCHANGED <<task, buckets, gathered, judged, clock>> /\ phase # "done" /\ Moves
          /\ outcome' \in {"pending", "report", "error", "timeout"}
      BY <1>2, <2>2, <2>4 DEF judged, Moves
    <3>2. QED
      BY <2>1, <3>1, ControlStep, Zenon
  <2>5. QED
    BY <1>6, <2>3, <2>4 DEF SummaryBlank
<1>7. QED
  BY <1>4, <1>5, <1>6

\* The timer and the clock leave the workflow alone.
LEMMA TimeKeepsInv ==
  ASSUME Inv, TimerFires \/ Tick \/ UNCHANGED vars
  PROVE  Inv'
<1>1. /\ UNCHANGED <<task, buckets, phase, gathered, garbled, judged, captured>>
      /\ outcome' \in {outcome, "timeout"} /\ now' \in {now, now + 1}
  BY DEF TimerFires, Tick, Settle, vars, clock
<1>2. TypeOK'
  BY <1>1 DEF Inv, TypeOK, gathered, judged
<1>3. RetryInv' /\ BranchInv' /\ CauseInv'
  BY <1>1 DEF Inv, RunInv, RetryInv, BranchInv, CauseInv, gathered, judged
<1>4. ReportInv'
  BY <1>1, QuietReport DEF gathered, judged
<1>5. QED
  BY <1>2, <1>3, <1>4 DEF Inv, RunInv

LEMMA NextKeepsInv ==
  ASSUME Inv, [Next]_vars
  PROVE  Inv'
<1>1. \/ \E s \in Key : Probing(s) \/ SpecialistAnswers(s) \/ SpecialistGarbled(s)
      \/ Preflight \/ ClassifyGarbled \/ WorkflowFails \/ RerankGarbled \/ SummaryThrows
      \/ ClassifyAnswers \/ Aggregate \/ RerankAnswers
      \/ SummaryFixed \/ SummaryAnswers \/ SummaryBlank
      \/ TimerFires \/ Tick \/ UNCHANGED vars
  BY DEF Next, Runtime, ModelAnswers, ModelFails
<1>2. QED
  BY <1>1, SpecialistsKeepInv, ControlKeepsInv, ClassifyKeepsInv, AggregateKeepsInv,
     RerankKeepsInv, SummaryKeepsInv, TimeKeepsInv, Zenon
-----------------------------------------------------------------------------
(***************************************************************************)
(* The theorems.                                                           *)
(***************************************************************************)
\* Every state of a run is well typed, and satisfies the inductive invariant.
LEMMA InvHolds == Spec => []Inv
<1>1. Inv /\ [Next]_vars => Inv'
  BY NextKeepsInv
<1>2. QED
  BY <1>1, InitInv, PTL DEF Spec

\* The types of a run, whatever the model answers and whenever the timer fires.
THEOREM RunTypes == Spec => []TypeOK
<1>1. Inv => TypeOK
  BY DEF Inv
<1>2. QED
  BY <1>1, InvHolds, PTL

\* The inductive invariant of a run (retries, branches, scores, the report).
THEOREM RunInvariant == Spec => []RunInv
<1>1. Inv => RunInv
  BY DEF Inv
<1>2. QED
  BY <1>1, InvHolds, PTL

\* generateStructured and the failing step of Mastra together: no report is made of
\* a run in which a specialist or the classification did without the model.
THEOREM NothingDegraded == Spec => []NoDegradedReport
<1>1. Inv => NoDegradedReport
  <2>1. SUFFICES ASSUME Inv, report # NoReport PROVE NoDegradedReport
    BY DEF NoDegradedReport
  <2>2. /\ phase = "done"
        /\ report.execution = [s \in selectAgents(task, buckets) |-> spec[s]]
    BY <2>1 DEF Inv, RunInv, ReportInv
  <2>3. ASSUME NEW s \in Key
        PROVE  IF s \in DOMAIN report.execution
               THEN report.execution[s] = "completed" /\ garbled[s] <= Retries
               ELSE spec[s] = "skipped"
    <3>1. spec[s] \in {"skipped", "completed"} /\ (spec[s] = "skipped" <=> ~active(s, buckets, task))
      BY <2>1, <2>2 DEF Inv, RunInv, BranchInv
    <3>2. s \in selectAgents(task, buckets) <=> active(s, buckets, task)
      BY RoutingAgrees
    <3>3. spec[s] # "failed" => garbled[s] <= Retries
      BY <2>1 DEF Inv, RunInv, RetryInv
    <3>4. QED
      BY <2>2, <3>1, <3>2, <3>3
  <2>4. garbled["classify"] <= Retries
    BY <2>1, <2>2 DEF Inv, RunInv, RetryInv
  <2>5. QED
    BY <2>3, <2>4 DEF NoDegradedReport
<1>2. QED
  BY <1>1, InvHolds, PTL

\* applyRerankScores and the sort together: the model cannot reorder what the probes
\* found.
THEOREM ProbeOrder == Spec => []ProbeOrderKept
<1>1. Inv => ProbeOrderKept
  <2>1. SUFFICES ASSUME Inv, report # NoReport, NEW p \in DOMAIN found, NEW q \in DOMAIN found,
                        found[p].anchored, found[q].anchored,
                        found[p].score > found[q].score, q \in report.top
                 PROVE  p \in report.top
    BY DEF ProbeOrderKept
  <2>2. report.top = topRoots(cause)
    BY <2>1 DEF Inv, RunInv, ReportInv
  <2>3. cause[p].score = found[p].score /\ cause[q].score = found[q].score
    BY <2>1, Zenon DEF Inv, RunInv, CauseInv
  <2>4. /\ cause \in [DOMAIN found -> Cause] /\ DOMAIN found \subseteq (DOMAIN Branch) \X Nat
        /\ IsFiniteSet(DOMAIN found)
    BY <2>1 DEF Inv, TypeOK, RunInv, CauseInv
  <2>5. DOMAIN found \in SUBSET (Nat \X Nat)
    BY <2>4, RunAssumption
  <2>6. Outranks(cause, p, q)
    BY <2>1, <2>3 DEF Outranks
  <2>7. QED
    <3> DEFINE D == DOMAIN found
    <3>1. /\ D \in SUBSET (Nat \X Nat) /\ IsFiniteSet(D) /\ cause \in [D -> Cause]
          /\ p \in D /\ q \in D
      BY <2>1, <2>4, <2>5
    <3> HIDE DEF D
    <3>2. p \in topRoots(cause)
      BY <2>1, <2>2, <2>6, <3>1, TopIsUpward
    <3>3. QED
      BY <2>2, <3>2
<1>2. QED
  BY <1>1, InvHolds, PTL

\* hasPlausibleCause and escalationRequired together: without a plausible cause the
\* report escalates, whatever the evidence adds to the confidence.
THEOREM Escalates == Spec => []NoCauseEscalates
<1>1. Inv => NoCauseEscalates
  <2>1. SUFFICES ASSUME Inv, report # NoReport, report.summary = "no cause found"
                 PROVE  report.escalate
    BY DEF NoCauseEscalates
  <2>2. /\ ~TopReaches(cause, 50)
        /\ report.escalate = escalationRequired(cause, Evidence, task)
    BY <2>1 DEF Inv, RunInv, ReportInv, hasPlausibleCause
  <2>3. \A p \in DOMAIN cause : cause[p].score \in Int
    <3>1. cause \in [DOMAIN cause -> Cause]
      BY <2>1 DEF Inv, TypeOK
    <3>2. \A x \in Cause : x.score \in Int
      BY DEF Cause, Percent
    <3>3. QED
      BY <3>1, <3>2
  <2>4. ~TopReaches(cause, 65)
    BY <2>2, <2>3 DEF TopReaches
  <2>5. escalationRequired(cause, Evidence, task)
    BY <2>4 DEF escalationRequired
  <2>6. QED
    BY <2>2, <2>5, Zenon
<1>2. QED
  BY <1>1, InvHolds, PTL
=============================================================================

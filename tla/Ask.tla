--------------------------------- MODULE Ask ---------------------------------
(***************************************************************************)
(* What one process does with a question, from the gate to the answer:     *)
(* answerGrounded of knowledge/llmCompose.ts ("docs"), and the way of a    *)
(* troubleshooting run through the same gate, retrieval and model ("run"), *)
(* whose agent may consult the knowledge again, through answerFromKnowledge*)
(* of knowledge/teamviewerDocs.ts. The run itself is that of Troubleshoot; *)
(* one specialist stands here for the four of them.                        *)
(***************************************************************************)
EXTENDS LocalModel, Retrieval

CONSTANTS Sentence,      \* what the model may say
          Support,       \* how well a passage supports a sentence, per cent
          SourceOf,      \* the URL of a passage
          BestSource,    \* bestSourceFor: the page to refer a question to
          ContextHits, MaxCited, GroundMin       \* 3, 3 and 40

VARIABLES task,          \* task[p]: the question p is at work on
          answer,        \* answer[p]: what it has made of it
          adrift         \* adrift[p]: a run that was given up goes on in p

askVars == <<task, answer, adrift>>

ASSUME AskAssumption ==
    /\ Support \in [Sentence -> [Passage -> 0 .. 100]]
    /\ SourceOf \in [Passage -> Source] /\ BestSource \in [Question -> Source]
    /\ ContextHits \in Nat \ {0} /\ MaxCited \in Nat \ {0} /\ GroundMin \in 0 .. 100
    /\ ContextHits <= MaxCited

NoAnswer == [kind |-> "none", said |-> {}, cites |-> <<>>]
Resting(q) == [at |-> "idle", mode |-> "docs", question |-> q, consulted |-> FALSE]

AskInit ==
    /\ \E q \in Question : task = [p \in Proc |-> Resting(q)]
    /\ answer = [p \in Proc |-> NoAnswer]
    /\ adrift = [p \in Proc |-> FALSE]

At(p, place) == task[p].at = place
Docs(p) == task[p].mode = "docs"
Move(p, place) == task' = [task EXCEPT ![p].at = place]
Answered(p, kind, said, cites) ==
    /\ Move(p, "idle")
    /\ answer' = [answer EXCEPT ![p] = [kind |-> kind, said |-> said, cites |-> cites]]
Failed(p) == Answered(p, "failed", {}, <<>>)

StartAsk(p, mode, q) ==
    /\ task' = [task EXCEPT ![p] = [at |-> "gate", mode |-> mode, question |-> q,
                                    consulted |-> FALSE]]
    /\ answer' = [answer EXCEPT ![p] = NoAnswer]
    /\ UNCHANGED adrift

-----------------------------------------------------------------------------
(* ensureFoundryLocalReady: nothing is done without the service.           *)
PassGate(p) == \E answers \in BOOLEAN :
    /\ At(p, "gate")
    /\ \/ GateFinds(p, answers) /\ Move(p, "probe") /\ UNCHANGED answer
       \/ GateRefuses(p, answers) /\ Failed(p)
    /\ UNCHANGED <<configVars, retrievalVars, adrift>>
Probe(p) ==
    /\ At(p, "probe")
    /\ \/ /\ ProbeReaches(p)
          /\ Move(p, "retrieve") /\ StartRetrieval(p, task[p].question)
          /\ UNCHANGED <<answer, index, urlmap, pageCache, embedder, enriching>>
       \/ ProbeFails(p) /\ Failed(p) /\ UNCHANGED retrievalVars
    /\ UNCHANGED <<configVars, adrift>>

Searching(p) == At(p, "retrieve") \/ At(p, "consult")
Retrieve(p) ==
    /\ Searching(p) /\ RetrievalStep(p)
    /\ UNCHANGED <<configVars, modelVars, askVars>>

(* filter: the elements of s that are in S, in their order.                *)
Passed(list, h, S) == IF h \in S THEN Append(list, h) ELSE list
Those(s, S) ==
    LET upto[n \in 0 .. Len(s)] == IF n = 0 THEN <<>> ELSE Passed(upto[n - 1], s[n], S)
    IN  upto[Len(s)]

(* The context: the first hits that are more than a footer.                *)
Hits(p) == find[p].hits
Context(hits) == Those(FirstOf(hits, ContextHits), Passage \ Junk)

(* orderedCitations: each source once, in the order of the hits.           *)
Credited(list, source) == IF source \in Range(list) THEN list ELSE Append(list, source)
Sources(hits) ==
    LET upto[n \in 0 .. Len(hits)] ==
            IF n = 0 THEN <<>> ELSE Credited(upto[n - 1], SourceOf[hits[n]])
    IN  upto[Len(hits)]
\* Mutant of Cited: every source that was found is listed.
CitedAll(grounded, hits) == FirstOf(Sources(hits), MaxCited)
Cited(grounded, hits) ==
    FirstOf(Sources(IF grounded = <<>> THEN FirstOf(hits, 1) ELSE grounded), MaxCited)

(* A run goes on without passages; to `docs ask` they are all it has.      *)
\* Mutant of Prepare: whatever was found is taken for a context.
PrepareAnyHits(p) ==
    /\ At(p, "retrieve") /\ find[p].at \in {"found", "failed"}
    /\ IF Docs(p)
       THEN CASE find[p].at = "failed" -> Failed(p)
              [] Hits(p) = <<>> -> Answered(p, "declined", {}, <<BestSource[task[p].question]>>)
              [] OTHER -> Move(p, "model") /\ UNCHANGED answer
       ELSE Move(p, "model") /\ UNCHANGED answer
    /\ UNCHANGED <<configVars, modelVars, retrievalVars, adrift>>
Prepare(p) ==
    /\ At(p, "retrieve") /\ find[p].at \in {"found", "failed"}
    /\ IF Docs(p)
       THEN CASE find[p].at = "failed" -> Failed(p)
              [] Hits(p) = <<>> -> Answered(p, "declined", {}, <<BestSource[task[p].question]>>)
              [] Hits(p) # <<>> /\ Context(Hits(p)) = <<>> ->
                     Answered(p, "declined", {}, Cited(<<>>, Hits(p)))
              [] OTHER -> Move(p, "model") /\ UNCHANGED answer
       ELSE Move(p, "model") /\ UNCHANGED answer
    /\ UNCHANGED <<configVars, modelVars, retrievalVars, adrift>>

(* The agent is built around what resolveModel returns, or throws.         *)
ResolveModel(p) == \E answers \in BOOLEAN :
    /\ At(p, "model")
    /\ \/ ModelKnown(p) /\ Move(p, "generate") /\ UNCHANGED answer
       \/ ModelResolved(p, answers) /\ Move(p, "generate") /\ UNCHANGED answer
       \/ ModelUnresolved(p, answers) /\ Failed(p)
    /\ UNCHANGED <<retrievalVars, adrift>>

-----------------------------------------------------------------------------
(* verifyGrounding: a sentence stays if the passage of the context that    *)
(* supports it best does so well enough, and that passage is credited.     *)
BestFor(s, context) ==
    CHOOSE i \in DOMAIN context :
        \A j \in DOMAIN context :
            \/ Support[s][context[i]] > Support[s][context[j]]
            \/ Support[s][context[i]] = Support[s][context[j]] /\ i <= j
verifyGrounding(said, context) ==
    LET kept == {s \in said : Support[s][context[BestFor(s, context)]] >= GroundMin}
        credited == {context[BestFor(s, context)] : s \in kept}
    IN  [kept |-> kept, grounded |-> Those(context, credited)]

(* The model says anything, and perhaps nothing of substance.              *)
Served(p) == At(p, "generate") /\ cached[p].url = service
Compose(p) == \E said \in SUBSET Sentence :
    /\ Served(p) /\ Docs(p)
    /\ LET checked == verifyGrounding(said, Context(Hits(p))) IN
       IF checked.kept = {}
       THEN Answered(p, "declined", {}, Cited(<<>>, Hits(p)))
       ELSE Answered(p, "composed", checked.kept, Cited(checked.grounded, Hits(p)))
    /\ UNCHANGED <<configVars, modelVars, retrievalVars, adrift>>
Conclude(p) ==
    /\ Served(p) /\ ~Docs(p)
    /\ Move(p, "idle")
    /\ UNCHANGED <<answer, configVars, modelVars, retrievalVars, adrift>>
ModelFails(p) ==
    /\ At(p, "generate")
    /\ Failed(p)
    /\ UNCHANGED <<configVars, modelVars, retrievalVars, adrift>>

(* teamviewerDocsTool, called by the agent of a run.                       *)
Consult(p) ==
    /\ Served(p) /\ ~Docs(p) /\ ~task[p].consulted
    /\ task' = [task EXCEPT ![p].at = "consult", ![p].consulted = TRUE]
    /\ StartRetrieval(p, task[p].question)
    /\ UNCHANGED <<answer, adrift, configVars, modelVars>>
    /\ UNCHANGED <<index, urlmap, pageCache, embedder, enriching>>

(* answerFromKnowledge: passages of one source only, and a verified fact   *)
(* at most beside them. Its source is not cited.                           *)
FromTop(hits) == Those(hits, {h \in Passage : SourceOf[h] = SourceOf[hits[1]]})
AddedFact(q, hits) ==
    LET facts == Those(hits, {h \in Fact : /\ Match[q][h].cov >= 50
                                           /\ SourceOf[h] # SourceOf[hits[1]]})
    IN  IF hits[1] \in Fact THEN <<>> ELSE FirstOf(facts, 1)
answerFromKnowledge(q, hits, confident) ==
    IF confident
    THEN [kind |-> "extracted", said |-> Range(FirstOf(FromTop(hits), 3) \o AddedFact(q, hits)),
          cites |-> <<SourceOf[hits[1]]>>]
    ELSE [kind |-> "unsure", said |-> {},
          cites |-> IF hits = <<>> THEN <<BestSource[q]>>
                    ELSE FirstOf(Sources(hits), MaxCited)]
Consulted(p) ==
    /\ At(p, "consult") /\ find[p].at \in {"found", "failed"}
    /\ Move(p, "generate")
    /\ answer' = [answer EXCEPT ![p] =
                    IF find[p].at = "failed" THEN NoAnswer
                    ELSE answerFromKnowledge(task[p].question, Hits(p), find[p].confident)]
    /\ UNCHANGED <<configVars, modelVars, retrievalVars, adrift>>

(* runMastraAgent: a run is given up when its time is over. Nothing stops  *)
(* it; in a process that lives on it may still build the model object.     *)
RunTimesOut(p) ==
    /\ ~Docs(p) /\ ~At(p, "idle")
    /\ Failed(p)
    /\ adrift' = [adrift EXCEPT ![p] = TRUE]
    /\ probing' = [probing EXCEPT ![p] = None]
    /\ find' = [find EXCEPT ![p] = NotAsked(task[p].question)]
    /\ UNCHANGED <<configVars, service, endpointFile, cached, picked, vouched>>
    /\ UNCHANGED <<index, urlmap, pageCache, embedder, enriching>>
StragglerResolves(p) == \E answers \in BOOLEAN :
    /\ adrift[p] /\ ~Saving(p)
    /\ ModelResolved(p, answers)
    /\ UNCHANGED <<retrievalVars, askVars>>
StragglerEnds(p) ==
    /\ adrift[p]
    /\ adrift' = [adrift EXCEPT ![p] = FALSE]
    /\ UNCHANGED <<task, answer, configVars, modelVars, retrievalVars>>

(* enrichLocalIndex runs on beside whatever the process does next.         *)
Enrich(p) == Enriched(p) /\ UNCHANGED <<configVars, modelVars, askVars>>

AskStep(p) ==
    \/ PassGate(p) \/ Probe(p) \/ Retrieve(p) \/ Prepare(p) \/ ResolveModel(p)
    \/ Compose(p) \/ Conclude(p) \/ ModelFails(p) \/ Consult(p) \/ Consulted(p)
Beside(p) == StragglerResolves(p) \/ StragglerEnds(p) \/ Enrich(p)

-----------------------------------------------------------------------------
(* Processes that do nothing but ask, each whatever and whenever it likes, *)
(* while the service comes and goes. Session puts the front ends around it.*)
askingVars == <<configVars, modelVars, retrievalVars, askVars>>

AskingInit == ConfigInit /\ LocalModelInit /\ RetrievalInit /\ AskInit

Begin(p) == \E mode \in {"docs", "run"}, q \in Question :
    /\ At(p, "idle") /\ StartAsk(p, mode, q)
    /\ UNCHANGED <<configVars, modelVars, retrievalVars>>
Restart == ServiceMoves /\ UNCHANGED <<configVars, retrievalVars, askVars>>

AskingNext ==
    \/ \E p \in Proc : AskStep(p) \/ Beside(p) \/ RunTimesOut(p) \/ Begin(p)
    \/ Restart

(* The event loop of a process turns; a request to the model service and a *)
(* download end some time, with or without success.                        *)
AskingSpec == AskingInit /\ [][AskingNext]_askingVars
              /\ \A p \in Proc : WF_askingVars(AskStep(p))

Task == [at : {"idle", "gate", "probe", "retrieve", "model", "generate", "consult"},
         mode : {"docs", "run"}, question : Question, consulted : BOOLEAN]
Answer == [kind : {"none", "failed", "declined", "composed", "extracted", "unsure"},
           said : SUBSET (Sentence \cup Passage), cites : Seq(Source)]

AskTypeOK ==
    /\ task \in [Proc -> Task]
    /\ answer \in [Proc -> Answer]
    /\ \A p \in Proc : Len(answer[p].cites) <= MaxCited
    /\ adrift \in [Proc -> BOOLEAN]

(* llmCompose.ts 98-103, 259-262: whatever the model says, each sentence   *)
(* shown is supported by a real passage that was found for this question,  *)
(* and every source under it is that of a passage supporting some sentence *)
(* of it; "Sources" is never empty, and an error page is never a source.   *)
(* What the tool hands to an agent as confident leads with a curated fact  *)
(* or a passage that fits in words and in meaning.                         *)
Grounded(q, hits, a) ==
    LET passages == Range(hits) \ Junk
        cites == Range(a.cites)
    IN  /\ a.kind = "composed" =>
              /\ cites # {}
              /\ \A s \in a.said : \E h \in passages :
                     Support[s][h] >= GroundMin /\ SourceOf[h] \in cites
              /\ \A c \in cites : \E h \in passages, s \in a.said :
                     SourceOf[h] = c /\ Support[s][h] >= GroundMin
        /\ a.kind = "extracted" => \E h \in a.said \cap passages :
              /\ cites = {SourceOf[h]}
              /\ Match[q][h].cov >= IF h \in Fact THEN 50 ELSE 60
              /\ h \in Fact \/ Match[q][h].sem >= 42
AnswersGrounded == \A p \in Proc : Grounded(task[p].question, Hits(p), answer[p])

(* Every question ends, with an answer or with an error, whatever the      *)
(* network does and whenever the service stops or moves: retries, the live *)
(* lookup and the consultations of an agent all give up.                   *)
QuestionsEnd == \A p \in Proc : ~At(p, "idle") ~> At(p, "idle")

AskingTypeOK == ConfigTypeOK /\ LocalModelTypeOK /\ RetrievalTypeOK /\ AskTypeOK

(* A search is for the question asked; a composer has a context; an answer *)
(* that claims to be grounded ends a question, or comes from the one       *)
(* consultation an agent gets, so that no later search replaces its hits.  *)
InStep(t, a, f) ==
    /\ t.at \in {"retrieve", "consult"} => f.question = t.question
    /\ t.at = "consult" => t.mode = "run" /\ t.consulted
    /\ t.mode = "docs" /\ t.at \in {"model", "generate"} => Context(f.hits) # <<>>
    /\ a.kind \in {"composed", "extracted"} =>
           t.at = "idle" \/ (t.at = "generate" /\ t.consulted)
    /\ Grounded(t.question, f.hits, a)

(* The types, and what a question, its search and its answer say of each   *)
(* other.                                                                  *)
AskInv ==
    /\ AskingTypeOK
    /\ \A p \in Proc : FindSound(find[p]) /\ InStep(task[p], answer[p], find[p])
=============================================================================

------------------------------ MODULE Retrieval ------------------------------
(***************************************************************************)
(* retrieveKnowledgeHits of knowledge/teamviewerDocs.ts: what a question   *)
(* finds in the local index, among verified facts and cached pages, and,   *)
(* when that is not enough, on pages fetched just in time.                 *)
(*                                                                         *)
(* A passage is a text of some source; the same text met twice is one      *)
(* passage, which is what dedupeHits makes of it. How well it fits a       *)
(* question is given, in per cent, by Match.                               *)
(***************************************************************************)
EXTENDS Processes, Integers, Sequences, FiniteSets, SequencesExt

CONSTANTS Question,
          Worded,        \* those with a word that is no stopword
          Passage,       \* numbers: the order in which the index keeps them
          Fact,          \* curated facts; no embedding is kept for them
          Junk,          \* error pages, and mere footers
          Source,        \* the URL of a passage
          Match,         \* [kw, sem, cov, title] of a question and a passage
          Page,          \* pages of the knowledge base
          OnPage,        \* the passages of a page
          PageMatch,     \* how well its title fits a question
          CachedDocs,    \* extracts of the official pages on disk; nor for these
          Live,          \* processes without TWC_NO_JIT
          ScanMax, Nearest,      \* ANN_SCAN_THRESHOLD 1500, ANN_CANDIDATES 400
          FuseK, Pool, TopHits, MaxPages, MaxRetries  \* 60, 20, 5, 3 and 4

VARIABLES index,         \* passages in the local index
          urlmap,        \* the pages known, and how old that knowledge is
          pageCache,     \* pages on disk
          embedder,      \* embedder[p]: "unloaded", "loaded" or "broken"
          enriching,     \* enriching[p]: passages p has yet to add to the index
          find           \* find[p]: where the retrieval of p is

retrievalVars == <<index, urlmap, pageCache, embedder, enriching, find>>

Fit == [kw : Nat, sem : 0 .. 100, cov : 0 .. 100, title : Nat]
ASSUME RetrievalAssumption ==
    /\ Passage \subseteq Nat /\ Fact \cup Junk \cup CachedDocs \subseteq Passage
    /\ IsFiniteSet(Passage) /\ IsFiniteSet(Page) /\ Fact \cap Junk = {}
    /\ Worded \subseteq Question /\ Match \in [Question -> [Passage -> Fit]]
    /\ \A q \in Question, h \in Fact \cup CachedDocs : Match[q][h].sem = 0
    /\ OnPage \in [Page -> SUBSET (Passage \ (Fact \cup CachedDocs))] /\ Live \subseteq Proc
    /\ {ScanMax, Nearest, FuseK, Pool, TopHits, MaxPages} \subseteq Nat \ {0} /\ MaxRetries \in Nat

Notice == [at : {"off", "index", "search", "map", "landing", "page", "embed", "found", "failed"},
           question : Question, hits : Seq(Passage), confident : BOOLEAN,
           todo : Seq(Page), fresh : SUBSET Passage, attempt : 0 .. MaxRetries]

-----------------------------------------------------------------------------
(* The n best of S, ties in the order of the index (sorts are stable).     *)
Before(score, g, h) == score[g] > score[h] \/ (score[g] = score[h] /\ g < h)
Rank(S, score, h) == 1 + Cardinality({g \in S : Before(score, g, h)})
Best(S, n, score) ==
    [i \in 1 .. (IF Cardinality(S) < n THEN Cardinality(S) ELSE n) |->
        CHOOSE h \in S : Rank(S, score, h) = i]
FirstOf(s, n) == SubSeq(s, 1, IF Len(s) < n THEN Len(s) ELSE n)

(* fuseHybrid: reciprocal ranks by keywords and by meaning, added up.      *)
fuseHybrid(q, S) ==
    LET kw == [h \in S |-> Match[q][h].kw]
        sem == [h \in S |-> Match[q][h].sem]
        worded == {h \in S : kw[h] > 0}
        Reciprocal(rank) == 1000000 \div (FuseK + rank)
        fused == [h \in S |-> (IF h \in worded THEN Reciprocal(Rank(worded, kw, h)) ELSE 0)
                              + Reciprocal(Rank(S, sem, h))]
    IN  Best({h \in S : kw[h] > 0 \/ sem[h] >= 20}, Pool, fused)

(* retrieveLocal scores a small index whole and of a large one the passages *)
(* nearest in meaning, or all of it when the vector search fails.          *)
(* searchKnowledge never leaves the machine.                               *)
Pools(q) ==
    {index} \cup (IF Cardinality(index) <= ScanMax THEN {}
                 ELSE {Range(Best(index, Nearest, [h \in index |-> Match[q][h].sem]))})
retrieveLocal(q, pool) == FirstOf(fuseHybrid(q, pool \ Junk), TopHits)
searchKnowledge(q) ==
    LET kw == [h \in Fact \cup CachedDocs |-> 2 * Match[q][h].kw + (IF h \in Fact THEN 1 ELSE 0)]
    IN  Best({h \in Fact \cup CachedDocs : Match[q][h].kw > 0}, TopHits, kw)

(* rerank, by hitRelevance: the title counts for more than the words.      *)
hitRelevance(q, h) ==
    2 * Match[q][h].cov + Match[q][h].sem + 2 * Match[q][h].title
    + (IF h \in Fact /\ Match[q][h].cov >= 50 THEN 80 ELSE 0)
rerank(q, S) == Best(S, TopHits, [h \in S |-> hitRelevance(q, h)])

isConfident(q, hits) ==
    /\ hits # <<>>
    /\ LET top == Match[q][hits[1]] IN
       IF hits[1] \in Fact THEN top.cov >= 50 ELSE top.cov >= 60 /\ top.sem >= 42

-----------------------------------------------------------------------------
NotAsked(q) == [at |-> "off", question |-> q, hits |-> <<>>, confident |-> FALSE,
                todo |-> <<>>, fresh |-> {}, attempt |-> 0]

(* The map was never built, or some time ago.                              *)
NoMap == [links |-> {}, age |-> "stale"]
RetrievalInit ==
    /\ pageCache \in SUBSET Page
    /\ index \in {{}, UNION {OnPage[page] : page \in pageCache}}
    /\ urlmap \in {NoMap} \cup [links : {Page} \ {{}}, age : {"fresh", "stale"}]
    /\ embedder = [p \in Proc |-> "unloaded"]
    /\ enriching = [p \in Proc |-> {}]
    /\ \E q \in Question : find = [p \in Proc |-> NotAsked(q)]

StartRetrieval(p, q) == find' = [find EXCEPT ![p] = [NotAsked(q) EXCEPT !.at = "index"]]
Advance(p, from, to) ==
    /\ find[p].at = from
    /\ find' = [find EXCEPT ![p].at = to]

(* A question without content words finds nothing, and nothing is looked   *)
(* at for it: retrieveLocal, searchKnowledge and retrieveJustInTime return.*)
NothingToSearch(p) ==
    /\ find[p].question \notin Worded /\ Advance(p, "index", "found")
    /\ UNCHANGED <<index, urlmap, pageCache, embedder, enriching>>

(* Without an index a question fails: nothing is answered from memory. An  *)
(* index that cannot be opened or counted is taken for none (indexStats).  *)
IndexBuilt(p) ==
    /\ find[p].question \in Worded
    /\ \/ index # {} /\ Advance(p, "index", "search")
       \/ Advance(p, "index", "failed")
    /\ UNCHANGED <<index, urlmap, pageCache, embedder, enriching>>

(* getExtractor: the promise of the first load is kept, also a rejected    *)
(* one; embedTexts then throws whenever it is asked.                       *)
LoadEmbedder(p) == \E state \in {"loaded", "broken"} :
    /\ find[p].at = "search" /\ embedder[p] = "unloaded"
    /\ embedder' = [embedder EXCEPT ![p] = state]
    /\ UNCHANGED <<index, urlmap, pageCache, enriching, find>>
(* With a loaded one, embedding the question may fail as well, or the rows *)
(* be gone, unreadable or without vectors when they are read after the     *)
(* count: retrieveLocal throws.                                            *)
SearchThrows(p) ==
    /\ embedder[p] # "unloaded" /\ Advance(p, "search", "failed")
    /\ UNCHANGED <<index, urlmap, pageCache, embedder, enriching>>

(* retrieveKnowledgeHits with one of the pools: the index and the facts    *)
(* are ranked together, and a live lookup follows unless this is enough.   *)
Searched(p, q, near) ==
    \E pool \in {Range(retrieveLocal(q, near)) \cup Range(searchKnowledge(q))} :
    \E hits \in {rerank(q, pool)}, sure \in {isConfident(q, rerank(q, pool))} :
        find' = [find EXCEPT ![p].hits = hits, ![p].confident = sure,
                             ![p].at = IF sure \/ p \notin Live THEN "found" ELSE "map"]
SearchLocal(p) ==
    /\ find[p].at = "search" /\ embedder[p] = "loaded"
    /\ \E near \in Pools(find[p].question) : Searched(p, find[p].question, near)
    /\ UNCHANGED <<index, urlmap, pageCache, embedder, enriching>>

(* retrieveJustInTime: the pages of the map whose titles fit best.         *)
Candidates(q, links) ==
    LET Title(pg) == PageMatch[q][pg]
    IN  SetToSeqs({pg \in links : Title(pg) > 0})
ChoosePages(p, links) ==
    \E pages \in Candidates(find[p].question, links) :
        /\ \A i, j \in DOMAIN pages : i < j =>
               PageMatch[find[p].question][pages[i]] >= PageMatch[find[p].question][pages[j]]
        /\ find' = [find EXCEPT ![p].todo = FirstOf(pages, MaxPages), ![p].attempt = 0,
                                ![p].at = IF pages = <<>> THEN "found" ELSE "page"]

(* ensureUrlMap: a map that is fresh is used as it is; another one is      *)
(* built anew from the landing page. What that page says is kept even if   *)
(* it has no links, though the old map then serves once more.              *)
MapIsFresh(p) ==
    /\ find[p].at = "map" /\ urlmap.age = "fresh"
    /\ ChoosePages(p, urlmap.links)
    /\ UNCHANGED <<index, urlmap, pageCache, embedder, enriching>>
MapIsStale(p) ==
    /\ urlmap.age = "stale" /\ Advance(p, "map", "landing")
    /\ UNCHANGED <<index, urlmap, pageCache, embedder, enriching>>
MapBuilt(p) == \E links \in {{}, Page} :
    /\ find[p].at = "landing"
    /\ urlmap' = [links |-> links, age |-> "fresh"]
    /\ ChoosePages(p, IF links = {} THEN urlmap.links ELSE links)
    /\ UNCHANGED <<index, pageCache, embedder, enriching>>
MapNotBuilt(p) ==
    /\ find[p].at = "landing"
    /\ ChoosePages(p, urlmap.links)
    /\ UNCHANGED <<index, urlmap, pageCache, embedder, enriching>>

(* fetchOfficialDoc: the cached page, else the reader. A passing failure   *)
(* is tried again, any other and the last one give the page up.            *)
NextPage(p, gained) ==
    find' = [find EXCEPT ![p].todo = Tail(@), ![p].attempt = 0,
                         ![p].fresh = @ \cup (gained \ Junk),
                         ![p].at = IF Len(find[p].todo) = 1 THEN "embed" ELSE "page"]
PageArrives(p) ==
    /\ find[p].at = "page"
    /\ NextPage(p, OnPage[Head(find[p].todo)])
    /\ pageCache' = pageCache \cup {Head(find[p].todo)}
    /\ UNCHANGED <<index, urlmap, embedder, enriching>>
\* Mutant of FetchFailsForNow: retries without end.
FetchFailsForEver(p) ==
    /\ find[p].at = "page" /\ Head(find[p].todo) \notin pageCache
    /\ find' = [find EXCEPT ![p].attempt = IF @ < MaxRetries THEN @ + 1 ELSE 0]
    /\ UNCHANGED <<index, urlmap, pageCache, embedder, enriching>>
FetchFailsForNow(p) ==
    /\ find[p].at = "page" /\ Head(find[p].todo) \notin pageCache
    /\ IF find[p].attempt < MaxRetries
       THEN find' = [find EXCEPT ![p].attempt = @ + 1]
       ELSE NextPage(p, {})
    /\ UNCHANGED <<index, urlmap, pageCache, embedder, enriching>>
FetchRefused(p) ==
    /\ find[p].at = "page" /\ Head(find[p].todo) \notin pageCache
    /\ NextPage(p, {})
    /\ UNCHANGED <<index, urlmap, pageCache, embedder, enriching>>

(* The fresh passages compete with the hits so far, and are added to the   *)
(* index by a call nobody waits for.                                       *)
RankFresh(p) ==
    /\ find[p].at = "embed"
    /\ LET q == find[p].question IN
       \E live \in {FirstOf(fuseHybrid(q, find[p].fresh), TopHits)} :
       \E hits \in {IF live = <<>> THEN find[p].hits
                    ELSE rerank(q, Range(find[p].hits) \cup Range(live))} :
           find' = [find EXCEPT ![p].hits = hits, ![p].confident = isConfident(q, hits),
                                ![p].at = "found"]
    /\ enriching' = [enriching EXCEPT ![p] = @ \cup find[p].fresh]
    /\ UNCHANGED <<index, urlmap, pageCache, embedder>>

(* Whatever throws on the way, the hits of the index remain.               *)
LiveLookupThrows(p) ==
    /\ Advance(p, "landing", "found") \/ Advance(p, "embed", "found")
    /\ UNCHANGED <<index, urlmap, pageCache, embedder, enriching>>

(* enrichLocalIndex, which may fail without notice.                        *)
Enriched(p) == \E added \in {{}, enriching[p]} :
    /\ enriching[p] # {}
    /\ index' = index \cup added
    /\ enriching' = [enriching EXCEPT ![p] = {}]
    /\ UNCHANGED <<urlmap, pageCache, embedder, find>>

RetrievalStep(p) ==
    \/ NothingToSearch(p) \/ IndexBuilt(p)
    \/ LoadEmbedder(p) \/ SearchThrows(p) \/ SearchLocal(p)
    \/ MapIsFresh(p) \/ MapIsStale(p) \/ MapBuilt(p) \/ MapNotBuilt(p)
    \/ PageArrives(p) \/ FetchFailsForNow(p) \/ FetchRefused(p)
    \/ RankFresh(p) \/ LiveLookupThrows(p)

RetrievalTypeOK ==
    /\ index \subseteq Passage /\ urlmap \in [links : SUBSET Page, age : {"fresh", "stale"}]
    /\ pageCache \subseteq Page
    /\ embedder \in [Proc -> {"unloaded", "loaded", "broken"}]
    /\ enriching \in [Proc -> SUBSET (Passage \ Junk)]
    /\ find \in [Proc -> Notice]

(* What was found so far: no junk but what is cached on disk, and a claim  *)
(* to be sure that the first hit bears out.                                *)
FindSound(f) ==
    /\ f.at = "page" => f.todo # <<>>
    /\ Range(f.hits) \cap Junk \subseteq CachedDocs
    /\ f.fresh \cap Junk = {}
    /\ f.confident => isConfident(f.question, f.hits)
=============================================================================

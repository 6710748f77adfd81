-------------------------------- MODULE Crawl --------------------------------
(***************************************************************************)
(* crawlKbDocs of knowledge/teamviewerDocs.ts: the breadth-first crawl of  *)
(* the knowledge base behind `docs reindex`, level by level, each level    *)
(* fetched by the workers of mapLimit.  The workers share the index of the *)
(* next page; between taking a page and finishing it, any other may run.   *)
(* The web is outside src/: a page leads to the pages harvestKbLinks finds *)
(* in it, and every fetch succeeds or fails.                               *)
(***************************************************************************)
EXTENDS Integers, Sequences, FiniteSets, SequencesExt

CONSTANTS
  Page,           (* the pages, as normalised URLs                         *)
  Root,           (* the landing page; harvestKbLinks never returns it     *)
  Seeds,          (* the first frontier: the root and OFFICIAL_DOCS        *)
  Links,          (* Links[p]: what harvestKbLinks finds in p, in order    *)
  MaxDepth,       (* CRAWL_MAX_DEPTH, 2 in the code                        *)
  MaxPages,       (* CRAWL_MAX_PAGES, 600 in the code                      *)
  Worker          (* the workers of mapLimit, CRAWL_CONCURRENCY = 4        *)

ASSUME CrawlAssumption ==
  /\ Root \in Page
  /\ Seeds \in Seq(Page) /\ Root \in ToSet(Seeds)
  /\ Cardinality(ToSet(Seeds)) < MaxPages
  /\ Links \in [Page -> Seq(Page)]
  /\ \A p \in Page : Root \notin ToSet(Links[p])
  /\ MaxDepth \in Nat /\ MaxPages \in Nat \ {0}

VARIABLES
  depth,      (* the level being fetched                                   *)
  visited,    (* the pages put into some batch                             *)
  batch,      (* the pages of this level                                   *)
  next,       (* mapLimit's index, from 1 here                             *)
  busy,       (* busy[w]: the index w awaits, or 0                         *)
  out,        (* out[i]: "none", "ok" or "failed"                          *)
  pages,      (* the pages returned, the root apart                        *)
  fetched, failed,   (* the two counters of the summary                    *)
  done        (* the crawl has returned                                    *)

vars == <<depth, visited, batch, next, busy, out, pages, fetched, failed, done>>

\* What a loop over s enters into a Map or a Set: each page once, where it came
\* first, and none of those seen before.
Entered(list, p, seen) == IF p \in seen \cup ToSet(list) THEN list ELSE Append(list, p)
Distinct(s, seen) ==
  LET upto[n \in 0..Len(s)] ==
        IF n = 0 THEN << >> ELSE Entered(upto[n - 1], s[n], seen)
  IN upto[Len(s)]

\* Mutant of Room: > for >= in the comparison with the cap.
RoomPast(seen) == IF Cardinality(seen) <= MaxPages THEN MaxPages + 1 - Cardinality(seen) ELSE 1

\* The loop over the frontier: the pages not visited, until visited.size reaches
\* the cap; the check comes after the push, so there is always one.
Room(seen) == IF Cardinality(seen) < MaxPages THEN MaxPages - Cardinality(seen) ELSE 1
Batch(frontier, seen) ==
  LET new == Distinct(frontier, seen) IN
  IF Len(new) <= Room(seen) THEN new ELSE SubSeq(new, 1, Room(seen))

Init ==
  LET first == Batch(Seeds, {}) IN
  /\ depth = 0
  /\ visited = ToSet(first)
  /\ batch = first
  /\ next = 1
  /\ busy = [w \in Worker |-> 0]
  /\ out = [i \in DOMAIN first |-> "none"]
  /\ pages = {}
  /\ fetched = 0
  /\ failed = 0
  /\ done = FALSE
-----------------------------------------------------------------------------
\* Mutant of Take: the index is advanced when the fetch has come back (see Finish).
TakeStale(w) ==
  /\ ~done
  /\ busy[w] = 0
  /\ \E i \in {next, next - 1} \cap DOMAIN batch :
       /\ out[i] = "none"
       /\ busy' = [busy EXCEPT ![w] = i]
       /\ next' = i + 1
  /\ UNCHANGED <<depth, visited, batch, out, pages, fetched, failed, done>>

\* mapLimit: an idle worker takes the next index and starts fetching.
Take(w) ==
  /\ ~done
  /\ busy[w] = 0
  /\ next <= Len(batch)
  /\ busy' = [busy EXCEPT ![w] = next]
  /\ next' = next + 1
  /\ UNCHANGED <<depth, visited, batch, out, pages, fetched, failed, done>>

\* fetchOfficialDoc comes back, with the page or without (a rejection is caught).
Finish(w) ==
  /\ busy[w] # 0
  /\ \E r \in {"ok", "failed"} : out' = [out EXCEPT ![busy[w]] = r]
  /\ fetched' = fetched + 1
  /\ busy' = [busy EXCEPT ![w] = 0]
  /\ UNCHANGED <<depth, visited, batch, next, pages, failed, done>>

\* Promise.all: no index is left and no worker is out.
LevelFetched == ~done /\ next > Len(batch) /\ \A w \in Worker : busy[w] = 0

Arrived == { batch[i] : i \in { k \in DOMAIN batch : out[k] = "ok" } }

\* The children of the pages that arrived, in the order of the batch; nextByUrl.
Children ==
  LET upto[n \in 0..Len(batch)] ==
        IF n = 0 THEN << >>
        ELSE IF out[n] = "ok" THEN upto[n - 1] \o Links[batch[n]] ELSE upto[n - 1]
  IN upto[Len(batch)]
Harvest == Distinct(Children, visited)

\* Mutant of EndLevel: the last level is never fetched.
EndLevelEarly ==
  /\ LevelFetched
  /\ pages' = pages \cup (Arrived \ {Root})
  /\ failed' = failed + Cardinality({ i \in DOMAIN batch : out[i] = "failed" })
  /\ LET frontier == IF depth + 1 < MaxDepth THEN Harvest ELSE << >>
         more == Batch(frontier, visited) IN
     IF depth = MaxDepth \/ more = << >>
     THEN done' = TRUE /\ UNCHANGED <<depth, visited, batch, next, out>>
     ELSE /\ depth' = depth + 1
          /\ batch' = more
          /\ visited' = visited \cup ToSet(more)
          /\ next' = 1
          /\ out' = [i \in DOMAIN more |-> "none"]
          /\ UNCHANGED done
  /\ UNCHANGED <<busy, fetched>>

\* The loop over the results, the next frontier and the next batch, all without
\* an await.
EndLevel ==
  /\ LevelFetched
  /\ pages' = pages \cup (Arrived \ {Root})
  /\ failed' = failed + Cardinality({ i \in DOMAIN batch : out[i] = "failed" })
  /\ LET frontier == IF depth < MaxDepth THEN Harvest ELSE << >>
         more == Batch(frontier, visited) IN
     IF depth = MaxDepth \/ more = << >>
     THEN done' = TRUE /\ UNCHANGED <<depth, visited, batch, next, out>>
     ELSE /\ depth' = depth + 1
          /\ batch' = more
          /\ visited' = visited \cup ToSet(more)
          /\ next' = 1
          /\ out' = [i \in DOMAIN more |-> "none"]
          /\ UNCHANGED done
  /\ UNCHANGED <<busy, fetched>>

Next == EndLevel \/ \E w \in Worker : Take(w) \/ Finish(w)

Spec == Init /\ [][Next]_vars
-----------------------------------------------------------------------------
(***************************************************************************)
(* Properties                                                              *)
(***************************************************************************)
\* Types of the crawl and of its workers.
TypeOK ==
  /\ depth \in 0..MaxDepth
  /\ visited \subseteq Page /\ pages \subseteq Page
  /\ batch \in Seq(Page)
  /\ next \in 1..(Len(batch) + 1)
  /\ busy \in [Worker -> {0} \cup DOMAIN batch]
  /\ out \in [DOMAIN batch -> {"none", "ok", "failed"}]
  /\ fetched \in Nat /\ failed \in Nat
  /\ done \in BOOLEAN

\* The summary of `docs reindex` adds up: every visited page was fetched exactly
\* once, and is returned or counted as failed unless it is the landing page.
Accounted ==
  done => /\ fetched = Cardinality(visited)
          /\ Cardinality(pages) + failed \in {fetched - 1, fetched}

\* Pages reachable over pages that could be fetched, in at most d hops.
WithinHops(ok) ==
  LET R[d \in 0..MaxDepth] ==
        IF d = 0 THEN ToSet(Seeds)
        ELSE R[d - 1] \cup UNION { ToSet(Links[p]) : p \in R[d - 1] \cap ok }
  IN R
ReachOver(ok) == WithinHops(ok)[MaxDepth]

\* Below the cap the crawl is complete: it returns every page that can be reached
\* within MaxDepth hops over pages that could be fetched, in whatever order the
\* workers came back.
Complete ==
  LET rootFetched == fetched > Cardinality(pages) + failed
      ok == IF rootFetched THEN pages \cup {Root} ELSE pages
  IN done /\ Cardinality(visited) < MaxPages => visited = ReachOver(ok)

\* The cap the code does keep.  It is compared after a page has been pushed, so a
\* level that starts with the cap reached takes one page more.  The first level never
\* reaches it and the second may fill it up: with MaxDepth = 2, the code's, a crawl
\* visits at most MaxPages + 1 pages.
NearCap == Cardinality(visited) < MaxPages + depth
-----------------------------------------------------------------------------
(***************************************************************************)
(* The invariant they rest on.                                             *)
(***************************************************************************)
\* The pages whose results have been looked at. root holds the landing page once it
\* has arrived, which is counted but not returned.
Settled == IF done THEN visited ELSE visited \ ToSet(batch)

\* Every index of the batch is taken once: before next it has a worker or a result.
WorkInv ==
  /\ \A i, k \in DOMAIN batch : batch[i] = batch[k] => i = k
  /\ ToSet(batch) \subseteq visited
  /\ \A w \in Worker : busy[w] # 0 => busy[w] < next /\ out[busy[w]] = "none"
  /\ \A v, w \in Worker : busy[v] = busy[w] /\ busy[v] # 0 => v = w
  /\ \A i \in DOMAIN batch :
        IF i < next THEN out[i] # "none" \/ \E w \in Worker : busy[w] = i
        ELSE out[i] = "none"
  /\ done => next > Len(batch) /\ \A w \in Worker : busy[w] = 0

\* The counters tell the pages fetched and those looked at and not returned.
CountInv(root) ==
  /\ IsFiniteSet(visited) /\ Cardinality(visited) < MaxPages + depth
  /\ fetched = Cardinality(visited \ ToSet(batch))
               + Cardinality({ i \in DOMAIN batch : out[i] # "none" })
  /\ pages \subseteq Settled \ {Root}
  /\ failed = Cardinality(Settled \ (pages \cup root))

\* Below the cap a level holds what is that many hops away and no fewer.
LevelInv(root) ==
  LET within == WithinHops(pages \cup root) IN
  Cardinality(visited) < MaxPages =>
    IF done THEN visited = within[MaxDepth]
    ELSE /\ visited = within[depth]
         /\ Settled = IF depth = 0 THEN {} ELSE within[depth - 1]

CrawlInv ==
  /\ TypeOK /\ WorkInv
  /\ \E root \in SUBSET ({Root} \cap Settled) : CountInv(root) /\ LevelInv(root)
=============================================================================

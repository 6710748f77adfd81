------------------------------- MODULE MCCrawl -------------------------------
(***************************************************************************)
(* Instances of Crawl on a small site: a landing page r, a curated page c  *)
(* that also belongs to the knowledge base, categories a and b, and        *)
(* articles, with links back, across and beyond MaxDepth.  It has nine     *)
(* pages, of which six are within the cap: the cap falls inside the second *)
(* level if r and c can both be fetched, so that the third goes over it;   *)
(* inside the third if only r can; and a crawl without r stays below it.   *)
(***************************************************************************)
EXTENDS Crawl

CONSTANTS r, a, b, c, d, e, f, g, h

SiteSeeds == <<r, c>>

SiteLinks ==
  [p \in Page |-> CASE p = r -> <<a, b, d>>
                    [] p = a -> <<d, c, g, h>>
                    [] p = b -> <<a, d>>
                    [] p = c -> <<e, h>>
                    [] p = d -> <<b>>
                    [] p = e -> <<f>>
                    [] p = f -> <<d>>
                    [] OTHER -> << >>]
=============================================================================

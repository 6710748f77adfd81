--------------------------------- MODULE MCAsk ---------------------------------
EXTENDS Ask

CONSTANTS p1, m1, q1, q2, q3, home, kb, fact, doc, gone, s1, s2, s3

(* 1 is on a page that may be in the index, 2 and 3 (a mere footer) on a   *)
(* page that is fetched when needed, 4 is a fact, 5 and 6 (an error page)  *)
(* are on disk. q1 is answered by 1, q2 by 2 alone: without it there is    *)
(* nothing but 6. q3 has no words to search for.                           *)
NoFit == [kw |-> 0, sem |-> 0, cov |-> 0, title |-> 0]
Fitting == (<<q1, 1>> :> [kw |-> 3, sem |-> 60, cov |-> 70, title |-> 10])
           @@ (<<q1, 4>> :> [kw |-> 2, sem |-> 0, cov |-> 55, title |-> 0])
           @@ (<<q1, 5>> :> [kw |-> 1, sem |-> 0, cov |-> 30, title |-> 0])
           @@ (<<q2, 1>> :> [kw |-> 0, sem |-> 15, cov |-> 10, title |-> 0])
           @@ (<<q2, 2>> :> [kw |-> 4, sem |-> 55, cov |-> 80, title |-> 10])
           @@ (<<q2, 3>> :> [kw |-> 1, sem |-> 30, cov |-> 20, title |-> 10])
           @@ (<<q2, 6>> :> [kw |-> 2, sem |-> 0, cov |-> 90, title |-> 0])
           @@ [c \in {q1, q2, q3} \X (1 .. 6) |-> NoFit]
MCMatch == [q \in {q1, q2, q3} |-> [h \in 1 .. 6 |-> Fitting[<<q, h>>]]]
MCOnPage == (home :> {1}) @@ (kb :> {2, 3})
MCPageMatch == [q \in {q1, q3} |-> [page \in {home, kb} |-> 0]]
               @@ (q2 :> ((home :> 1) @@ (kb :> 2)))

(* s1 rests on 1, s2 on 2 and less on 4, s3 on nothing.                    *)
Backing == (<<s1, 1>> :> 80) @@ (<<s2, 2>> :> 70) @@ (<<s2, 4>> :> 45)
           @@ (<<s1, 5>> :> 30) @@ [c \in {s1, s2, s3} \X (1 .. 6) |-> 10]
MCSupport == [s \in {s1, s2, s3} |-> [h \in 1 .. 6 |-> Backing[<<s, h>>]]]
MCSourceOf == [h \in 1 .. 6 |-> <<home, kb, kb, fact, doc, gone>>[h]]
MCSource == {home, kb, fact, doc, gone}
MCBestSource == [q \in {q1, q2, q3} |-> doc]
MCEnvEndpoint == (p1 :> None)
MCEnvModel == (p1 :> m1)
=============================================================================

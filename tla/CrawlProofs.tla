------------------------------ MODULE CrawlProofs ------------------------------
(***************************************************************************)
(* Proofs about Crawl, for any site, any number of workers and any cap.    *)
(*                                                                         *)
(* The model's loops are recursive functions, and what they return is      *)
(* proved by bounded induction: a set of naturals that holds 0 and the     *)
(* successor of each member holds every number up to the length of the     *)
(* list.  CrawlInv then says that every index of a batch has one worker or *)
(* one result (WorkInv), that the counters are the sizes of sets of pages  *)
(* (CountInv), and that below the cap each level holds exactly the pages   *)
(* one hop further than the last (LevelInv).                               *)
(***************************************************************************)
EXTENDS Crawl, WellFoundedInduction, SequenceTheorems, FiniteSetTheorems, TLAPS

(***************************************************************************)
(* Bounded induction, and functions defined by recursion. The library      *)
(* states induction for operators; these are about a set and a function,   *)
(* and rest on its theorem that < is well-founded.                         *)
(***************************************************************************)
\* A set of naturals that is not empty has a least element.
LEMMA LeastNat ==
  ASSUME NEW T, T \subseteq Nat, T # {}
  PROVE  \E n \in T : \A m \in T : n <= m
<1>1. PICK n \in T : \A m \in T : ~(<<m, n>> \in OpToRel(<, Nat))
  BY NatLessThanWellFounded, WFMin
<1>2. \A m \in T : ~(m < n)
  BY <1>1 DEF OpToRel
<1>3. QED
  BY <1>2

\* A set that holds 0 and the successor of each of its members holds all up to L.
LEMMA UpTo ==
  ASSUME NEW L \in Nat, NEW T,
         0 \in T, \A n \in 0 .. L - 1 : n \in T => n + 1 \in T
  PROVE  0 .. L \subseteq T
<1> SUFFICES ASSUME ~(0 .. L \subseteq T) PROVE FALSE
  OBVIOUS
<1> DEFINE U == (0 .. L) \ T
<1>1. PICK n \in U : \A m \in U : n <= m
  <2>1. U \subseteq Nat /\ U # {}
    OBVIOUS
  <2>2. QED
    BY <2>1, LeastNat
<1>2. n # 0 /\ n - 1 \in 0 .. L - 1
  BY <1>1
<1>3. n - 1 \in T
  BY <1>1, <1>2
<1>4. QED
  BY <1>1, <1>2, <1>3

\* f maps 0 .. L to S by recursion: base at 0, a step from each to the next.
Follows(f, L, S, base, step) ==
    f \in [0 .. L -> S] /\ f[0] = base /\ \A n \in 1 .. L : f[n] = step[n][f[n - 1]]

\* Recursion: a first value and a step for each number define a function.
LEMMA Recursion ==
  ASSUME NEW L \in Nat, NEW S, NEW base \in S, NEW step \in [1 .. L -> [S -> S]]
  PROVE  \E f : Follows(f, L, S, base, step)
<1> DEFINE Runs(f, m) == f[0] = base /\ \A n \in 1 .. m : f[n] = step[n][f[n - 1]]
           T == {m \in 0 .. L : \E f \in [0 .. L -> S] : Runs(f, m)}
<1>1. 0 \in T
  <2> DEFINE f == [i \in 0 .. L |-> base]
  <2>1. f \in [0 .. L -> S] /\ f[0] = base
    OBVIOUS
  <2>2. 1 .. 0 = {}
    OBVIOUS
  <2> HIDE DEF f
  <2>3. Runs(f, 0)
    BY <2>1, <2>2
  <2>4. QED
    BY <2>1, <2>3
<1>2. ASSUME NEW m \in 0 .. L - 1, m \in T PROVE m + 1 \in T
  <2>1. PICK f \in [0 .. L -> S] : Runs(f, m)
    BY <1>2
  <2> DEFINE g == [f EXCEPT ![m + 1] = step[m + 1][f[m]]]
  <2>2. m + 1 \in 0 .. L /\ m + 1 \in 1 .. L /\ f[m] \in S
    BY <1>2
  <2>3. step[m + 1][f[m]] \in S
    BY <2>2
  <2>4. g \in [0 .. L -> S] /\ \A n \in 0 .. m : g[n] = f[n]
    BY <2>2, <2>3
  <2>5. g[m + 1] = step[m + 1][f[m]]
    BY <2>2
  <2> HIDE DEF g
  <2>6. Runs(g, m + 1)
    <3>1. g[0] = base
      BY <2>1, <2>4
    <3>2. ASSUME NEW n \in 1 .. m + 1 PROVE g[n] = step[n][g[n - 1]]
      <4>1. CASE n = m + 1
        BY <2>4, <2>5, <4>1
      <4>2. CASE n # m + 1
        <5>1. n \in 1 .. m /\ n - 1 \in 0 .. m /\ n \in 0 .. m
          BY <4>2
        <5>2. QED
          BY <5>1, <2>1, <2>4
      <4>3. QED
        BY <4>1, <4>2
    <3>3. QED
      BY <3>1, <3>2
  <2>7. QED
    BY <2>2, <2>4, <2>6
<1>3. L \in T
  <2> HIDE DEF T
  <2>1. 0 .. L \subseteq T
    BY <1>1, <1>2, UpTo
  <2>2. QED
    BY <2>1
<1>4. QED
  BY <1>3 DEF Follows
-----------------------------------------------------------------------------
(***************************************************************************)
(* The loops that enter pages into a Set or a Map.                         *)
(***************************************************************************)
\* Appending adds an element at the end.
LEMMA AppendShape ==
  ASSUME NEW S, NEW s \in Seq(S), NEW p \in S
  PROVE  /\ Append(s, p) \in Seq(S)
         /\ ToSet(Append(s, p)) = ToSet(s) \cup {p}
         /\ IsInjective(s) /\ p \notin ToSet(s) => IsInjective(Append(s, p))
<1>1. /\ Append(s, p) \in Seq(S) /\ Len(Append(s, p)) = Len(s) + 1 /\ Len(s) \in Nat
      /\ \A i \in 1 .. Len(s) : Append(s, p)[i] = s[i]
      /\ Append(s, p)[Len(s) + 1] = p
      /\ DOMAIN s = 1 .. Len(s) /\ DOMAIN Append(s, p) = 1 .. Len(s) + 1
  BY AppendProperties, LenProperties
<1>2. ToSet(Append(s, p)) = ToSet(s) \cup {p}
  <2>1. ASSUME NEW x \in ToSet(Append(s, p)) PROVE x \in ToSet(s) \cup {p}
    <3>1. PICK i \in 1 .. Len(s) + 1 : x = Append(s, p)[i]
      BY <1>1, <2>1 DEF ToSet
    <3>2. CASE i = Len(s) + 1
      BY <1>1, <3>1, <3>2
    <3>3. CASE i # Len(s) + 1
      <4>1. i \in 1 .. Len(s)
        BY <1>1, <3>3
      <4>2. QED
        BY <1>1, <3>1, <4>1 DEF ToSet
    <3>4. QED
      BY <3>2, <3>3
  <2>2. p \in ToSet(Append(s, p))
    <3>1. Len(s) + 1 \in DOMAIN Append(s, p)
      BY <1>1
    <3>2. QED
      BY <1>1, <3>1 DEF ToSet
  <2>3. ASSUME NEW x \in ToSet(s) PROVE x \in ToSet(Append(s, p))
    <3>1. PICK i \in 1 .. Len(s) : x = s[i]
      BY <1>1, <2>3 DEF ToSet
    <3>2. i \in DOMAIN Append(s, p) /\ x = Append(s, p)[i]
      BY <1>1, <3>1
    <3>3. QED
      BY <3>2 DEF ToSet
  <2>4. QED
    BY <2>1, <2>2, <2>3
<1>3. ASSUME IsInjective(s), p \notin ToSet(s) PROVE IsInjective(Append(s, p))
  <2> SUFFICES ASSUME NEW i \in 1 .. Len(s) + 1, NEW j \in 1 .. Len(s) + 1,
                      Append(s, p)[i] = Append(s, p)[j]
               PROVE  i = j
    BY <1>1 DEF IsInjective
  <2>1. \A k \in 1 .. Len(s) : s[k] # p
    BY <1>1, <1>3 DEF ToSet
  <2>2. CASE i \in 1 .. Len(s) /\ j \in 1 .. Len(s)
    BY <1>1, <1>3, <2>2 DEF IsInjective
  <2>3. CASE i = Len(s) + 1 /\ j \in 1 .. Len(s)
    BY <1>1, <2>1, <2>3
  <2>4. CASE j = Len(s) + 1 /\ i \in 1 .. Len(s)
    BY <1>1, <2>1, <2>4
  <2>5. QED
    BY <1>1, <2>2, <2>3, <2>4
<1>4. QED
  BY <1>1, <1>2, <1>3

\* Entered pages are pages.
LEMMA EnteredType ==
  ASSUME NEW list \in Seq(Page), NEW p \in Page, NEW seen
  PROVE  Entered(list, p, seen) \in Seq(Page)
BY AppendShape DEF Entered

\* What a loop enters: the pages that were not seen before, each once.
LEMMA DistinctShape ==
  ASSUME NEW s \in Seq(Page), NEW seen
  PROVE  /\ Distinct(s, seen) \in Seq(Page)
         /\ IsInjective(Distinct(s, seen))
         /\ ToSet(Distinct(s, seen)) = ToSet(s) \ seen
<1> DEFINE L == Len(s)
           Is(f) == f = [n \in 0 .. L |-> IF n = 0 THEN << >> ELSE Entered(f[n - 1], s[n], seen)]
           step == [n \in 1 .. L |-> [list \in Seq(Page) |-> Entered(list, s[n], seen)]]
           g == CHOOSE f : Is(f)
           First(n) == {s[i] : i \in 1 .. n}
<1>1. L \in Nat /\ \A n \in 1 .. L : s[n] \in Page
  OBVIOUS
<1>2. step \in [1 .. L -> [Seq(Page) -> Seq(Page)]]
  BY <1>1, EnteredType
<1>3. PICK f : Follows(f, L, Seq(Page), << >>, step)
  <2>1. << >> \in Seq(Page)
    OBVIOUS
  <2> HIDE DEF step, L
  <2>2. QED
    BY <1>1, <1>2, <2>1, Recursion
<1>4. \A n \in 1 .. L : f[n] = Entered(f[n - 1], s[n], seen)
  <2> SUFFICES ASSUME NEW n \in 1 .. L PROVE f[n] = Entered(f[n - 1], s[n], seen)
    OBVIOUS
  <2>1. n - 1 \in 0 .. L
    BY <1>1
  <2>2. f[n - 1] \in Seq(Page)
    BY <1>3, <2>1 DEF Follows
  <2>3. QED
    BY <1>3, <2>2 DEF Follows
<1>5. Is(f)
  <2> HIDE DEF step, L
  <2>1. QED
    BY <1>1, <1>3, <1>4 DEF Follows
<1>6. Is(g)
  <2> HIDE DEF Is
  <2>1. QED
    BY <1>5
<1>7. Distinct(s, seen) = g[L]
  BY DEF Distinct
<1>8. g[0] = << >> /\ \A n \in 1 .. L : g[n] = Entered(g[n - 1], s[n], seen)
  <2> HIDE DEF g, L
  <2>1. QED
    BY <1>1, <1>6
<1> DEFINE Holds(list, n) == /\ list \in Seq(Page) /\ IsInjective(list)
                             /\ ToSet(list) = First(n) \ seen
           T == {n \in 0 .. L : Holds(g[n], n)}
<1> HIDE DEF g, L, step, Is
<1>9. 0 \in T
  <2>1. << >> \in Seq(Page) /\ IsInjective(<< >>) /\ ToSet(<< >>) = {} /\ First(0) = {}
    BY DEF IsInjective, ToSet
  <2> HIDE DEF First
  <2>2. Holds(g[0], 0)
    BY <1>8, <2>1
  <2>3. QED
    BY <1>1, <2>2
<1>10. ASSUME NEW n \in 0 .. L - 1, n \in T PROVE n + 1 \in T
  <2>1. n + 1 \in 1 .. L /\ n + 1 \in 0 .. L /\ n \in Nat
    BY <1>1
  <2>2. g[n + 1] = Entered(g[n], s[n + 1], seen) /\ s[n + 1] \in Page
    BY <1>1, <1>8, <2>1
  <2>3. First(n + 1) = First(n) \cup {s[n + 1]}
    <3>1. 1 .. n + 1 = (1 .. n) \cup {n + 1}
      BY <2>1
    <3>2. QED
      BY <3>1
  <2>4. Holds(g[n], n)
    BY <1>10
  <2> HIDE DEF First
  <2>5. CASE s[n + 1] \in seen \cup ToSet(g[n])
    BY <2>1, <2>2, <2>3, <2>4, <2>5 DEF Entered
  <2>6. CASE s[n + 1] \notin seen \cup ToSet(g[n])
    <3>1. g[n + 1] = Append(g[n], s[n + 1])
      BY <2>2, <2>6 DEF Entered
    <3>2. /\ g[n + 1] \in Seq(Page) /\ ToSet(g[n + 1]) = ToSet(g[n]) \cup {s[n + 1]}
          /\ IsInjective(g[n + 1])
      BY <2>2, <2>4, <2>6, <3>1, AppendShape
    <3>3. QED
      BY <2>1, <2>3, <2>4, <2>6, <3>2
  <2>7. QED
    BY <2>5, <2>6
<1>11. L \in T
  <2> HIDE DEF T
  <2>1. 0 .. L \subseteq T
    BY <1>1, <1>9, <1>10, UpTo
  <2>2. QED
    BY <1>1, <2>1
<1>12. First(L) = ToSet(s)
  <2>1. DOMAIN s = 1 .. Len(s)
    OBVIOUS
  <2>2. QED
    BY <2>1 DEF ToSet, L
<1>13. QED
  BY <1>7, <1>11, <1>12

\* A batch takes new pages of the frontier, as many as there is room for.
LEMMA BatchShape ==
  ASSUME NEW frontier \in Seq(Page), NEW seen, IsFiniteSet(seen)
  PROVE  LET b == Batch(frontier, seen) IN
         /\ b \in Seq(Page) /\ IsInjective(b)
         /\ ToSet(b) \subseteq ToSet(frontier) \ seen
         /\ Len(b) <= Room(seen)
         /\ Len(b) < Room(seen) => ToSet(b) = ToSet(frontier) \ seen
         /\ b = << >> => ToSet(frontier) \subseteq seen
<1> DEFINE new == Distinct(frontier, seen)
           b == Batch(frontier, seen)
           n == Room(seen)
<1>1. new \in Seq(Page) /\ IsInjective(new) /\ ToSet(new) = ToSet(frontier) \ seen
  BY DistinctShape
<1>2. n \in Nat \ {0}
  BY FS_CardinalityType, CrawlAssumption DEF Room
<1>3. b = IF Len(new) <= n THEN new ELSE SubSeq(new, 1, n)
  BY DEF Batch
<1> HIDE DEF new, b, n
<1>4. Len(new) \in Nat /\ DOMAIN new = 1 .. Len(new)
  BY <1>1
<1>5. CASE Len(new) <= n
  <2>1. new = << >> => ToSet(new) = {}
    BY DEF ToSet
  <2>2. QED
    BY <1>1, <1>3, <1>5, <2>1 DEF b, n
<1>6. CASE Len(new) > n
  <2>1. b = SubSeq(new, 1, n) /\ n \in 1 .. Len(new)
    BY <1>2, <1>3, <1>4, <1>6
  <2>2. /\ b \in Seq(Page) /\ Len(b) = n
        /\ \A i \in 1 .. n : b[i] = new[i]
    <3>1. \A i \in 1 .. n : new[i] \in Page
      BY <1>1, <1>4, <2>1, ElementOfSeq
    <3>2. /\ SubSeq(new, 1, n) \in Seq(Page)
          /\ Len(SubSeq(new, 1, n)) = IF 1 <= n THEN n - 1 + 1 ELSE 0
          /\ \A i \in 1 .. n - 1 + 1 : SubSeq(new, 1, n)[i] = new[1 + i - 1]
      BY <1>2, <3>1, SubSeqProperties
    <3>3. QED
      BY <1>2, <2>1, <3>2
  <2>3. DOMAIN b = 1 .. n
    BY <2>2
  <2>4. IsInjective(b)
    BY <1>1, <1>4, <2>1, <2>2, <2>3 DEF IsInjective
  <2>5. ToSet(b) \subseteq ToSet(new)
    BY <1>4, <2>1, <2>2, <2>3 DEF ToSet
  <2>6. b # << >>
    BY <1>2, <2>2
  <2>7. ~(Len(b) < n) /\ Len(b) <= n
    BY <1>2, <2>2
  <2>8. QED
    BY <1>1, <2>2, <2>4, <2>5, <2>6, <2>7 DEF b, n
<1>7. QED
  BY <1>2, <1>4, <1>5, <1>6

\* Joining lists joins the sets of their pages.
LEMMA ConcatShape ==
  ASSUME NEW S, NEW s \in Seq(S), NEW t \in Seq(S)
  PROVE  s \o t \in Seq(S) /\ ToSet(s \o t) = ToSet(s) \cup ToSet(t)
<1>1. /\ s \o t \in Seq(S) /\ Len(s \o t) = Len(s) + Len(t)
      /\ \A i \in 1 .. Len(s) + Len(t) :
           (s \o t)[i] = IF i <= Len(s) THEN s[i] ELSE t[i - Len(s)]
  BY ConcatProperties
<1>2. /\ Len(s) \in Nat /\ Len(t) \in Nat /\ DOMAIN s = 1 .. Len(s) /\ DOMAIN t = 1 .. Len(t)
      /\ DOMAIN (s \o t) = 1 .. Len(s) + Len(t)
  BY <1>1, LenProperties
<1> DEFINE u == s \o t
<1> HIDE DEF u
<1>3. ASSUME NEW x \in ToSet(u) PROVE x \in ToSet(s) \cup ToSet(t)
  <2>1. PICK i \in 1 .. Len(s) + Len(t) : x = u[i]
    BY <1>2, <1>3 DEF ToSet, u
  <2>2. CASE i <= Len(s)
    <3>1. i \in DOMAIN s /\ x = s[i]
      BY <1>1, <1>2, <2>1, <2>2 DEF u
    <3>2. QED
      BY <3>1 DEF ToSet
  <2>3. CASE i > Len(s)
    <3>1. i - Len(s) \in DOMAIN t /\ x = t[i - Len(s)]
      BY <1>1, <1>2, <2>1, <2>3 DEF u
    <3>2. QED
      BY <3>1 DEF ToSet
  <2>4. QED
    BY <1>2, <2>1, <2>2, <2>3
<1>4. ASSUME NEW x \in ToSet(s) PROVE x \in ToSet(u)
  <2>1. PICK i \in DOMAIN s : x = s[i]
    BY <1>4 DEF ToSet
  <2>2. i \in DOMAIN u /\ x = u[i]
    BY <1>1, <1>2, <2>1 DEF u
  <2>3. QED
    BY <2>2 DEF ToSet
<1>5. ASSUME NEW x \in ToSet(t) PROVE x \in ToSet(u)
  <2>1. PICK i \in DOMAIN t : x = t[i]
    BY <1>5 DEF ToSet
  <2>2. Len(s) + i \in DOMAIN u /\ ~(Len(s) + i <= Len(s)) /\ Len(s) + i - Len(s) = i
    BY <1>2, <2>1 DEF u
  <2>3. x = u[Len(s) + i]
    BY <1>1, <1>2, <2>1, <2>2 DEF u
  <2>4. QED
    BY <2>2, <2>3 DEF ToSet
<1>6. QED
  BY <1>1, <1>3, <1>4, <1>5 DEF u

\* The children collected are those of the pages that arrived.
LEMMA ChildrenShape ==
  ASSUME batch \in Seq(Page), out \in [DOMAIN batch -> {"none", "ok", "failed"}]
  PROVE  /\ Children \in Seq(Page)
         /\ ToSet(Children) = UNION {ToSet(Links[p]) : p \in Arrived}
<1> DEFINE L == Len(batch)
           Is(f) == f = [n \in 0 .. L |->
                           IF n = 0 THEN << >>
                           ELSE IF out[n] = "ok" THEN f[n - 1] \o Links[batch[n]] ELSE f[n - 1]]
           step == [n \in 1 .. L |-> [list \in Seq(Page) |->
                      IF out[n] = "ok" THEN list \o Links[batch[n]] ELSE list]]
           g == CHOOSE f : Is(f)
           Of(n) == UNION {ToSet(Links[batch[i]]) : i \in {k \in 1 .. n : out[k] = "ok"}}
<1>1. L \in Nat /\ DOMAIN batch = 1 .. L /\ \A n \in 1 .. L : batch[n] \in Page
  BY LenProperties, ElementOfSeq
<1>a. \A n \in 1 .. L : Links[batch[n]] \in Seq(Page)
  BY <1>1, CrawlAssumption
<1>2. step \in [1 .. L -> [Seq(Page) -> Seq(Page)]]
  <2>1. \A n \in 1 .. L, list \in Seq(Page) : list \o Links[batch[n]] \in Seq(Page)
    BY <1>a, ConcatShape
  <2> HIDE DEF L
  <2>2. QED
    BY <2>1
<1>3. PICK f : Follows(f, L, Seq(Page), << >>, step)
  <2>1. << >> \in Seq(Page)
    OBVIOUS
  <2> HIDE DEF step, L
  <2>2. QED
    BY <1>1, <1>2, <2>1, Recursion
<1>4. \A n \in 1 .. L : f[n] = IF out[n] = "ok" THEN f[n - 1] \o Links[batch[n]] ELSE f[n - 1]
  <2> SUFFICES ASSUME NEW n \in 1 .. L
               PROVE  f[n] = IF out[n] = "ok" THEN f[n - 1] \o Links[batch[n]] ELSE f[n - 1]
    OBVIOUS
  <2>1. n - 1 \in 0 .. L
    BY <1>1
  <2>2. f[n - 1] \in Seq(Page)
    BY <1>3, <2>1 DEF Follows
  <2>3. QED
    BY <1>3, <2>2 DEF Follows
<1>5. Is(f)
  <2> DEFINE Value(n) == IF out[n] = "ok" THEN f[n - 1] \o Links[batch[n]] ELSE f[n - 1]
  <2>1. \A n \in 1 .. L : f[n] = Value(n)
    BY <1>4
  <2>2. f \in [0 .. L -> Seq(Page)] /\ f[0] = << >>
    BY <1>3 DEF Follows
  <2> HIDE DEF step, L, Value
  <2>3. f = [n \in 0 .. L |-> IF n = 0 THEN << >> ELSE Value(n)]
    BY <1>1, <2>1, <2>2
  <2>4. QED
    BY <2>3 DEF Value
<1>6. Is(g)
  <2> HIDE DEF Is
  <2>1. QED
    BY <1>5
<1>7. Children = g[L]
  BY DEF Children
<1>8. /\ g[0] = << >>
      /\ \A n \in 1 .. L : g[n] = IF out[n] = "ok" THEN g[n - 1] \o Links[batch[n]] ELSE g[n - 1]
  <2> HIDE DEF g, L
  <2>1. QED
    BY <1>1, <1>6
<1> DEFINE Holds(list, n) == list \in Seq(Page) /\ ToSet(list) = Of(n)
           T == {n \in 0 .. L : Holds(g[n], n)}
<1> HIDE DEF g, step, Is
<1>9. 0 \in T
  <2>1. << >> \in Seq(Page) /\ ToSet(<< >>) = {} /\ Of(0) = {}
    BY DEF ToSet
  <2> HIDE DEF Of
  <2>2. Holds(g[0], 0)
    BY <1>8, <2>1
  <2>3. QED
    BY <1>1, <2>2
<1>10. ASSUME NEW n \in 0 .. L - 1, n \in T PROVE n + 1 \in T
  <2>1. n + 1 \in 1 .. L /\ n + 1 \in 0 .. L /\ n \in Nat /\ n + 1 - 1 = n
    BY <1>1
  <2>2. g[n + 1] = IF out[n + 1] = "ok" THEN g[n] \o Links[batch[n + 1]] ELSE g[n]
    BY <1>8, <2>1
  <2>3. 1 .. n + 1 = (1 .. n) \cup {n + 1}
    BY <2>1
  <2>4. Of(n + 1) = IF out[n + 1] = "ok" THEN Of(n) \cup ToSet(Links[batch[n + 1]]) ELSE Of(n)
    <3>1. {k \in 1 .. n + 1 : out[k] = "ok"} =
            IF out[n + 1] = "ok" THEN {k \in 1 .. n : out[k] = "ok"} \cup {n + 1}
            ELSE {k \in 1 .. n : out[k] = "ok"}
      BY <2>3
    <3>2. QED
      BY <3>1
  <2>5. Holds(g[n], n)
    BY <1>10
  <2>6. Links[batch[n + 1]] \in Seq(Page)
    BY <1>a, <2>1
  <2> HIDE DEF Of, L
  <2>7. Holds(g[n + 1], n + 1)
    <3>1. CASE out[n + 1] = "ok"
      <4>1. g[n + 1] = g[n] \o Links[batch[n + 1]]
        BY <2>2, <3>1
      <4>2. g[n + 1] \in Seq(Page) /\ ToSet(g[n + 1]) = ToSet(g[n]) \cup ToSet(Links[batch[n + 1]])
        BY <2>5, <2>6, <4>1, ConcatShape
      <4>3. QED
        BY <2>4, <2>5, <3>1, <4>2
    <3>2. CASE out[n + 1] # "ok"
      BY <2>2, <2>4, <2>5, <3>2
    <3>3. QED
      BY <3>1, <3>2
  <2>8. QED
    BY <2>1, <2>7
<1>11. L \in T
  <2> HIDE DEF T
  <2>1. 0 .. L \subseteq T
    BY <1>1, <1>9, <1>10, UpTo
  <2>2. QED
    BY <1>1, <2>1
<1>12. Of(L) = UNION {ToSet(Links[p]) : p \in Arrived}
  BY <1>1 DEF Arrived
<1>13. QED
  BY <1>7, <1>11, <1>12
-----------------------------------------------------------------------------
(***************************************************************************)
(* What can be reached in so many hops.                                    *)
(***************************************************************************)
\* R tells the pages within so many hops, over the pages of ok.
Hops(R, ok) ==
  /\ R \in [0 .. MaxDepth -> SUBSET Page] /\ R[0] = ToSet(Seeds)
  /\ \A d \in 1 .. MaxDepth : R[d] = R[d - 1] \cup UNION {ToSet(Links[p]) : p \in R[d - 1] \cap ok}

\* WithinHops is defined by that recursion.
LEMMA HopsUnfold ==
  ASSUME NEW ok
  PROVE  Hops(WithinHops(ok), ok)
<1> DEFINE Further(S) == S \cup UNION {ToSet(Links[p]) : p \in S \cap ok}
           Is(f) == f = [d \in 0 .. MaxDepth |-> IF d = 0 THEN ToSet(Seeds) ELSE Further(f[d - 1])]
           step == [d \in 1 .. MaxDepth |-> [S \in SUBSET Page |-> Further(S)]]
           g == CHOOSE f : Is(f)
<1>1. MaxDepth \in Nat /\ ToSet(Seeds) \subseteq Page
  BY CrawlAssumption DEF ToSet
<1>2. \A S \in SUBSET Page : Further(S) \in SUBSET Page
  <2>1. \A p \in Page : ToSet(Links[p]) \subseteq Page
    BY CrawlAssumption DEF ToSet
  <2>2. QED
    BY <2>1
<1>3. step \in [1 .. MaxDepth -> [SUBSET Page -> SUBSET Page]]
  <2> HIDE DEF Further
  <2>1. QED
    BY <1>2
<1>4. PICK f : Follows(f, MaxDepth, SUBSET Page, ToSet(Seeds), step)
  <2> HIDE DEF step
  <2>1. QED
    BY <1>1, <1>3, Recursion
<1>5. \A d \in 1 .. MaxDepth : f[d] = Further(f[d - 1])
  <2> SUFFICES ASSUME NEW d \in 1 .. MaxDepth PROVE f[d] = Further(f[d - 1])
    OBVIOUS
  <2>1. d - 1 \in 0 .. MaxDepth
    BY <1>1
  <2>2. f[d - 1] \in SUBSET Page
    BY <1>4, <2>1 DEF Follows
  <2> HIDE DEF Further
  <2>3. QED
    BY <1>4, <2>2 DEF Follows
<1>6. Is(f)
  <2> HIDE DEF step, Further
  <2>1. QED
    BY <1>1, <1>4, <1>5 DEF Follows
<1>7. Is(g)
  <2> HIDE DEF Is
  <2>1. QED
    BY <1>6
<1>8. WithinHops(ok) = g
  BY DEF WithinHops
<1>9. g[0] = ToSet(Seeds) /\ \A d \in 1 .. MaxDepth : g[d] = Further(g[d - 1])
  <2> HIDE DEF g, Further
  <2>1. QED
    BY <1>1, <1>7
<1> DEFINE T == {d \in 0 .. MaxDepth : g[d] \in SUBSET Page}
<1>10. 0 \in T
  <2> HIDE DEF g
  <2>1. QED
    BY <1>1, <1>9
<1>11. ASSUME NEW d \in 0 .. MaxDepth - 1, d \in T PROVE d + 1 \in T
  <2>1. d + 1 \in 1 .. MaxDepth /\ d + 1 - 1 = d
    BY <1>1
  <2> HIDE DEF g, Further
  <2>2. g[d + 1] = Further(g[d])
    BY <1>9, <2>1
  <2>3. QED
    BY <1>2, <1>11, <2>1, <2>2
<1>12. \A d \in 0 .. MaxDepth : g[d] \in SUBSET Page
  <2>1. 0 .. MaxDepth \subseteq T
    <3> HIDE DEF T
    <3>1. QED
      BY <1>1, <1>10, <1>11, UpTo
  <2>2. QED
    BY <2>1
<1>13. g \in [0 .. MaxDepth -> SUBSET Page]
  <2> HIDE DEF g, Further
  <2>1. QED
    BY <1>7, <1>12
<1>14. QED
  BY <1>8, <1>9, <1>13 DEF Hops

\* With more hops more pages are within reach.
LEMMA HopsGrow ==
  ASSUME NEW R, NEW ok, Hops(R, ok),
         NEW d \in 0 .. MaxDepth, NEW e \in 0 .. MaxDepth, e <= d
  PROVE  R[e] \subseteq R[d]
<1> DEFINE T == {n \in 0 .. d - e : R[e] \subseteq R[e + n]}
<1>1. MaxDepth \in Nat /\ d - e \in Nat
  BY CrawlAssumption
<1>2. 0 \in T
  BY <1>1
<1>3. ASSUME NEW n \in 0 .. (d - e) - 1, n \in T PROVE n + 1 \in T
  <2>1. e + n + 1 \in 1 .. MaxDepth /\ e + n + 1 - 1 = e + n /\ e + (n + 1) = e + n + 1
    BY <1>1
  <2>2. R[e + n] \subseteq R[e + n + 1]
    BY <2>1 DEF Hops
  <2>3. QED
    BY <1>1, <1>3, <2>1, <2>2
<1>4. d - e \in T
  <2> HIDE DEF T
  <2>1. 0 .. d - e \subseteq T
    BY <1>1, <1>2, <1>3, UpTo
  <2>2. QED
    BY <1>1, <2>1
<1>5. QED
  BY <1>1, <1>4

\* The same pages are within reach, up to d hops.
SameUpTo(Q, R, d) == \A e \in 0 .. d : Q[e] = R[e]

\* Which of the pages at the last hop can be fetched makes no difference.
LEMMA HopsAgree ==
  ASSUME NEW R, NEW ok, Hops(R, ok), NEW Q, NEW more, Hops(Q, more), NEW d \in 0 .. MaxDepth,
         d > 0 => R[d - 1] \cap ok = R[d - 1] \cap more
  PROVE  SameUpTo(Q, R, d)
<1> DEFINE T == {e \in 0 .. d : Q[e] = R[e]}
<1>1. MaxDepth \in Nat
  BY CrawlAssumption
<1>2. 0 \in T
  BY <1>1 DEF Hops
<1>3. ASSUME NEW e \in 0 .. d - 1, e \in T PROVE e + 1 \in T
  <2>1. /\ e + 1 \in 1 .. MaxDepth /\ e + 1 - 1 = e /\ d > 0 /\ e <= d - 1
        /\ e \in 0 .. MaxDepth /\ d - 1 \in 0 .. MaxDepth
    BY <1>1
  <2>2. R[e] \subseteq R[d - 1]
    BY <2>1, HopsGrow
  <2>3. R[e] \cap ok = R[e] \cap more
    BY <2>1, <2>2
  <2>4. /\ R[e + 1] = R[e] \cup UNION {ToSet(Links[p]) : p \in R[e] \cap ok}
        /\ Q[e + 1] = Q[e] \cup UNION {ToSet(Links[p]) : p \in Q[e] \cap more}
    BY <2>1 DEF Hops
  <2>5. Q[e] = R[e]
    BY <1>3
  <2>6. Q[e + 1] = R[e + 1]
    BY <2>3, <2>4, <2>5
  <2>7. QED
    BY <1>1, <2>6
<1>4. 0 .. d \subseteq T
  <2> HIDE DEF T
  <2>1. QED
    BY <1>1, <1>2, <1>3, UpTo
<1>5. QED
  BY <1>4 DEF SameUpTo

\* When no link leads out, no number of hops does.
LEMMA HopsClosed ==
  ASSUME NEW R, NEW ok, Hops(R, ok), NEW d \in 0 .. MaxDepth,
         UNION {ToSet(Links[p]) : p \in R[d] \cap ok} \subseteq R[d]
  PROVE  R[MaxDepth] = R[d]
<1> DEFINE T == {n \in 0 .. MaxDepth - d : R[d + n] = R[d]}
<1>1. MaxDepth \in Nat /\ MaxDepth - d \in Nat
  BY CrawlAssumption
<1>2. 0 \in T
  BY <1>1
<1>3. ASSUME NEW n \in 0 .. (MaxDepth - d) - 1, n \in T PROVE n + 1 \in T
  <2>1. d + n + 1 \in 1 .. MaxDepth /\ d + n + 1 - 1 = d + n /\ d + (n + 1) = d + n + 1
    BY <1>1
  <2>2. R[d + n + 1] = R[d + n] \cup UNION {ToSet(Links[p]) : p \in R[d + n] \cap ok}
    BY <2>1 DEF Hops
  <2>3. R[d + n] = R[d]
    BY <1>3
  <2>4. R[d + n + 1] = R[d]
    BY <2>2, <2>3
  <2>5. QED
    BY <1>1, <2>1, <2>4
<1>4. MaxDepth - d \in T
  <2> HIDE DEF T
  <2>1. 0 .. MaxDepth - d \subseteq T
    BY <1>1, <1>2, <1>3, UpTo
  <2>2. QED
    BY <1>1, <2>1
<1>5. QED
  BY <1>1, <1>4
-----------------------------------------------------------------------------
(***************************************************************************)
(* Counting the pages of a batch.                                          *)
(***************************************************************************)
\* As many indices as pages, of any part of a list that repeats none.
LEMMA PartCounted ==
  ASSUME NEW S, NEW s \in Seq(S), IsInjective(s), NEW I \in SUBSET DOMAIN s
  PROVE  /\ IsFiniteSet(I) /\ IsFiniteSet({s[i] : i \in I})
         /\ Cardinality({s[i] : i \in I}) = Cardinality(I)
         /\ Cardinality(I) \in Nat
<1> DEFINE f == [i \in I |-> s[i]]
           T == {s[i] : i \in I}
<1>1. IsFiniteSet(I)
  <2>1. DOMAIN s = 1 .. Len(s) /\ Len(s) \in Nat
    BY LenProperties
  <2>2. IsFiniteSet(1 .. Len(s))
    BY <2>1, FS_Interval
  <2>3. QED
    BY <2>1, <2>2, FS_Subset
<1>2. f \in Bijection(I, T)
  <2>1. f \in [I -> T]
    OBVIOUS
  <2>2. \A x, y \in I : f[x] = f[y] => x = y
    BY DEF IsInjective
  <2>3. \A t \in T : \E x \in I : f[x] = t
    OBVIOUS
  <2> HIDE DEF f, T
  <2>4. QED
    BY <2>1, <2>2, <2>3 DEF Bijection, Injection, Surjection, IsInjective
<1>3. ExistsBijection(I, T)
  BY <1>2 DEF ExistsBijection
<1>4. QED
  BY <1>1, <1>3, FS_Bijection, FS_CardinalityType

\* A list that repeats nothing is as long as the set of its elements.
LEMMA ListCounted ==
  ASSUME NEW S, NEW s \in Seq(S), IsInjective(s)
  PROVE  IsFiniteSet(ToSet(s)) /\ Cardinality(ToSet(s)) = Len(s)
<1>1. DOMAIN s = 1 .. Len(s) /\ Len(s) \in Nat
  BY LenProperties
<1>2. Cardinality(1 .. Len(s)) = Len(s)
  BY <1>1, FS_Interval
<1> DEFINE I == DOMAIN s
<1>3. I \in SUBSET DOMAIN s
  OBVIOUS
<1> HIDE DEF I
<1>4. IsFiniteSet({s[i] : i \in I}) /\ Cardinality({s[i] : i \in I}) = Cardinality(I)
  BY <1>3, PartCounted
<1>5. ToSet(s) = {s[i] : i \in I} /\ I = 1 .. Len(s)
  BY <1>1 DEF ToSet, I
<1>6. QED
  BY <1>2, <1>4, <1>5
-----------------------------------------------------------------------------
(***************************************************************************)
(* The steps of the workers.                                               *)
(***************************************************************************)
\* A worker that takes an index is the only one to have it.
LEMMA TakeWork ==
  ASSUME TypeOK, WorkInv, NEW w \in Worker, Take(w)
  PROVE  TypeOK' /\ WorkInv'
<1>a. /\ DOMAIN batch = 1 .. Len(batch) /\ Len(batch) \in Nat
      /\ next \in 1 .. Len(batch) + 1 /\ next <= Len(batch)
      /\ ~done /\ busy[w] = 0 /\ busy \in [Worker -> {0} \cup DOMAIN batch]
  BY LenProperties DEF TypeOK, Take
<1>b. /\ busy' = [busy EXCEPT ![w] = next] /\ next' = next + 1
      /\ UNCHANGED <<depth, visited, batch, out, pages, fetched, failed, done>>
  BY DEF Take
<1>1. TypeOK'
  BY <1>a, <1>b DEF TypeOK
<1>2. next \in DOMAIN batch /\ out[next] = "none"
  BY <1>a DEF WorkInv
<1>3. \A v \in Worker : v # w /\ busy[v] # 0 => busy[v] < next
  BY DEF WorkInv
<1>4. \A v \in Worker : busy'[v] # 0 => busy'[v] < next' /\ out'[busy'[v]] = "none"
  BY <1>a, <1>b, <1>2 DEF WorkInv
<1>5. \A u, v \in Worker : busy'[u] = busy'[v] /\ busy'[u] # 0 => u = v
  BY <1>a, <1>b, <1>2, <1>3 DEF WorkInv
<1>6. ASSUME NEW i \in DOMAIN batch'
      PROVE  IF i < next' THEN out'[i] # "none" \/ \E v \in Worker : busy'[v] = i
             ELSE out'[i] = "none"
  <2>1. CASE i = next
    BY <1>a, <1>b, <2>1
  <2>2. CASE i < next
    <3>1. ASSUME out[i] = "none" PROVE \E v \in Worker : busy'[v] = i
      <4>1. PICK v \in Worker : busy[v] = i
        BY <1>b, <1>6, <2>2, <3>1 DEF WorkInv
      <4>2. v # w
        BY <1>a, <1>b, <1>6, <4>1
      <4>3. QED
        BY <1>a, <1>b, <4>1, <4>2
    <3>2. i < next'
      BY <1>a, <1>b, <1>6, <2>2
    <3>3. QED
      BY <1>b, <3>1, <3>2
  <2>3. CASE i > next
    BY <1>a, <1>b, <1>6, <2>3 DEF WorkInv
  <2>4. QED
    BY <1>a, <1>b, <1>6, <2>1, <2>2, <2>3
<1>7. QED
  BY <1>a, <1>b, <1>1, <1>4, <1>5, <1>6 DEF WorkInv

\* A worker that comes back leaves a result at its index.
LEMMA FinishWork ==
  ASSUME TypeOK, WorkInv, NEW w \in Worker, Finish(w)
  PROVE  /\ TypeOK' /\ WorkInv' /\ ~done
         /\ busy[w] \in DOMAIN batch /\ out[busy[w]] = "none"
         /\ {i \in DOMAIN batch : out'[i] # "none"}
              = {i \in DOMAIN batch : out[i] # "none"} \cup {busy[w]}
<1>a. /\ DOMAIN batch = 1 .. Len(batch) /\ Len(batch) \in Nat
      /\ busy[w] \in DOMAIN batch /\ out[busy[w]] = "none" /\ ~done
      /\ busy \in [Worker -> {0} \cup DOMAIN batch] /\ fetched \in Nat
      /\ out \in [DOMAIN batch -> {"none", "ok", "failed"}]
  BY LenProperties DEF TypeOK, WorkInv, Finish
<1>b. PICK r \in {"ok", "failed"} : out' = [out EXCEPT ![busy[w]] = r]
  BY DEF Finish
<1>c. /\ fetched' = fetched + 1 /\ busy' = [busy EXCEPT ![w] = 0]
      /\ UNCHANGED <<depth, visited, batch, next, pages, failed, done>>
  BY DEF Finish
<1>1. out' \in [DOMAIN batch -> {"none", "ok", "failed"}] /\ busy' \in [Worker -> {0} \cup DOMAIN batch]
  BY <1>a, <1>b, <1>c
<1>2. TypeOK'
  BY <1>a, <1>c, <1>1 DEF TypeOK
<1>3. out'[busy[w]] # "none" /\ \A i \in DOMAIN batch \ {busy[w]} : out'[i] = out[i]
  BY <1>a, <1>b
<1>4. ASSUME NEW v \in Worker, busy'[v] # 0
      PROVE  v # w /\ busy'[v] = busy[v] /\ busy[v] # busy[w]
             /\ busy[v] \in DOMAIN batch /\ busy[v] < next /\ out[busy[v]] = "none"
  <2>1. v # w /\ busy'[v] = busy[v]
    BY <1>a, <1>c, <1>4
  <2>2. QED
    BY <1>a, <1>4, <2>1 DEF WorkInv
<1>5. \A v \in Worker : busy'[v] # 0 => busy'[v] < next' /\ out'[busy'[v]] = "none"
  BY <1>c, <1>3, <1>4
<1>6. \A u, v \in Worker : busy'[u] = busy'[v] /\ busy'[u] # 0 => u = v
  BY <1>4 DEF WorkInv
<1>7. ASSUME NEW i \in DOMAIN batch'
      PROVE  IF i < next' THEN out'[i] # "none" \/ \E v \in Worker : busy'[v] = i
             ELSE out'[i] = "none"
  <2>1. CASE i = busy[w]
    BY <1>a, <1>c, <1>3, <2>1 DEF WorkInv
  <2>2. CASE i # busy[w]
    <3>1. out'[i] = out[i]
      BY <1>3, <1>7, <1>c, <2>2
    <3>2. \A v \in Worker : busy[v] = i => busy'[v] = i
      BY <1>a, <1>c, <2>2
    <3>3. QED
      BY <1>c, <1>7, <3>1, <3>2 DEF WorkInv
  <2>3. QED
    BY <2>1, <2>2
<1>8. WorkInv'
  BY <1>a, <1>c, <1>5, <1>6, <1>7 DEF WorkInv
<1>9. QED
  BY <1>a, <1>2, <1>3, <1>8

\* The counters and the levels after such a step.
LEMMA WorkersStep ==
  ASSUME CrawlInv, NEW w \in Worker, Take(w) \/ Finish(w)
  PROVE  CrawlInv'
<1>a. TypeOK /\ WorkInv
  BY DEF CrawlInv
<1>b. PICK root \in SUBSET ({Root} \cap Settled) : CountInv(root) /\ LevelInv(root)
  BY DEF CrawlInv
<1>c. UNCHANGED <<depth, visited, batch, pages, failed, done>>
  BY DEF Take, Finish
<1>1. Settled' = Settled
  BY <1>c DEF Settled
<1>2. LevelInv(root)'
  BY <1>b, <1>c, <1>1 DEF LevelInv
<1>3. CASE Take(w)
  <2>1. CountInv(root)'
    BY <1>b, <1>c, <1>1, <1>3 DEF CountInv, Take
  <2>2. QED
    BY <1>a, <1>b, <1>1, <1>2, <1>3, <2>1, TakeWork DEF CrawlInv
<1>4. CASE Finish(w)
  <2> DEFINE back == {i \in DOMAIN batch : out[i] # "none"}
  <2>1. /\ TypeOK' /\ WorkInv' /\ busy[w] \in DOMAIN batch /\ out[busy[w]] = "none"
        /\ {i \in DOMAIN batch : out'[i] # "none"} = back \cup {busy[w]}
    BY <1>a, <1>4, FinishWork
  <2>2. IsFiniteSet(back) /\ Cardinality(back) \in Nat
    <3>1. batch \in Seq(Page) /\ IsInjective(batch)
      BY <1>a DEF TypeOK, WorkInv, IsInjective
    <3>2. back \in SUBSET DOMAIN batch
      OBVIOUS
    <3> HIDE DEF back
    <3>3. QED
      BY <3>1, <3>2, PartCounted
  <2>3. Cardinality(back \cup {busy[w]}) = Cardinality(back) + 1
    BY <2>1, <2>2, FS_AddElement
  <2>4. fetched' = fetched + 1
    BY <1>4 DEF Finish
  <2>5. Cardinality(visited \ ToSet(batch)) \in Nat
    BY <1>b, FS_Difference, FS_CardinalityType DEF CountInv
  <2>6. CountInv(root)'
    <3>1. {i \in DOMAIN batch : out[i] # "none"}' = back \cup {busy[w]}
      BY <1>c, <2>1
    <3>2. (visited \ ToSet(batch))' = visited \ ToSet(batch)
      BY <1>c DEF ToSet
    <3>3. fetched = Cardinality(visited \ ToSet(batch)) + Cardinality(back)
      BY <1>b DEF CountInv
    <3> DEFINE returned == {i \in DOMAIN batch : out[i] # "none"}'
               before == (visited \ ToSet(batch))'
    <3> HIDE DEF back, returned, before
    <3>a. /\ Cardinality(returned) = Cardinality(back) + 1 /\ Cardinality(back) \in Nat
          /\ Cardinality(before) \in Nat /\ fetched = Cardinality(before) + Cardinality(back)
      BY <2>2, <2>3, <2>5, <3>1, <3>2, <3>3 DEF returned, before
    <3>4. fetched' = Cardinality(before) + Cardinality(returned)
      BY <2>4, <3>a
    <3>5. /\ IsFiniteSet(visited') /\ Cardinality(visited') < MaxPages + depth'
          /\ pages' \subseteq Settled' \ {Root}
          /\ failed' = Cardinality(Settled' \ (pages' \cup root))
      BY <1>b, <1>c, <1>1 DEF CountInv
    <3>6. QED
      BY <3>4, <3>5 DEF CountInv, returned, before
  <2>7. QED
    BY <1>b, <1>1, <1>2, <2>1, <2>6 DEF CrawlInv
<1>5. QED
  BY <1>3, <1>4
-----------------------------------------------------------------------------
(***************************************************************************)
(* The end of a level.                                                     *)
(***************************************************************************)
\* When a level ends each of its pages has arrived or is lost.
LEMMA AllBack ==
  ASSUME TypeOK, WorkInv, LevelFetched
  PROVE  /\ \A i \in DOMAIN batch : out[i] \in {"ok", "failed"}
         /\ {i \in DOMAIN batch : out[i] # "none"} = DOMAIN batch
         /\ batch \in Seq(Page) /\ IsInjective(batch) /\ DOMAIN batch = 1 .. Len(batch)
<1>1. /\ batch \in Seq(Page) /\ IsInjective(batch) /\ DOMAIN batch = 1 .. Len(batch)
      /\ Len(batch) \in Nat
  BY LenProperties DEF TypeOK, WorkInv, IsInjective
<1>2. \A i \in DOMAIN batch : i < next /\ (\A w \in Worker : busy[w] # i)
  BY <1>1 DEF LevelFetched, TypeOK
<1>3. \A i \in DOMAIN batch : out[i] # "none"
  BY <1>2 DEF WorkInv
<1>4. \A i \in DOMAIN batch : out[i] \in {"ok", "failed"}
  BY <1>3 DEF TypeOK
<1>5. QED
  BY <1>1, <1>3, <1>4

\* The pages of the level that are lost.
Lost == {batch[i] : i \in {k \in DOMAIN batch : out[k] = "failed"}}

\* Their number is that of the indices marked failed.
LEMMA ArrivedOrLost ==
  ASSUME TypeOK, WorkInv, LevelFetched
  PROVE  /\ ToSet(batch) = Arrived \cup Lost /\ Arrived \cap Lost = {}
         /\ IsFiniteSet(Lost) /\ Cardinality(Lost) \in Nat
         /\ Cardinality(Lost) = Cardinality({i \in DOMAIN batch : out[i] = "failed"})
         /\ Cardinality(ToSet(batch)) = Cardinality({i \in DOMAIN batch : out[i] # "none"})
         /\ IsFiniteSet(ToSet(batch)) /\ ToSet(batch) \subseteq visited
<1> DEFINE I == {k \in DOMAIN batch : out[k] = "failed"}
<1>1. /\ \A i \in DOMAIN batch : out[i] \in {"ok", "failed"}
      /\ {i \in DOMAIN batch : out[i] # "none"} = DOMAIN batch
      /\ batch \in Seq(Page) /\ IsInjective(batch) /\ DOMAIN batch = 1 .. Len(batch)
  BY AllBack
<1>2. ToSet(batch) = Arrived \cup Lost
  BY <1>1 DEF ToSet, Arrived, Lost
<1>3. Arrived \cap Lost = {}
  BY <1>1 DEF Arrived, Lost, IsInjective
<1>4. I \in SUBSET DOMAIN batch /\ Lost = {batch[i] : i \in I}
  BY DEF Lost
<1> HIDE DEF I
<1>5. IsFiniteSet(Lost) /\ Cardinality(Lost) = Cardinality(I) /\ Cardinality(I) \in Nat
  BY <1>1, <1>4, PartCounted
<1>6. IsFiniteSet(ToSet(batch)) /\ Cardinality(ToSet(batch)) = Len(batch) /\ Len(batch) \in Nat
  BY <1>1, ListCounted, LenProperties
<1>7. Cardinality(DOMAIN batch) = Len(batch)
  <2> DEFINE l == Len(batch)
  <2>1. l \in Nat /\ DOMAIN batch = 1 .. l
    BY <1>1, <1>6
  <2> HIDE DEF l
  <2>2. Cardinality(1 .. l) = IF 1 > l THEN 0 ELSE l - 1 + 1
    BY <2>1, FS_Interval
  <2>3. QED
    BY <2>1, <2>2 DEF l
<1>8. QED
  BY <1>1, <1>2, <1>3, <1>5, <1>6, <1>7 DEF I, WorkInv

\* The pages that were looked at when the level has ended are those visited before.
LEMMA SettledAfter ==
  ASSUME TypeOK, WorkInv, IsFiniteSet(visited), EndLevel
  PROVE  /\ Settled' = visited /\ Settled = visited \ ToSet(batch) /\ LevelFetched
         /\ pages' = pages \cup (Arrived \ {Root})
         /\ failed' = failed + Cardinality({i \in DOMAIN batch : out[i] = "failed"})
         /\ fetched' = fetched /\ busy' = busy
         /\ \/ /\ done' /\ UNCHANGED <<depth, visited, batch, next, out>>
               /\ depth = MaxDepth \/ ToSet(Children) \subseteq visited
            \/ /\ ~done' /\ depth' = depth + 1 /\ depth < MaxDepth
               /\ visited' = visited \cup ToSet(batch') /\ next' = 1
               /\ out' = [i \in DOMAIN batch' |-> "none"]
               /\ batch' \in Seq(Page) /\ IsInjective(batch')
               /\ ToSet(batch') \cap visited = {} /\ Len(batch') <= Room(visited)
               /\ Len(batch') < Room(visited) => visited' = visited \cup ToSet(Children)
<1> DEFINE frontier == IF depth < MaxDepth THEN Harvest ELSE << >>
           more == Batch(frontier, visited)
<1>1. /\ LevelFetched /\ fetched' = fetched /\ busy' = busy
      /\ pages' = pages \cup (Arrived \ {Root})
      /\ failed' = failed + Cardinality({i \in DOMAIN batch : out[i] = "failed"})
      /\ IF depth = MaxDepth \/ more = << >>
         THEN done' = TRUE /\ UNCHANGED <<depth, visited, batch, next, out>>
         ELSE /\ depth' = depth + 1 /\ batch' = more /\ visited' = visited \cup ToSet(more)
              /\ next' = 1 /\ out' = [i \in DOMAIN more |-> "none"] /\ UNCHANGED done
  BY DEF EndLevel
<1>2. Children \in Seq(Page)
  BY ChildrenShape DEF TypeOK
<1>3. Harvest \in Seq(Page) /\ ToSet(Harvest) = ToSet(Children) \ visited
  BY <1>2, DistinctShape DEF Harvest
<1>4. ~done /\ depth \in 0 .. MaxDepth /\ MaxDepth \in Nat /\ << >> \in Seq(Page)
  BY <1>1, CrawlAssumption DEF LevelFetched, TypeOK
<1>5. frontier \in Seq(Page) /\ (depth # MaxDepth => frontier = Harvest)
  BY <1>3, <1>4
<1> HIDE DEF frontier
<1>6. /\ more \in Seq(Page) /\ IsInjective(more)
      /\ ToSet(more) \subseteq ToSet(frontier) \ visited
      /\ Len(more) <= Room(visited)
      /\ Len(more) < Room(visited) => ToSet(more) = ToSet(frontier) \ visited
      /\ more = << >> => ToSet(frontier) \subseteq visited
  BY <1>5, BatchShape
<1> HIDE DEF more
<1>7. CASE depth = MaxDepth \/ more = << >>
  <2>1. done' /\ UNCHANGED <<depth, visited, batch, next, out>>
    BY <1>1, <1>7
  <2>2. depth # MaxDepth => ToSet(Children) \subseteq visited
    BY <1>3, <1>5, <1>6, <1>7
  <2>3. Settled' = visited /\ Settled = visited \ ToSet(batch)
    BY <1>4, <2>1 DEF Settled
  <2>4. QED
    BY <1>1, <2>1, <2>2, <2>3
<1>8. CASE ~(depth = MaxDepth \/ more = << >>)
  <2>1. /\ depth' = depth + 1 /\ batch' = more /\ visited' = visited \cup ToSet(more)
        /\ next' = 1 /\ out' = [i \in DOMAIN more |-> "none"] /\ ~done'
    BY <1>1, <1>4, <1>8
  <2>2. depth < MaxDepth /\ frontier = Harvest
    BY <1>4, <1>5, <1>8
  <2>3. ToSet(batch)' = ToSet(more) /\ ToSet(more) \cap visited = {}
    BY <1>6, <2>1 DEF ToSet
  <2>4. Settled' = visited /\ Settled = visited \ ToSet(batch)
    BY <1>4, <2>1, <2>3 DEF Settled
  <2>5. Len(more) < Room(visited) => visited' = visited \cup ToSet(Children)
    BY <1>3, <1>6, <2>1, <2>2
  <2>6. QED
    BY <1>1, <1>6, <2>1, <2>2, <2>3, <2>4, <2>5
<1>9. QED
  BY <1>7, <1>8

\* The next level starts with nobody at work on it.
LEMMA EndWork ==
  ASSUME TypeOK, WorkInv, IsFiniteSet(visited), EndLevel
  PROVE  TypeOK' /\ WorkInv'
<1>a. /\ LevelFetched /\ pages' = pages \cup (Arrived \ {Root}) /\ fetched' = fetched /\ busy' = busy
      /\ failed' = failed + Cardinality({i \in DOMAIN batch : out[i] = "failed"})
      /\ \A w \in Worker : busy[w] = 0
  BY SettledAfter DEF LevelFetched
<1>b. done' \in BOOLEAN
  BY DEF EndLevel, TypeOK
<1>1. pages' \subseteq Page /\ failed' \in Nat
  <2>1. Arrived \subseteq Page
    BY ArrivedOrLost, <1>a DEF TypeOK
  <2>2. Cardinality({i \in DOMAIN batch : out[i] = "failed"}) \in Nat
    BY <1>a, ArrivedOrLost
  <2>3. QED
    BY <1>a, <2>1, <2>2 DEF TypeOK
<1>2. CASE done' /\ UNCHANGED <<depth, visited, batch, next, out>>
  <2>1. TypeOK'
    BY <1>a, <1>1, <1>2 DEF TypeOK
  <2>2. ToSet(batch)' = ToSet(batch)
    BY <1>2 DEF ToSet
  <2>3. WorkInv'
    BY <1>a, <1>2, <2>2 DEF WorkInv, LevelFetched
  <2>4. QED
    BY <2>1, <2>3
<1>3. CASE /\ ~done' /\ depth' = depth + 1 /\ depth < MaxDepth
           /\ visited' = visited \cup ToSet(batch') /\ next' = 1
           /\ out' = [i \in DOMAIN batch' |-> "none"]
           /\ batch' \in Seq(Page) /\ IsInjective(batch')
  <2>1. DOMAIN batch' = 1 .. Len(batch') /\ Len(batch') \in Nat
    BY <1>3, LenProperties
  <2>2. ToSet(batch') \subseteq Page
    BY <1>3, <2>1, ElementOfSeq DEF ToSet
  <2>3. busy' \in [Worker -> {0} \cup DOMAIN batch']
    BY <1>a DEF TypeOK
  <2>4. depth' \in 0 .. MaxDepth /\ done' \in BOOLEAN
    BY <1>b, <1>3, CrawlAssumption DEF TypeOK
  <2>5. out' \in [DOMAIN batch' -> {"none", "ok", "failed"}]
    BY <1>3
  <2>6. TypeOK'
    BY <1>a, <1>1, <1>3, <2>1, <2>2, <2>3, <2>4, <2>5 DEF TypeOK
  <2>7. ToSet(batch)' = ToSet(batch')
    BY DEF ToSet
  <2>8. \A i \in DOMAIN batch' : i >= next' /\ ~(i < next') /\ out'[i] = "none"
    BY <1>3, <2>1
  <2>9. WorkInv'
    BY <1>a, <1>3, <2>7, <2>8 DEF WorkInv, IsInjective
  <2>10. QED
    BY <2>6, <2>9
<1>4. QED
  BY <1>2, <1>3, SettledAfter

\* What the level brought is counted: the pages that arrived, and those that did not.
LEMMA EndCount ==
  ASSUME TypeOK, WorkInv, NEW root \in SUBSET ({Root} \cap Settled), CountInv(root), EndLevel,
         NEW more, more = root \cup (Arrived \cap {Root})
  PROVE  more \in SUBSET ({Root} \cap Settled') /\ CountInv(more)'
<1>a. /\ Settled' = visited /\ Settled = visited \ ToSet(batch) /\ LevelFetched
      /\ pages' = pages \cup (Arrived \ {Root})
      /\ failed' = failed + Cardinality({i \in DOMAIN batch : out[i] = "failed"})
      /\ fetched' = fetched /\ IsFiniteSet(visited)
  BY SettledAfter DEF CountInv
<1>b. /\ ToSet(batch) = Arrived \cup Lost /\ Arrived \cap Lost = {}
      /\ IsFiniteSet(Lost) /\ Cardinality(Lost) \in Nat
      /\ Cardinality(Lost) = Cardinality({i \in DOMAIN batch : out[i] = "failed"})
      /\ Cardinality(ToSet(batch)) = Cardinality({i \in DOMAIN batch : out[i] # "none"})
      /\ IsFiniteSet(ToSet(batch)) /\ ToSet(batch) \subseteq visited
  BY <1>a, ArrivedOrLost
<1>1. more \in SUBSET ({Root} \cap Settled')
  BY <1>a, <1>b
<1>2. pages' \subseteq Settled' \ {Root}
  BY <1>a, <1>b DEF CountInv
<1>3. failed' = Cardinality(Settled' \ (pages' \cup more))
  <2> DEFINE before == Settled \ (pages \cup root)
  <2>1. failed = Cardinality(before)
    BY DEF CountInv
  <2>2. Settled' \ (pages' \cup more) = before \cup Lost
    <3>1. pages' \cup more = (pages \cup root) \cup Arrived
      BY <1>a
    <3>2. pages \cup root \subseteq visited \ ToSet(batch)
      BY <1>a DEF CountInv
    <3>3. QED
      BY <1>a, <1>b, <3>1, <3>2
  <2>3. before \cap Lost = {}
    BY <1>a, <1>b
  <2>4. before \in SUBSET visited
    BY <1>a
  <2> HIDE DEF before
  <2>5. IsFiniteSet(before) /\ Cardinality(before) \in Nat
    BY <1>a, <2>4, FS_Subset, FS_CardinalityType
  <2>6. Cardinality(before \cup Lost) = Cardinality(before) + Cardinality(Lost) - Cardinality(before \cap Lost)
    BY <1>b, <2>5, FS_Union
  <2>7. Cardinality(before \cap Lost) = 0
    BY <2>3, FS_EmptySet
  <2>8. failed' = Cardinality(before) + Cardinality(Lost)
    BY <1>a, <1>b, <2>1
  <2>9. Cardinality(before \cup Lost) = Cardinality(before) + Cardinality(Lost)
    BY <1>b, <2>5, <2>6, <2>7
  <2>10. QED
    BY <2>2, <2>8, <2>9
<1>4. /\ fetched = Cardinality(visited) /\ Cardinality(visited) \in Nat
      /\ Cardinality(visited) < MaxPages + depth
  <2>1. /\ fetched = Cardinality(visited \ ToSet(batch)) + Cardinality(ToSet(batch))
        /\ Cardinality(visited) < MaxPages + depth
    BY <1>b DEF CountInv
  <2>2. visited \cap ToSet(batch) = ToSet(batch)
    BY <1>b
  <2>3. Cardinality(visited \ ToSet(batch)) = Cardinality(visited) - Cardinality(ToSet(batch))
    BY <1>a, <2>2, FS_Difference
  <2>4. Cardinality(visited) \in Nat /\ Cardinality(ToSet(batch)) \in Nat
    BY <1>a, <1>b, FS_CardinalityType
  <2>5. QED
    BY <2>1, <2>3, <2>4
<1>5. CASE done' /\ UNCHANGED <<depth, visited, batch, next, out>>
  <2>1. ToSet(batch)' = ToSet(batch)
    BY <1>5 DEF ToSet
  <2>2. /\ IsFiniteSet(visited') /\ Cardinality(visited') < MaxPages + depth'
        /\ fetched' = Cardinality(visited' \ ToSet(batch)')
                      + Cardinality({i \in DOMAIN batch' : out'[i] # "none"})
    BY <1>a, <1>5, <2>1 DEF CountInv
  <2>3. QED
    BY <1>1, <1>2, <1>3, <2>2 DEF CountInv
<1>6. CASE /\ ~done' /\ depth' = depth + 1
           /\ visited' = visited \cup ToSet(batch')
           /\ out' = [i \in DOMAIN batch' |-> "none"]
           /\ batch' \in Seq(Page) /\ IsInjective(batch')
           /\ ToSet(batch') \cap visited = {} /\ Len(batch') <= Room(visited)
  <2>1. ToSet(batch)' = ToSet(batch')
    BY DEF ToSet
  <2>2. IsFiniteSet(ToSet(batch')) /\ Cardinality(ToSet(batch')) = Len(batch') /\ Len(batch') \in Nat
    BY <1>6, ListCounted, LenProperties
  <2>3. IsFiniteSet(visited') /\ Cardinality(visited') = Cardinality(visited) + Len(batch')
    <3>1. /\ IsFiniteSet(visited \cup ToSet(batch'))
          /\ Cardinality(visited \cup ToSet(batch'))
               = Cardinality(visited) + Cardinality(ToSet(batch')) - Cardinality(visited \cap ToSet(batch'))
      BY <1>a, <2>2, FS_Union
    <3>2. Cardinality(visited \cap ToSet(batch')) = 0
      BY <1>6, FS_EmptySet
    <3>3. QED
      BY <1>4, <1>6, <2>2, <3>1, <3>2
  <2>4. Cardinality(visited') < MaxPages + depth'
    <3>1. depth \in Nat /\ MaxPages \in Nat /\ depth' = depth + 1
      BY <1>6, CrawlAssumption DEF TypeOK
    <3>2. CASE Cardinality(visited) < MaxPages
      <4>1. Len(batch') <= MaxPages - Cardinality(visited)
        BY <1>6, <3>2 DEF Room
      <4>2. QED
        BY <1>4, <2>2, <2>3, <3>1, <4>1
    <3>3. CASE ~(Cardinality(visited) < MaxPages)
      <4>1. Len(batch') <= 1
        BY <1>6, <3>3 DEF Room
      <4>2. QED
        BY <1>4, <2>2, <2>3, <3>1, <4>1
    <3>4. QED
      BY <3>2, <3>3
  <2> DEFINE back == {i \in DOMAIN batch' : out'[i] # "none"}
  <2>5. back = {} /\ visited' \ ToSet(batch)' = visited
    BY <1>6, <2>1
  <2> HIDE DEF back
  <2>6. fetched' = Cardinality(visited' \ ToSet(batch)') + Cardinality(back)
    <3>1. Cardinality(back) = 0
      BY <2>5, FS_EmptySet
    <3>2. QED
      BY <1>a, <1>4, <2>5, <3>1
  <2>7. QED
    BY <1>1, <1>2, <1>3, <2>3, <2>4, <2>6 DEF CountInv, back
<1>7. QED
  BY <1>5, <1>6, SettledAfter, <1>a

\* Below the cap the pages of the next level are those one hop further.
LEMMA EndLevels ==
  ASSUME TypeOK, WorkInv, NEW root \in SUBSET ({Root} \cap Settled),
         CountInv(root), LevelInv(root), EndLevel,
         NEW more, more = root \cup (Arrived \cap {Root}), CountInv(more)'
  PROVE  LevelInv(more)'
<1> DEFINE ok == pages \cup root
           okNow == pages' \cup more
           R == WithinHops(ok)
           Q == WithinHops(okNow)
           Before == IF depth = 0 THEN {} ELSE R[depth - 1]
<1>a. /\ Settled' = visited /\ Settled = visited \ ToSet(batch) /\ LevelFetched
      /\ pages' = pages \cup (Arrived \ {Root})
      /\ IsFiniteSet(visited) /\ IsFiniteSet(visited')
  BY SettledAfter DEF CountInv
<1>b. Arrived \subseteq ToSet(batch) /\ ToSet(batch) \subseteq visited
  BY <1>a, ArrivedOrLost
<1>c. okNow = ok \cup Arrived /\ ok \subseteq Settled /\ ok \cap Arrived = {}
  <2>1. okNow = ok \cup Arrived
    BY <1>a
  <2>2. ok \subseteq Settled
    BY DEF CountInv
  <2>3. QED
    BY <1>a, <1>b, <2>1, <2>2
<1>d. Hops(R, ok) /\ Hops(Q, okNow)
  BY HopsUnfold
<1>e. depth \in 0 .. MaxDepth /\ MaxDepth \in Nat /\ ~done
  BY <1>a, CrawlAssumption DEF TypeOK, LevelFetched
<1>f. ToSet(Children) = UNION {ToSet(Links[p]) : p \in Arrived}
  BY ChildrenShape DEF TypeOK
<1> SUFFICES ASSUME Cardinality(visited') < MaxPages
             PROVE  IF done' THEN visited' = Q[MaxDepth]
                    ELSE /\ visited' = Q[depth']
                         /\ Settled' = IF depth' = 0 THEN {} ELSE Q[depth' - 1]
  BY DEF LevelInv
<1>1. Cardinality(visited) \in Nat /\ Cardinality(visited') \in Nat /\ Cardinality(visited) <= Cardinality(visited')
  <2>1. visited \in SUBSET visited'
    BY SettledAfter, <1>a
  <2>2. QED
    BY <1>a, <2>1, FS_Subset, FS_CardinalityType
<1>2. visited = R[depth] /\ Settled = Before
  <2>1. Cardinality(visited) < MaxPages
    BY <1>1, CrawlAssumption
  <2>2. QED
    BY <1>e, <2>1 DEF LevelInv
<1> HIDE DEF ok, okNow, R, Q
\* What is known of the levels before does not change.
<1>3. \A e \in 0 .. depth : Q[e] = R[e]
  <2>1. depth > 0 => R[depth - 1] \cap ok = R[depth - 1] \cap okNow
    <3>1. ASSUME depth > 0 PROVE R[depth - 1] \cap Arrived = {}
      BY <1>a, <1>b, <1>e, <1>2, <3>1
    <3>2. QED
      BY <1>c, <3>1
  <2>2. SameUpTo(Q, R, depth)
    BY <1>d, <1>e, <2>1, HopsAgree
  <2>3. QED
    BY <2>2 DEF SameUpTo
<1>4. visited = Q[depth]
  BY <1>e, <1>2, <1>3
\* The links of the pages known before lead to pages of this level at most.
<1>5. UNION {ToSet(Links[p]) : p \in visited \cap ok} \subseteq visited
  <2>1. CASE depth = 0
    <3>1. visited \cap ok = {}
      BY <1>c, <1>2, <2>1
    <3>2. QED
      BY <3>1
  <2>2. CASE depth > 0
    <3>1. depth \in 1 .. MaxDepth /\ Settled = R[depth - 1]
      BY <1>e, <1>2, <2>2
    <3>2. R[depth] = R[depth - 1] \cup UNION {ToSet(Links[p]) : p \in R[depth - 1] \cap ok}
      BY <1>d, <3>1 DEF Hops
    <3>3. visited \cap ok = R[depth - 1] \cap ok
      BY <1>a, <1>c, <3>1
    <3>4. QED
      BY <1>2, <3>2, <3>3
  <2>3. QED
    BY <1>e, <2>1, <2>2
<1>6. visited \cup UNION {ToSet(Links[p]) : p \in visited \cap okNow} = visited \cup ToSet(Children)
  <2>1. visited \cap okNow = (visited \cap ok) \cup Arrived
    BY <1>b, <1>c
  <2> DEFINE Out(S) == UNION {ToSet(Links[p]) : p \in S}
  <2>2. \A S, T : Out(S \cup T) = Out(S) \cup Out(T)
    OBVIOUS
  <2>3. Out(Arrived) = ToSet(Children) /\ Out(visited \cap ok) \subseteq visited
    BY <1>5, <1>f
  <2> HIDE DEF Out
  <2>4. Out(visited \cap okNow) = Out(visited \cap ok) \cup ToSet(Children)
    BY <2>1, <2>2, <2>3
  <2>5. visited \cup Out(visited \cap okNow) = visited \cup ToSet(Children)
    BY <2>3, <2>4
  <2>6. QED
    BY <2>5 DEF Out
<1>7. CASE /\ done' /\ UNCHANGED <<depth, visited, batch, next, out>>
           /\ depth = MaxDepth \/ ToSet(Children) \subseteq visited
  <2>1. CASE depth = MaxDepth
    BY <1>4, <1>7, <2>1
  <2>2. CASE ToSet(Children) \subseteq visited
    <3>1. UNION {ToSet(Links[p]) : p \in Q[depth] \cap okNow} \subseteq Q[depth]
      BY <1>4, <1>6, <2>2
    <3>2. Q[MaxDepth] = Q[depth]
      BY <1>d, <1>e, <3>1, HopsClosed
    <3>3. QED
      BY <1>4, <1>7, <3>2
  <2>3. QED
    BY <1>7, <2>1, <2>2
<1>8. CASE /\ ~done' /\ depth' = depth + 1 /\ depth < MaxDepth
           /\ visited' = visited \cup ToSet(batch')
           /\ batch' \in Seq(Page) /\ IsInjective(batch')
           /\ ToSet(batch') \cap visited = {} /\ Len(batch') <= Room(visited)
           /\ Len(batch') < Room(visited) => visited' = visited \cup ToSet(Children)
  <2>1. IsFiniteSet(ToSet(batch')) /\ Cardinality(ToSet(batch')) = Len(batch') /\ Len(batch') \in Nat
    BY <1>8, ListCounted, LenProperties
  <2>2. Cardinality(visited') = Cardinality(visited) + Len(batch')
    <3>1. Cardinality(visited \cup ToSet(batch'))
            = Cardinality(visited) + Cardinality(ToSet(batch')) - Cardinality(visited \cap ToSet(batch'))
      BY <1>a, <2>1, FS_Union
    <3>2. Cardinality(visited \cap ToSet(batch')) = 0
      BY <1>8, FS_EmptySet
    <3>3. QED
      BY <1>1, <1>8, <2>1, <3>1, <3>2
  <2>3. Len(batch') < Room(visited)
    BY <1>1, <2>1, <2>2, CrawlAssumption DEF Room
  <2>4. depth + 1 \in 1 .. MaxDepth /\ depth + 1 - 1 = depth /\ depth' # 0 /\ depth' - 1 = depth
    BY <1>e, <1>8
  <2>5. Q[depth + 1] = Q[depth] \cup UNION {ToSet(Links[p]) : p \in Q[depth] \cap okNow}
    <3>1. PICK d : d = depth + 1
      OBVIOUS
    <3>2. d \in 1 .. MaxDepth /\ d - 1 = depth
      BY <1>e, <1>8, <3>1
    <3>3. Q[d] = Q[d - 1] \cup UNION {ToSet(Links[p]) : p \in Q[d - 1] \cap okNow}
      BY <1>d, <3>2 DEF Hops
    <3>4. QED
      BY <3>1, <3>2, <3>3
  <2>6. visited' = Q[depth']
    BY <1>4, <1>6, <1>8, <2>3, <2>5
  <2>7. QED
    BY <1>a, <1>4, <1>8, <2>4, <2>6
<1>9. QED
  BY <1>7, <1>8, SettledAfter, <1>a
-----------------------------------------------------------------------------
(***************************************************************************)
(* The crawl.                                                              *)
(***************************************************************************)
\* The first batch is the seeds, or as many of them as the cap allows.
LEMMA CrawlStarts ==
  ASSUME Init
  PROVE  CrawlInv
<1>1. Seeds \in Seq(Page) /\ IsFiniteSet({}) /\ Cardinality({}) = 0 /\ MaxPages \in Nat \ {0} /\ MaxDepth \in Nat
  BY CrawlAssumption, FS_EmptySet
<1>2. Room({}) = MaxPages
  BY <1>1 DEF Room
<1>3. /\ batch \in Seq(Page) /\ IsInjective(batch) /\ Len(batch) <= MaxPages
      /\ ToSet(batch) \subseteq ToSet(Seeds)
      /\ Len(batch) < MaxPages => ToSet(batch) = ToSet(Seeds)
  <2> DEFINE b == Batch(Seeds, {})
  <2>1. batch = b
    BY DEF Init
  <2>2. /\ b \in Seq(Page) /\ IsInjective(b) /\ Len(b) <= Room({})
        /\ ToSet(b) \subseteq ToSet(Seeds) \ {}
        /\ Len(b) < Room({}) => ToSet(b) = ToSet(Seeds) \ {}
    BY <1>1, BatchShape
  <2>3. ToSet(Seeds) \ {} = ToSet(Seeds)
    OBVIOUS
  <2> HIDE DEF b
  <2>4. QED
    BY <1>2, <2>1, <2>2, <2>3
<1>4. /\ depth = 0 /\ visited = ToSet(batch) /\ next = 1 /\ busy = [w \in Worker |-> 0]
      /\ out = [i \in DOMAIN batch |-> "none"] /\ pages = {} /\ fetched = 0 /\ failed = 0 /\ ~done
  BY DEF Init
<1>5. /\ DOMAIN batch = 1 .. Len(batch) /\ Len(batch) \in Nat
      /\ IsFiniteSet(ToSet(batch)) /\ Cardinality(ToSet(batch)) = Len(batch) /\ ToSet(batch) \subseteq Page
  <2>1. DOMAIN batch = 1 .. Len(batch) /\ Len(batch) \in Nat
    BY <1>3, LenProperties
  <2>2. ToSet(batch) \subseteq Page
    BY <1>3, <2>1, ElementOfSeq DEF ToSet
  <2>3. QED
    BY <1>3, <2>1, <2>2, ListCounted
<1>6. TypeOK
  <2>1. depth \in 0 .. MaxDepth /\ next \in 1 .. Len(batch) + 1
    BY <1>1, <1>4, <1>5
  <2>2. visited \subseteq Page /\ pages \subseteq Page
    BY <1>4, <1>5
  <2>3. busy \in [Worker -> {0} \cup DOMAIN batch] /\ out \in [DOMAIN batch -> {"none", "ok", "failed"}]
    BY <1>4
  <2>4. fetched \in Nat /\ failed \in Nat /\ done \in BOOLEAN
    BY DEF Init
  <2>5. QED
    BY <1>3, <2>1, <2>2, <2>3, <2>4 DEF TypeOK
<1>7. WorkInv
  <2>1. \A i \in DOMAIN batch : ~(i < next) /\ out[i] = "none"
    BY <1>4, <1>5
  <2>2. QED
    BY <1>3, <1>4, <2>1 DEF WorkInv, IsInjective
<1>8. Settled = {}
  BY <1>4 DEF Settled
<1>9. CountInv({})
  <2> DEFINE back == {i \in DOMAIN batch : out[i] # "none"}
  <2>1. back = {} /\ visited \ ToSet(batch) = {}
    BY <1>4
  <2> HIDE DEF back
  <2>2. fetched = Cardinality(visited \ ToSet(batch)) + Cardinality(back)
    <3>1. Cardinality(back) = 0 /\ Cardinality(visited \ ToSet(batch)) = 0
      BY <1>1, <2>1
    <3>2. QED
      BY <1>4, <3>1
  <2>3. Settled \ (pages \cup {}) = {}
    BY <1>8
  <2>4. failed = Cardinality(Settled \ (pages \cup {}))
    BY <1>1, <1>4, <2>3
  <2>5. IsFiniteSet(visited) /\ Cardinality(visited) < MaxPages + depth
    <3>1. IsFiniteSet(visited) /\ visited \subseteq ToSet(Seeds)
      BY <1>3, <1>4, <1>5
    <3>2. IsFiniteSet(ToSet(Seeds))
      <4>1. PICK s \in Seq(Page) : IsInjective(s) /\ ToSet(s) = ToSet(Seeds) \ {}
        BY <1>1, DistinctShape
      <4>2. IsFiniteSet(ToSet(s))
        BY <4>1, ListCounted
      <4>3. QED
        BY <4>1, <4>2
    <3>3. /\ Cardinality(visited) <= Cardinality(ToSet(Seeds))
          /\ Cardinality(visited) \in Nat /\ Cardinality(ToSet(Seeds)) \in Nat
      BY <3>1, <3>2, FS_Subset, FS_CardinalityType
    <3>4. QED
      BY <1>1, <1>4, <3>1, <3>3, CrawlAssumption
  <2>6. pages \subseteq Settled \ {Root}
    BY <1>4
  <2>7. QED
    BY <2>2, <2>4, <2>5, <2>6 DEF CountInv, back
<1>10. LevelInv({})
  <2>1. WithinHops(pages \cup {})[0] = ToSet(Seeds)
    BY HopsUnfold DEF Hops
  <2>2. Cardinality(visited) < MaxPages => visited = ToSet(Seeds)
    BY <1>3, <1>4, <1>5
  <2>3. QED
    BY <1>4, <1>8, <2>1, <2>2 DEF LevelInv
<1>11. QED
  BY <1>6, <1>7, <1>9, <1>10 DEF CrawlInv

\* And so it goes on.
LEMMA CrawlStep ==
  ASSUME CrawlInv, [Next]_vars
  PROVE  CrawlInv'
<1>a. TypeOK /\ WorkInv
  BY DEF CrawlInv
<1>1. CASE EndLevel
  <2>1. PICK root \in SUBSET ({Root} \cap Settled) : CountInv(root) /\ LevelInv(root)
    BY DEF CrawlInv
  <2>2. PICK more : more = root \cup (Arrived \cap {Root})
    OBVIOUS
  <2>3. TypeOK' /\ WorkInv'
    BY <1>a, <1>1, <2>1, EndWork DEF CountInv
  <2>4. more \in SUBSET ({Root} \cap Settled') /\ CountInv(more)'
    BY <1>a, <1>1, <2>1, <2>2, EndCount
  <2>5. LevelInv(more)'
    BY <1>a, <1>1, <2>1, <2>2, <2>4, EndLevels
  <2>6. QED
    BY <2>3, <2>4, <2>5 DEF CrawlInv
<1>2. CASE \E w \in Worker : Take(w) \/ Finish(w)
  BY <1>2, WorkersStep
<1>3. CASE UNCHANGED vars
  <2>1. PICK root \in SUBSET ({Root} \cap Settled) : CountInv(root) /\ LevelInv(root)
    BY DEF CrawlInv
  <2>2. TypeOK' /\ Settled' = Settled /\ ToSet(batch)' = ToSet(batch)
    BY <1>a, <1>3 DEF vars, TypeOK, Settled, ToSet
  <2>3. WorkInv'
    BY <1>a, <1>3, <2>2 DEF vars, WorkInv
  <2>4. CountInv(root)' /\ LevelInv(root)'
    BY <1>3, <2>1, <2>2 DEF vars, CountInv, LevelInv
  <2>5. QED
    BY <2>1, <2>2, <2>3, <2>4 DEF CrawlInv
<1>4. QED
  BY <1>1, <1>2, <1>3 DEF Next

\* At the end the pages that are neither returned nor counted as failed are root's.
LEMMA DoneCounts ==
  ASSUME CrawlInv, done, NEW root \in SUBSET ({Root} \cap Settled), CountInv(root)
  PROVE  /\ fetched = Cardinality(visited) /\ Cardinality(visited) \in Nat
         /\ Cardinality(root) \in {0, 1} /\ (Cardinality(root) = 0 <=> root = {})
         /\ Cardinality(pages) + failed = fetched - Cardinality(root)
<1>a. TypeOK /\ WorkInv /\ Settled = visited /\ IsFiniteSet(visited)
  BY DEF CrawlInv, CountInv, Settled
<1>1. Cardinality(visited) \in Nat
  BY <1>a, FS_CardinalityType
<1>2. root = {} \/ root = {Root}
  OBVIOUS
<1>3. IsFiniteSet(root) /\ Cardinality(root) \in {0, 1} /\ (Cardinality(root) = 0 <=> root = {})
  <2>1. CASE root = {}
    BY <2>1, FS_EmptySet
  <2>2. CASE root = {Root}
    <3>1. IsFiniteSet(root) /\ Cardinality(root) = 1
      BY <2>2, FS_Singleton
    <3>2. QED
      BY <2>2, <3>1
  <2>3. QED
    BY <1>2, <2>1, <2>2
<1>4. {i \in DOMAIN batch : out[i] # "none"} = DOMAIN batch
  <2>1. DOMAIN batch = 1 .. Len(batch) /\ Len(batch) \in Nat
    BY <1>a, LenProperties DEF TypeOK
  <2>2. \A i \in DOMAIN batch : i < next /\ (\A w \in Worker : busy[w] # i)
    BY <1>a, <2>1 DEF WorkInv, TypeOK
  <2>3. QED
    BY <1>a, <2>2 DEF WorkInv
<1>5. Cardinality(DOMAIN batch) = Cardinality(ToSet(batch)) /\ IsFiniteSet(ToSet(batch))
  <2> DEFINE I == DOMAIN batch
  <2>1. batch \in Seq(Page) /\ IsInjective(batch) /\ I \in SUBSET DOMAIN batch
    BY <1>a DEF TypeOK, WorkInv, IsInjective
  <2> HIDE DEF I
  <2>2. IsFiniteSet({batch[i] : i \in I}) /\ Cardinality({batch[i] : i \in I}) = Cardinality(I)
    BY <2>1, PartCounted
  <2>3. QED
    BY <2>2 DEF I, ToSet
<1>6. fetched = Cardinality(visited)
  <2>1. fetched = Cardinality(visited \ ToSet(batch)) + Cardinality(ToSet(batch))
    BY <1>4, <1>5 DEF CountInv
  <2>2. visited \cap ToSet(batch) = ToSet(batch)
    BY <1>a DEF WorkInv
  <2>3. Cardinality(visited \ ToSet(batch)) = Cardinality(visited) - Cardinality(ToSet(batch))
    BY <1>a, <2>2, FS_Difference
  <2>4. Cardinality(ToSet(batch)) \in Nat
    BY <1>5, FS_CardinalityType
  <2>5. QED
    BY <1>1, <2>1, <2>3, <2>4
<1>7. Cardinality(pages) + failed = Cardinality(visited) - Cardinality(root)
  <2>1. pages \subseteq visited \ {Root} /\ failed = Cardinality(visited \ (pages \cup root))
    BY <1>a DEF CountInv
  <2>2. pages \cap root = {} /\ pages \cup root \subseteq visited
    BY <1>a, <2>1
  <2>3. IsFiniteSet(pages) /\ Cardinality(pages) \in Nat
    BY <1>a, <2>1, FS_Subset, FS_CardinalityType
  <2>4. Cardinality(pages \cup root) = Cardinality(pages) + Cardinality(root)
    <3>1. Cardinality(pages \cup root) = Cardinality(pages) + Cardinality(root) - Cardinality(pages \cap root)
      BY <1>3, <2>3, FS_Union
    <3>2. Cardinality(pages \cap root) = 0
      BY <2>2, FS_EmptySet
    <3>3. QED
      BY <1>3, <2>3, <3>1, <3>2
  <2>5. visited \cap (pages \cup root) = pages \cup root
    BY <2>2
  <2>6. Cardinality(visited \ (pages \cup root)) = Cardinality(visited) - Cardinality(pages \cup root)
    <3> DEFINE known == pages \cup root
    <3>1. visited \cap known = known
      BY <2>5
    <3> HIDE DEF known
    <3>2. Cardinality(visited \ known) = Cardinality(visited) - Cardinality(visited \cap known)
      BY <1>a, FS_Difference
    <3>3. QED
      BY <3>1, <3>2 DEF known
  <2>7. QED
    BY <1>1, <1>3, <2>1, <2>3, <2>4, <2>6
<1>8. QED
  BY <1>1, <1>3, <1>6, <1>7

\* mapLimit takes every page of a level once, and crawlKbDocs counts each once and
\* goes on level by level, for any site, any number of workers and any cap.
THEOREM CrawlInvariant == Spec => []CrawlInv
<1>1. QED
  BY CrawlStarts, CrawlStep, PTL DEF Spec

\* The summary of `docs reindex` adds up.
THEOREM SummaryAddsUp == Spec => []Accounted
<1>1. CrawlInv => Accounted
  <2> SUFFICES ASSUME CrawlInv, done
               PROVE  /\ fetched = Cardinality(visited)
                      /\ Cardinality(pages) + failed \in {fetched - 1, fetched}
    BY DEF Accounted
  <2>1. PICK root \in SUBSET ({Root} \cap Settled) : CountInv(root)
    BY DEF CrawlInv
  <2>2. /\ fetched = Cardinality(visited) /\ Cardinality(visited) \in Nat /\ Cardinality(root) \in {0, 1}
        /\ Cardinality(pages) + failed = fetched - Cardinality(root)
    BY <2>1, DoneCounts
  <2>3. QED
    BY <2>2
<1>2. QED
  BY <1>1, CrawlInvariant, PTL

\* A crawl that stays below CRAWL_MAX_PAGES has every page within CRAWL_MAX_DEPTH
\* hops over pages that could be fetched, whatever the order of the answers.
THEOREM BelowTheCapNothingIsMissed == Spec => []Complete
<1>1. CrawlInv => Complete
  <2> SUFFICES ASSUME CrawlInv, done, Cardinality(visited) < MaxPages
               PROVE  visited = ReachOver(IF fetched > Cardinality(pages) + failed
                                          THEN pages \cup {Root} ELSE pages)
    BY DEF Complete
  <2>1. PICK root \in SUBSET ({Root} \cap Settled) : CountInv(root) /\ LevelInv(root)
    BY DEF CrawlInv
  <2>2. /\ fetched = Cardinality(visited) /\ Cardinality(visited) \in Nat /\ Cardinality(root) \in {0, 1}
        /\ Cardinality(pages) + failed = fetched - Cardinality(root)
        /\ Cardinality(root) = 0 <=> root = {}
    BY <2>1, DoneCounts
  <2>3. visited = ReachOver(pages \cup root)
    BY <2>1 DEF LevelInv, ReachOver
  <2>4. fetched > Cardinality(pages) + failed <=> Cardinality(root) = 1
    BY <2>2
  <2>5. root = IF fetched > Cardinality(pages) + failed THEN {Root} ELSE {}
    BY <2>1, <2>2, <2>4
  <2>6. QED
    BY <2>3, <2>5
<1>2. QED
  BY <1>1, CrawlInvariant, PTL

\* A crawl stays below CRAWL_MAX_PAGES at its first level, within it at the second, and
\* each level further takes at most one page over it.
THEOREM CapIsNear == Spec => []NearCap
<1>1. CrawlInv => NearCap
  BY DEF CrawlInv, CountInv, NearCap
<1>2. QED
  BY <1>1, CrawlInvariant, PTL
=============================================================================

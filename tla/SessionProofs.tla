---------------------------- MODULE SessionProofs ----------------------------
(***************************************************************************)
(* Theorems about Ask and Session, for any processes, shells, models, jobs,*)
(* ports and knowledge: what a search finds and an answer rests on, and    *)
(* what config.json, the model object and the endpoint file say of each    *)
(* other. To the latter the steps of the front ends are of six kinds       *)
(* (Effect); to the former they leave the question, the search and the     *)
(* answer of one process sound (Turns), or do not touch them.              *)
(***************************************************************************)
EXTENDS Session, WellFoundedInduction, SequenceTheorems, FiniteSetTheorems, TLAPS

(***************************************************************************)
(* Bounded induction, and functions defined by recursion. The library      *)
(* states induction for operators; these are about a set and a function,   *)
(* and rest on its theorem that < is well-founded.                         *)
(***************************************************************************)
\* A set of naturals that is not empty has a least element.
LEMMA LeastNat ==
  ASSUME NEW T, T \subseteq Nat, T # {}
  PROVE  \E n \in T : \A m \in T : n <= m
<1>1. PICK n \in T : \A m \in T : ~(<<m, n>> \in OpToRel(<, Nat))
  BY NatLessThanWellFounded, WFMin
<1>2. \A m \in T : ~(m < n)
  BY <1>1 DEF OpToRel
<1>3. QED
  BY <1>2

\* A set that holds 0 and the successor of each of its members holds all up to L.
LEMMA UpTo ==
  ASSUME NEW L \in Nat, NEW T,
         0 \in T, \A n \in 0 .. L - 1 : n \in T => n + 1 \in T
  PROVE  0 .. L \subseteq T
<1> SUFFICES ASSUME ~(0 .. L \subseteq T) PROVE FALSE
  OBVIOUS
<1> DEFINE U == (0 .. L) \ T
<1>1. PICK n \in U : \A m \in U : n <= m
  <2>1. U \subseteq Nat /\ U # {}
    OBVIOUS
  <2>2. QED
    BY <2>1, LeastNat
<1>2. n # 0 /\ n - 1 \in 0 .. L - 1
  BY <1>1
<1>3. n - 1 \in T
  BY <1>1, <1>2
<1>4. QED
  BY <1>1, <1>2, <1>3

\* f maps 0 .. L to S by recursion: base at 0, a step from each to the next.
Follows(f, L, S, base, step) ==
    f \in [0 .. L -> S] /\ f[0] = base /\ \A n \in 1 .. L : f[n] = step[n][f[n - 1]]

\* Recursion: a first value and a step for each number define a function.
LEMMA Recursion ==
  ASSUME NEW L \in Nat, NEW S, NEW base \in S, NEW step \in [1 .. L -> [S -> S]]
  PROVE  \E f : Follows(f, L, S, base, step)
<1> DEFINE Runs(f, m) == f[0] = base /\ \A n \in 1 .. m : f[n] = step[n][f[n - 1]]
           T == {m \in 0 .. L : \E f \in [0 .. L -> S] : Runs(f, m)}
<1>1. 0 \in T
  <2> DEFINE f == [i \in 0 .. L |-> base]
  <2>1. f \in [0 .. L -> S] /\ f[0] = base
    OBVIOUS
  <2>2. 1 .. 0 = {}
    OBVIOUS
  <2> HIDE DEF f
  <2>3. Runs(f, 0)
    BY <2>1, <2>2
  <2>4. QED
    BY <2>1, <2>3
<1>2. ASSUME NEW m \in 0 .. L - 1, m \in T PROVE m + 1 \in T
  <2>1. PICK f \in [0 .. L -> S] : Runs(f, m)
    BY <1>2
  <2> DEFINE g == [f EXCEPT ![m + 1] = step[m + 1][f[m]]]
  <2>2. m + 1 \in 0 .. L /\ m + 1 \in 1 .. L /\ f[m] \in S
    BY <1>2
  <2>3. step[m + 1][f[m]] \in S
    BY <2>2
  <2>4. g \in [0 .. L -> S] /\ \A n \in 0 .. m : g[n] = f[n]
    BY <2>2, <2>3
  <2>5. g[m + 1] = step[m + 1][f[m]]
    BY <2>2
  <2> HIDE DEF g
  <2>6. Runs(g, m + 1)
    <3>1. g[0] = base
      BY <2>1, <2>4
    <3>2. ASSUME NEW n \in 1 .. m + 1 PROVE g[n] = step[n][g[n - 1]]
      <4>1. CASE n = m + 1
        BY <2>4, <2>5, <4>1
      <4>2. CASE n # m + 1
        <5>1. n \in 1 .. m /\ n - 1 \in 0 .. m /\ n \in 0 .. m
          BY <4>2
        <5>2. QED
          BY <5>1, <2>1, <2>4
      <4>3. QED
        BY <4>1, <4>2
    <3>3. QED
      BY <3>1, <3>2
  <2>7. QED
    BY <2>2, <2>4, <2>6
<1>3. L \in T
  <2> HIDE DEF T
  <2>1. 0 .. L \subseteq T
    BY <1>1, <1>2, UpTo
  <2>2. QED
    BY <2>1
<1>4. QED
  BY <1>3 DEF Follows
-----------------------------------------------------------------------------
(***************************************************************************)
(* Lists of passages and of sources.                                       *)
(***************************************************************************)
\* The elements of a list of S are in S.
LEMMA RangeIn ==
  ASSUME NEW S, NEW s \in Seq(S)
  PROVE  Range(s) \subseteq S /\ (Range(s) = {} <=> s = <<>>)
<1>1. DOMAIN s = 1 .. Len(s) /\ Len(s) \in Nat /\ \A i \in 1 .. Len(s) : s[i] \in S
  BY LenProperties, ElementOfSeq
<1>2. Range(s) \subseteq S
  BY <1>1 DEF Range
<1>3. s = <<>> => Range(s) = {}
  BY DEF Range
<1>4. s # <<>> => 1 \in DOMAIN s
  BY <1>1, EmptySeq
<1>5. QED
  BY <1>2, <1>3, <1>4 DEF Range

\* Appending adds an element at the end.
LEMMA AppendShape ==
  ASSUME NEW S, NEW s \in Seq(S), NEW p \in S
  PROVE  /\ Append(s, p) \in Seq(S)
         /\ Range(Append(s, p)) = Range(s) \cup {p}
         /\ Len(Append(s, p)) = Len(s) + 1 /\ Len(s) \in Nat
         /\ Append(s, p)[1] = IF Len(s) = 0 THEN p ELSE s[1]
<1>1. /\ Append(s, p) \in Seq(S) /\ Len(Append(s, p)) = Len(s) + 1 /\ Len(s) \in Nat
      /\ \A i \in 1 .. Len(s) : Append(s, p)[i] = s[i]
      /\ Append(s, p)[Len(s) + 1] = p
      /\ DOMAIN s = 1 .. Len(s) /\ DOMAIN Append(s, p) = 1 .. Len(s) + 1
  BY AppendProperties, LenProperties
<1>2. ASSUME NEW x \in Range(Append(s, p)) PROVE x \in Range(s) \cup {p}
  <2>1. PICK i \in 1 .. Len(s) + 1 : x = Append(s, p)[i]
    BY <1>1, <1>2 DEF Range
  <2>2. CASE i = Len(s) + 1
    BY <1>1, <2>1, <2>2
  <2>3. CASE i # Len(s) + 1
    <3>1. i \in 1 .. Len(s)
      BY <1>1, <2>3
    <3>2. QED
      BY <1>1, <2>1, <3>1 DEF Range
  <2>4. QED
    BY <2>2, <2>3
<1>3. p \in Range(Append(s, p))
  <2>1. Len(s) + 1 \in DOMAIN Append(s, p)
    BY <1>1
  <2>2. QED
    BY <1>1, <2>1 DEF Range
<1>4. ASSUME NEW x \in Range(s) PROVE x \in Range(Append(s, p))
  <2>1. PICK i \in 1 .. Len(s) : x = s[i]
    BY <1>1, <1>4 DEF Range
  <2>2. i \in DOMAIN Append(s, p) /\ x = Append(s, p)[i]
    BY <1>1, <2>1
  <2>3. QED
    BY <2>2 DEF Range
<1>5. Append(s, p)[1] = IF Len(s) = 0 THEN p ELSE s[1]
  BY <1>1
<1>6. QED
  BY <1>1, <1>2, <1>3, <1>4, <1>5

\* A filter keeps the elements that are in the set, the first one in front.
LEMMA ThoseShape ==
  ASSUME NEW S, NEW s \in Seq(S), NEW U
  PROVE  /\ Those(s, U) \in Seq(S)
         /\ Range(Those(s, U)) = Range(s) \cap U
         /\ Len(Those(s, U)) \in Nat /\ Len(Those(s, U)) <= Len(s)
         /\ Len(s) > 0 /\ s[1] \in U => Len(Those(s, U)) > 0 /\ Those(s, U)[1] = s[1]
<1> DEFINE L == Len(s)
           Is(f) == f = [n \in 0 .. L |-> IF n = 0 THEN << >> ELSE Passed(f[n - 1], s[n], U)]
           step == [n \in 1 .. L |-> [list \in Seq(S) |-> Passed(list, s[n], U)]]
           g == CHOOSE f : Is(f)
           First(n) == {s[i] : i \in 1 .. n}
<1>1. L \in Nat /\ \A n \in 1 .. L : s[n] \in S
  OBVIOUS
<1>2. step \in [1 .. L -> [Seq(S) -> Seq(S)]]
  BY <1>1, AppendShape DEF Passed
<1>3. PICK f : Follows(f, L, Seq(S), << >>, step)
  <2>1. << >> \in Seq(S)
    OBVIOUS
  <2> HIDE DEF step, L
  <2>2. QED
    BY <1>1, <1>2, <2>1, Recursion
<1>4. \A n \in 1 .. L : f[n] = Passed(f[n - 1], s[n], U)
  <2> SUFFICES ASSUME NEW n \in 1 .. L PROVE f[n] = Passed(f[n - 1], s[n], U)
    OBVIOUS
  <2>1. n - 1 \in 0 .. L
    BY <1>1
  <2>2. f[n - 1] \in Seq(S)
    BY <1>3, <2>1 DEF Follows
  <2>3. QED
    BY <1>3, <2>2 DEF Follows
<1>5. Is(f)
  <2> HIDE DEF step, L
  <2>1. QED
    BY <1>1, <1>3, <1>4 DEF Follows
<1>6. Is(g)
  <2> HIDE DEF Is
  <2>1. QED
    BY <1>5
<1>7. Those(s, U) = g[L]
  BY DEF Those
<1>8. g[0] = << >> /\ \A n \in 1 .. L : g[n] = Passed(g[n - 1], s[n], U)
  <2> HIDE DEF g, L
  <2>1. QED
    BY <1>1, <1>6
<1> DEFINE Holds(list, n) == /\ list \in Seq(S) /\ Len(list) \in Nat /\ Len(list) <= n
                             /\ Range(list) = First(n) \cap U
                             /\ n > 0 /\ s[1] \in U => Len(list) > 0 /\ list[1] = s[1]
           T == {n \in 0 .. L : Holds(g[n], n)}
<1> HIDE DEF g, L, step, Is
<1>9. 0 \in T
  <2>1. << >> \in Seq(S) /\ Len(<< >>) = 0 /\ Range(<< >>) = {} /\ First(0) = {}
    BY DEF Range
  <2> HIDE DEF First
  <2>2. Holds(g[0], 0)
    BY <1>8, <2>1
  <2>3. QED
    BY <1>1, <2>2
<1>10. ASSUME NEW n \in 0 .. L - 1, n \in T PROVE n + 1 \in T
  <2>1. n + 1 \in 1 .. L /\ n + 1 \in 0 .. L /\ n \in Nat
    BY <1>1
  <2>2. g[n + 1] = Passed(g[n], s[n + 1], U) /\ s[n + 1] \in S
    BY <1>1, <1>8, <2>1
  <2>3. First(n + 1) = First(n) \cup {s[n + 1]}
    <3>1. 1 .. n + 1 = (1 .. n) \cup {n + 1}
      BY <2>1
    <3>2. QED
      BY <3>1
  <2>4. Holds(g[n], n)
    BY <1>10
  <2> HIDE DEF First
  <2>5. CASE s[n + 1] \notin U
    <3>1. g[n + 1] = g[n]
      BY <2>2, <2>5 DEF Passed
    <3>2. n + 1 > 0 /\ s[1] \in U => n > 0
      BY <2>1, <2>5
    <3>3. QED
      BY <2>1, <2>3, <2>4, <2>5, <3>1, <3>2
  <2>6. CASE s[n + 1] \in U
    <3>1. g[n + 1] = Append(g[n], s[n + 1])
      BY <2>2, <2>6 DEF Passed
    <3>2. /\ g[n + 1] \in Seq(S) /\ Range(g[n + 1]) = Range(g[n]) \cup {s[n + 1]}
          /\ Len(g[n + 1]) = Len(g[n]) + 1
          /\ g[n + 1][1] = IF Len(g[n]) = 0 THEN s[n + 1] ELSE g[n][1]
      BY <2>2, <2>4, <3>1, AppendShape
    <3>3. n = 0 => Len(g[n]) = 0
      BY <2>4
    <3>4. g[n + 1][1] = s[1] \/ s[1] \notin U
      BY <2>1, <2>4, <3>2, <3>3
    <3>5. QED
      BY <2>1, <2>3, <2>4, <2>6, <3>2, <3>4
  <2>7. QED
    BY <2>5, <2>6
<1>11. L \in T
  <2> HIDE DEF T
  <2>1. 0 .. L \subseteq T
    BY <1>1, <1>9, <1>10, UpTo
  <2>2. QED
    BY <1>1, <2>1
<1>12. First(L) = Range(s)
  <2>1. DOMAIN s = 1 .. Len(s)
    OBVIOUS
  <2>2. QED
    BY <2>1 DEF Range, L
<1>13. Holds(g[L], L)
  BY <1>11
<1>14. QED
  BY <1>7, <1>12, <1>13 DEF L

\* The citations are the sources of the hits, no more than there are hits.
LEMMA SourcesShape ==
  ASSUME NEW s \in Seq(Passage)
  PROVE  /\ Sources(s) \in Seq(Source)
         /\ Range(Sources(s)) = {SourceOf[h] : h \in Range(s)}
         /\ Len(Sources(s)) \in Nat /\ Len(Sources(s)) <= Len(s)
<1> DEFINE L == Len(s)
           Is(f) == f = [n \in 0 .. L |-> IF n = 0 THEN << >> ELSE Credited(f[n - 1], SourceOf[s[n]])]
           step == [n \in 1 .. L |-> [list \in Seq(Source) |-> Credited(list, SourceOf[s[n]])]]
           g == CHOOSE f : Is(f)
           First(n) == {SourceOf[s[i]] : i \in 1 .. n}
<1>1. L \in Nat /\ \A n \in 1 .. L : SourceOf[s[n]] \in Source
  BY ElementOfSeq, LenProperties, AskAssumption
<1>2. step \in [1 .. L -> [Seq(Source) -> Seq(Source)]]
  BY <1>1, AppendShape DEF Credited
<1>3. PICK f : Follows(f, L, Seq(Source), << >>, step)
  <2>1. << >> \in Seq(Source)
    OBVIOUS
  <2> HIDE DEF step, L
  <2>2. QED
    BY <1>1, <1>2, <2>1, Recursion
<1>4. \A n \in 1 .. L : f[n] = Credited(f[n - 1], SourceOf[s[n]])
  <2> SUFFICES ASSUME NEW n \in 1 .. L PROVE f[n] = Credited(f[n - 1], SourceOf[s[n]])
    OBVIOUS
  <2>1. n - 1 \in 0 .. L
    BY <1>1
  <2>2. f[n - 1] \in Seq(Source)
    BY <1>3, <2>1 DEF Follows
  <2>3. QED
    BY <1>3, <2>2 DEF Follows
<1>5. Is(f)
  <2> HIDE DEF step, L
  <2>1. QED
    BY <1>1, <1>3, <1>4 DEF Follows
<1>6. Is(g)
  <2> HIDE DEF Is
  <2>1. QED
    BY <1>5
<1>7. Sources(s) = g[L]
  BY DEF Sources
<1>8. g[0] = << >> /\ \A n \in 1 .. L : g[n] = Credited(g[n - 1], SourceOf[s[n]])
  <2> HIDE DEF g, L
  <2>1. QED
    BY <1>1, <1>6
<1> DEFINE Holds(list, n) == /\ list \in Seq(Source) /\ Len(list) \in Nat /\ Len(list) <= n
                             /\ Range(list) \subseteq First(n) /\ First(n) \subseteq Range(list)
           T == {n \in 0 .. L : Holds(g[n], n)}
<1> HIDE DEF g, L, step, Is
<1>9. 0 \in T
  <2>1. << >> \in Seq(Source) /\ Len(<< >>) = 0 /\ Range(<< >>) = {} /\ First(0) = {}
    BY DEF Range
  <2> HIDE DEF First
  <2>2. Holds(g[0], 0)
    BY <1>8, <2>1
  <2>3. QED
    BY <1>1, <2>2
<1>10. ASSUME NEW n \in 0 .. L - 1, n \in T PROVE n + 1 \in T
  <2>1. n + 1 \in 1 .. L /\ n + 1 \in 0 .. L /\ n \in Nat
    BY <1>1
  <2>2. g[n + 1] = Credited(g[n], SourceOf[s[n + 1]]) /\ SourceOf[s[n + 1]] \in Source
    BY <1>1, <1>8, <2>1
  <2>3. First(n + 1) = First(n) \cup {SourceOf[s[n + 1]]}
    <3>1. 1 .. n + 1 = (1 .. n) \cup {n + 1}
      BY <2>1
    <3>2. QED
      BY <3>1
  <2>4. Holds(g[n], n)
    BY <1>10
  <2> HIDE DEF First
  <2>5. CASE SourceOf[s[n + 1]] \in Range(g[n])
    BY <2>1, <2>2, <2>3, <2>4, <2>5 DEF Credited
  <2>6. CASE SourceOf[s[n + 1]] \notin Range(g[n])
    <3>1. g[n + 1] = Append(g[n], SourceOf[s[n + 1]])
      BY <2>2, <2>6 DEF Credited
    <3>2. /\ g[n + 1] \in Seq(Source) /\ Range(g[n + 1]) = Range(g[n]) \cup {SourceOf[s[n + 1]]}
          /\ Len(g[n + 1]) = Len(g[n]) + 1
      BY <2>2, <2>4, <3>1, AppendShape
    <3>3. QED
      BY <2>1, <2>3, <2>4, <2>6, <3>2
  <2>7. QED
    BY <2>5, <2>6
<1>11. L \in T
  <2> HIDE DEF T
  <2>1. 0 .. L \subseteq T
    BY <1>1, <1>9, <1>10, UpTo
  <2>2. QED
    BY <1>1, <2>1
<1>12. First(L) = {SourceOf[h] : h \in Range(s)}
  <2>1. DOMAIN s = 1 .. Len(s)
    OBVIOUS
  <2>2. QED
    BY <2>1 DEF Range, L
<1>13. Holds(g[L], L)
  BY <1>11
<1>14. QED
  BY <1>7, <1>12, <1>13 DEF L

\* The first n of a list: all of it, if it is no longer.
LEMMA FirstOfShape ==
  ASSUME NEW S, NEW s \in Seq(S), NEW n \in Nat
  PROVE  /\ FirstOf(s, n) \in Seq(S) /\ Range(FirstOf(s, n)) \subseteq Range(s)
         /\ Len(FirstOf(s, n)) <= n /\ (Len(s) <= n => FirstOf(s, n) = s)
         /\ n > 0 /\ Len(s) > 0 => Len(FirstOf(s, n)) > 0 /\ FirstOf(s, n)[1] = s[1]
<1> DEFINE m == IF Len(s) < n THEN Len(s) ELSE n
<1>0. Len(s) \in Nat
  BY LenProperties
<1>1. DOMAIN s = 1 .. Len(s) /\ \A i \in 1 .. Len(s) : s[i] \in S
  BY LenProperties, ElementOfSeq
<1>2. /\ m \in Nat /\ m <= Len(s) /\ m <= n
      /\ n > 0 /\ Len(s) > 0 => m > 0
      /\ Len(s) <= n => m = Len(s)
  BY <1>0
<1>3. FirstOf(s, n) = SubSeq(s, 1, m)
  BY DEF FirstOf
<1> HIDE DEF m
<1>4. \A i \in 1 .. m : i \in 1 .. Len(s) /\ s[i] \in S
  <2> DEFINE L == Len(s)
  <2>1. L \in Nat /\ m \in Nat /\ m <= L
    BY <1>0, <1>2
  <2> HIDE DEF L
  <2>2. \A i \in 1 .. m : i \in 1 .. L
    BY <2>1
  <2>3. QED
    BY <2>2, <1>1 DEF L
<1>5. /\ SubSeq(s, 1, m) \in Seq(S) /\ Len(SubSeq(s, 1, m)) = m
      /\ \A i \in 1 .. m : SubSeq(s, 1, m)[i] = s[i]
  BY <1>2, <1>4, SubSeqProperties
<1> DEFINE t == SubSeq(s, 1, m)
<1> HIDE DEF t
<1>6. t \in Seq(S) /\ Len(t) = m /\ DOMAIN t = 1 .. m /\ \A i \in 1 .. m : t[i] = s[i]
  BY <1>5, LenProperties DEF t
<1>7. Range(t) \subseteq Range(s)
  BY <1>1, <1>4, <1>6 DEF Range
<1>8. m = Len(s) => t = s
  BY <1>1, <1>6
<1>9. QED
  BY <1>2, <1>3, <1>6, <1>7, <1>8 DEF t

\* The ranks of a finite set number its members from one to its size.
LEMMA RankOnto ==
  ASSUME NEW S, IsFiniteSet(S), S \subseteq Nat, NEW score, \A h \in S : score[h] \in Int
  PROVE  /\ Cardinality(S) \in Nat
         /\ \A h \in S : Rank(S, score, h) \in Nat
         /\ \A i \in 1 .. Cardinality(S) : \E h \in S : Rank(S, score, h) = i
<1> DEFINE Ahead(h) == {g \in S : Before(score, g, h)}
           r == [h \in S |-> Rank(S, score, h)]
<1>1. Cardinality(S) \in Nat /\ IsFiniteSet(1 .. Cardinality(S))
      /\ Cardinality(1 .. Cardinality(S)) = Cardinality(S)
  BY FS_CardinalityType, FS_Interval
<1>2. ASSUME NEW h \in S
      PROVE  /\ IsFiniteSet(Ahead(h)) /\ Cardinality(Ahead(h)) \in Nat
             /\ Cardinality(Ahead(h)) <= Cardinality(S) - 1
  <2>1. IsFiniteSet(S \ {h}) /\ Cardinality(S \ {h}) = Cardinality(S) - 1
    BY FS_RemoveElement
  <2>2. Ahead(h) \in SUBSET (S \ {h})
    BY DEF Before
  <2> HIDE DEF Ahead
  <2>3. IsFiniteSet(Ahead(h)) /\ Cardinality(Ahead(h)) <= Cardinality(S \ {h})
    BY <2>1, <2>2, FS_Subset
  <2>4. QED
    BY <2>1, <2>3, FS_CardinalityType
<1>3. ASSUME NEW h \in S PROVE Rank(S, score, h) = 1 + Cardinality(Ahead(h))
  BY DEF Rank
<1>4. ASSUME NEW g \in S, NEW h \in S, Before(score, g, h)
      PROVE  Cardinality(Ahead(g)) # Cardinality(Ahead(h))
  <2>1. ASSUME NEW x \in S, Before(score, x, g) PROVE Before(score, x, h)
    <3>1. /\ x \in Nat /\ g \in Nat /\ h \in Nat
          /\ score[x] \in Int /\ score[g] \in Int /\ score[h] \in Int
      OBVIOUS
    <3>2. QED
      BY <1>4, <2>1, <3>1 DEF Before
  <2>4. Ahead(g) \in SUBSET Ahead(h)
    BY <2>1
  <2>2. g \in Ahead(h) /\ g \notin Ahead(g)
    BY <1>4 DEF Before
  <2> HIDE DEF Ahead
  <2>3. QED
    BY <1>2, <2>4, <2>2, FS_Subset
<1> HIDE DEF Ahead
<1>5. \A h \in S : Rank(S, score, h) \in 1 .. Cardinality(S)
  <2> SUFFICES ASSUME NEW h \in S PROVE Rank(S, score, h) \in 1 .. Cardinality(S)
    OBVIOUS
  <2>1. QED
    BY <1>1, <1>2, <1>3
<1>6. r \in Injection(S, 1 .. Cardinality(S))
  <2>1. r \in [S -> 1 .. Cardinality(S)]
    BY <1>5
  <2>2. ASSUME NEW g \in S, NEW h \in S, g # h PROVE r[g] # r[h]
    <3>1. Before(score, g, h) \/ Before(score, h, g)
      BY <2>2 DEF Before
    <3>2. Cardinality(Ahead(g)) # Cardinality(Ahead(h))
      BY <1>4, <3>1
    <3>3. QED
      BY <1>2, <1>3, <3>2
  <2> HIDE DEF r
  <2>3. QED
    BY <2>1, <2>2 DEF Injection, IsInjective
<1>7. r \in Surjection(S, 1 .. Cardinality(S))
  <2> HIDE DEF r
  <2> DEFINE T == 1 .. Cardinality(S)
  <2>1. IsFiniteSet(T) /\ Cardinality(S) = Cardinality(T) /\ r \in Injection(S, T)
    BY <1>1, <1>6
  <2> HIDE DEF T
  <2>2. r \in Surjection(S, T)
    BY <2>1, FS_Injection
  <2>3. QED
    BY <2>2 DEF T
<1>8. \A i \in 1 .. Cardinality(S) : \E h \in S : r[h] = i
  <2> HIDE DEF r
  <2>1. QED
    BY <1>7 DEF Surjection
<1>9. \A h \in S : Rank(S, score, h) \in Nat
  BY <1>1, <1>5
<1>10. QED
  BY <1>1, <1>8, <1>9

\* The best of S are members of S.
LEMMA BestShape ==
  ASSUME NEW S, IsFiniteSet(S), S \subseteq Nat, NEW n \in Nat,
         NEW score, \A h \in S : score[h] \in Int
  PROVE  Best(S, n, score) \in Seq(S)
<1> DEFINE m == IF Cardinality(S) < n THEN Cardinality(S) ELSE n
           h(i) == CHOOSE h \in S : Rank(S, score, h) = i
<1>1. Cardinality(S) \in Nat
  BY RankOnto
<1>2. m \in Nat /\ m <= Cardinality(S)
  BY <1>1
<1>3. ASSUME NEW i \in 1 .. Cardinality(S) PROVE h(i) \in S
  BY RankOnto
<1>4. Best(S, n, score) = [i \in 1 .. m |-> h(i)]
  BY DEF Best
<1> HIDE DEF m, h
<1>5. [i \in 1 .. m |-> h(i)] \in [1 .. m -> S]
  BY <1>1, <1>2, <1>3
<1> DEFINE b == [i \in 1 .. m |-> h(i)]
<1> HIDE DEF b
<1>6. b \in Seq(S)
  BY <1>2, <1>5, SeqDef DEF b
<1>7. QED
  BY <1>4, <1>6 DEF b

\* What any set of passages is to a search.
LEMMA PassagesFinite ==
  ASSUME NEW S, S \subseteq Passage
  PROVE  IsFiniteSet(S) /\ S \subseteq Nat
BY FS_Subset, RetrievalAssumption

\* How well a passage fits a question is a record of numbers.
LEMMA FitTypes ==
  ASSUME NEW q \in Question, NEW h \in Passage
  PROVE  /\ Match[q][h].kw \in Nat /\ Match[q][h].title \in Nat
         /\ Match[q][h].sem \in 0 .. 100 /\ Match[q][h].cov \in 0 .. 100
<1>1. Match[q][h] \in Fit
  BY RetrievalAssumption
<1>2. QED
  BY <1>1 DEF Fit

\* A hybrid search finds what it searches.
LEMMA FuseShape ==
  ASSUME NEW q \in Question, NEW S, S \subseteq Passage
  PROVE  fuseHybrid(q, S) \in Seq(S)
<1> DEFINE kw == [h \in S |-> Match[q][h].kw]
           sem == [h \in S |-> Match[q][h].sem]
           worded == {h \in S : kw[h] > 0}
           Reciprocal(rank) == 1000000 \div (FuseK + rank)
           fused == [h \in S |-> (IF h \in worded THEN Reciprocal(Rank(worded, kw, h)) ELSE 0)
                                 + Reciprocal(Rank(S, sem, h))]
           T == {h \in S : kw[h] > 0 \/ sem[h] >= 20}
<1>1. fuseHybrid(q, S) = Best(T, Pool, fused)
  BY DEF fuseHybrid
<1>2. \A rank \in Nat : Reciprocal(rank) \in Int
  BY RetrievalAssumption
<1>3. \A h \in S : kw[h] \in Int /\ sem[h] \in Int
  BY FitTypes
<1>4. worded \subseteq S /\ T \subseteq S
  OBVIOUS
<1> HIDE DEF kw, sem, worded, T, Reciprocal
<1>5. /\ IsFiniteSet(S) /\ S \subseteq Nat
      /\ IsFiniteSet(worded) /\ worded \subseteq Nat
      /\ IsFiniteSet(T) /\ T \subseteq Nat
  BY <1>4, PassagesFinite
<1>6. \A h \in worded : Rank(worded, kw, h) \in Nat
  BY <1>3, <1>4, <1>5, RankOnto
<1>7. \A h \in S : Rank(S, sem, h) \in Nat
  BY <1>3, <1>5, RankOnto
<1>8. ASSUME NEW h \in S PROVE fused[h] \in Int
  BY <1>2, <1>6, <1>7
<1> HIDE DEF fused
<1>9. Pool \in Nat
  BY RetrievalAssumption
<1>10. Best(T, Pool, fused) \in Seq(T)
  BY <1>4, <1>5, <1>8, <1>9, BestShape
<1>11. QED
  BY <1>1, <1>4, <1>10

\* The passages a vector search leaves are some of the index.
LEMMA PoolShape ==
  ASSUME NEW q \in Question, index \subseteq Passage, NEW near \in Pools(q)
  PROVE  near \subseteq index
<1> DEFINE sem == [h \in index |-> Match[q][h].sem]
<1>1. Nearest \in Nat
  BY RetrievalAssumption
<1>2. \A h \in index : sem[h] \in Int
  BY FitTypes
<1>3. near = index \/ near = Range(Best(index, Nearest, sem))
  BY DEF Pools
<1> HIDE DEF sem
<1>4. Best(index, Nearest, sem) \in Seq(index)
  BY <1>1, <1>2, PassagesFinite, BestShape
<1>5. QED
  BY <1>3, <1>4, RangeIn

\* The search of the index finds no junk.
LEMMA LocalShape ==
  ASSUME NEW q \in Question, NEW pool, pool \subseteq Passage
  PROVE  retrieveLocal(q, pool) \in Seq(pool \ Junk)
<1>1. fuseHybrid(q, pool \ Junk) \in Seq(pool \ Junk)
  BY FuseShape
<1>2. TopHits \in Nat
  BY RetrievalAssumption
<1>3. QED
  BY <1>1, <1>2, FirstOfShape DEF retrieveLocal

\* The search of what is curated and cached finds nothing else.
LEMMA KnownShape ==
  ASSUME NEW q \in Question
  PROVE  searchKnowledge(q) \in Seq(Fact \cup CachedDocs)
<1> DEFINE kw == [h \in Fact \cup CachedDocs |-> 2 * Match[q][h].kw + (IF h \in Fact THEN 1 ELSE 0)]
           T == {h \in Fact \cup CachedDocs : Match[q][h].kw > 0}
<1>1. searchKnowledge(q) = Best(T, TopHits, kw)
  BY DEF searchKnowledge
<1>2. Fact \cup CachedDocs \subseteq Passage /\ TopHits \in Nat
  BY RetrievalAssumption
<1>3. \A h \in T : kw[h] \in Int
  BY <1>2, FitTypes
<1>4. T \subseteq Fact \cup CachedDocs /\ T \subseteq Passage
  BY <1>2
<1> HIDE DEF kw, T
<1>5. Best(T, TopHits, kw) \in Seq(T)
  BY <1>2, <1>3, <1>4, PassagesFinite, BestShape
<1>6. QED
  BY <1>1, <1>4, <1>5

\* Reranking drops passages and adds none.
LEMMA RerankShape ==
  ASSUME NEW q \in Question, NEW S, S \subseteq Passage
  PROVE  rerank(q, S) \in Seq(S)
<1> DEFINE score == [h \in S |-> hitRelevance(q, h)]
<1>1. ASSUME NEW h \in S PROVE score[h] \in Int
  <2>1. /\ Match[q][h].title \in Int /\ Match[q][h].sem \in Int /\ Match[q][h].cov \in Int
    BY FitTypes
  <2>2. hitRelevance(q, h) \in Int
    BY <2>1 DEF hitRelevance
  <2>3. QED
    BY <2>2
<1>2. rerank(q, S) = Best(S, TopHits, score) /\ TopHits \in Nat
  BY RetrievalAssumption DEF rerank
<1> HIDE DEF score
<1>3. QED
  BY <1>1, <1>2, PassagesFinite, BestShape

\* A list of passages without junk, but for what is cached on disk.
Clean(hits) == hits \in Seq(Passage) /\ Range(hits) \cap Junk \subseteq CachedDocs

LEMMA RerankClean ==
  ASSUME NEW q \in Question, NEW S, S \subseteq Passage, S \cap Junk \subseteq CachedDocs
  PROVE  Clean(rerank(q, S))
<1>1. rerank(q, S) \in Seq(S)
  BY RerankShape
<1>2. Range(rerank(q, S)) \subseteq S
  BY <1>1, RangeIn
<1>3. QED
  BY <1>1, <1>2 DEF Clean

-----------------------------------------------------------------------------
\* The first page of some is left out by the rest.
LEMMA TailPages ==
  ASSUME NEW s \in Seq(Page), s # <<>>
  PROVE  /\ Tail(s) \in Seq(Page) /\ Head(s) \in Page
         /\ Len(s) # 1 => Tail(s) # <<>>
<1>1. /\ Tail(s) \in Seq(Page) /\ Head(s) \in Page
      /\ Len(Tail(s)) = Len(s) - 1 /\ Len(s) \in Nat /\ Len(s) # 0
  BY HeadTailProperties, EmptySeq, LenProperties
<1>2. Len(s) # 1 => Len(Tail(s)) # 0
  BY <1>1
<1>3. QED
  BY <1>1, <1>2, EmptySeq

\* The pages a question may need, in some order.
LEMMA CandidatePages ==
  ASSUME NEW q \in Question, NEW links \in SUBSET Page, NEW pages \in Candidates(q, links)
  PROVE  /\ pages \in Seq(Page) /\ FirstOf(pages, MaxPages) \in Seq(Page)
         /\ pages # <<>> => FirstOf(pages, MaxPages) # <<>>
<1> DEFINE S == {pg \in links : PageMatch[q][pg] > 0}
<1>1. pages \in [1 .. Cardinality(S) -> S]
  BY DEF Candidates, SetToSeqs
<1>2. S \subseteq Page
  OBVIOUS
<1> HIDE DEF S
<1>3. Cardinality(S) \in Nat
  BY <1>2, FS_Subset, FS_CardinalityType, RetrievalAssumption
<1>4. pages \in Seq(Page)
  BY <1>1, <1>2, <1>3, SeqDef
<1>5. MaxPages \in Nat /\ MaxPages > 0
  BY RetrievalAssumption
<1>6. FirstOf(pages, MaxPages) \in Seq(Page) /\ (Len(pages) > 0 => Len(FirstOf(pages, MaxPages)) > 0)
  BY <1>4, <1>5, FirstOfShape
<1>7. QED
  BY <1>4, <1>6, EmptySeq, LenProperties

-----------------------------------------------------------------------------
(***************************************************************************)
(* Searches.                                                               *)
(***************************************************************************)
\* What all processes share, and what each keeps beside its searches.
StoresOK ==
    /\ index \subseteq Passage /\ urlmap \in [links : SUBSET Page, age : {"fresh", "stale"}]
    /\ pageCache \subseteq Page
    /\ embedder \in [Proc -> {"unloaded", "loaded", "broken"}]
    /\ enriching \in [Proc -> SUBSET (Passage \ Junk)]

\* A search for q that is sound, and a step of p that leads to one.
Search(q, f) == f \in Notice /\ FindSound(f) /\ f.question = q
Finds(p, q) == \E f : Search(q, f) /\ find' = [find EXCEPT ![p] = f]

\* The parts of a search.
LEMMA SearchParts ==
  ASSUME NEW q, NEW f, Search(q, f)
  PROVE  /\ f.question = q /\ q \in Question
         /\ f.hits \in Seq(Passage) /\ f.todo \in Seq(Page)
         /\ f.fresh \subseteq Passage /\ f.attempt \in 0 .. MaxRetries /\ f.confident \in BOOLEAN
         /\ f.at \in {"off", "index", "search", "map", "landing", "page", "embed", "found", "failed"}
         /\ f.at = "page" => f.todo # <<>>
         /\ Clean(f.hits) /\ f.fresh \cap Junk = {}
         /\ f.confident => isConfident(q, f.hits)
BY DEF Search, Notice, FindSound, Clean

\* What makes a search sound.
LEMMA SearchOf ==
  ASSUME NEW f \in Notice, NEW q, f.question = q, Clean(f.hits), f.fresh \cap Junk = {},
         f.confident => isConfident(q, f.hits), f.at = "page" => f.todo # <<>>
  PROVE  Search(q, f)
BY DEF Search, FindSound, Clean

\* A search starts with nothing found.
LEMMA NotAskedSound ==
  ASSUME NEW q \in Question
  PROVE  Search(q, NotAsked(q)) /\ Search(q, [NotAsked(q) EXCEPT !.at = "index"])
<1>1. <<>> \in Seq(Passage) /\ <<>> \in Seq(Page) /\ Range(<<>>) = {} /\ 0 \in 0 .. MaxRetries
  BY RetrievalAssumption DEF Range
<1>2. Clean(<<>>)
  BY <1>1 DEF Clean
<1>3. ASSUME NEW f \in Notice, f.at # "page", f.question = q, f.hits = <<>>, f.confident = FALSE,
             f.fresh = {}
      PROVE  Search(q, f)
  BY <1>2, <1>3, SearchOf
<1> DEFINE f == NotAsked(q)
           g == [NotAsked(q) EXCEPT !.at = "index"]
<1>4. /\ f \in Notice /\ f.at # "page" /\ f.question = q /\ f.hits = <<>> /\ f.confident = FALSE
      /\ f.fresh = {}
  BY <1>1 DEF NotAsked, Notice
<1>5. /\ g \in Notice /\ g.at # "page" /\ g.question = q /\ g.hits = <<>> /\ g.confident = FALSE
      /\ g.fresh = {}
  BY <1>1 DEF NotAsked, Notice
<1> HIDE DEF f, g
<1>6. Search(q, f) /\ Search(q, g)
  BY <1>3, <1>4, <1>5
<1>7. QED
  BY <1>6 DEF f, g

\* A search that only moves on.
LEMMA AdvanceFinds ==
  ASSUME find \in [Proc -> Notice], NEW p \in Proc, NEW q, Search(q, find[p]),
         NEW from, NEW to \in {"search", "map", "landing", "found", "failed"}, Advance(p, from, to)
  PROVE  Finds(p, q)
<1> DEFINE f == [find[p] EXCEPT !.at = to]
<1>1. f \in Notice /\ f.at = to /\ f.question = find[p].question /\ f.hits = find[p].hits
      /\ f.fresh = find[p].fresh /\ f.confident = find[p].confident
  BY DEF Notice
<1>2. find' = [find EXCEPT ![p] = f]
  BY DEF Advance
<1> HIDE DEF f
<1>3. Search(q, f)
  BY <1>1 DEF Search, FindSound
<1>4. QED
  BY <1>2, <1>3 DEF Finds

\* The search of what is on the machine.
LEMMA SearchLocalFinds ==
  ASSUME RetrievalTypeOK, NEW p \in Proc, NEW q, Search(q, find[p]), SearchLocal(p)
  PROVE  Finds(p, q)
<1>q. find[p].question = q
  BY SearchParts
<1>0. PICK near \in Pools(q) : Searched(p, q, near)
  BY <1>q, Zenon DEF SearchLocal
<1> DEFINE pool == Range(retrieveLocal(q, near)) \cup Range(searchKnowledge(q))
           hits == rerank(q, pool)
           sure == isConfident(q, hits)
           at == IF sure \/ p \notin Live THEN "found" ELSE "map"
           f == [find[p] EXCEPT !.hits = hits, !.confident = sure, !.at = at]
<1>1. q \in Question /\ find[p].question = q /\ find[p].todo \in Seq(Page)
      /\ find[p].fresh \subseteq Passage /\ find[p].fresh \cap Junk = {}
      /\ find[p].attempt \in 0 .. MaxRetries
  BY SearchParts
<1>2. Range(retrieveLocal(q, near)) \subseteq index \ Junk /\ index \subseteq Passage
  <2>1. index \subseteq Passage /\ near \subseteq index
    BY <1>0, <1>1, PoolShape DEF RetrievalTypeOK
  <2>2. retrieveLocal(q, near) \in Seq(near \ Junk)
    BY <1>1, <2>1, LocalShape
  <2>3. QED
    BY <2>1, <2>2, RangeIn
<1>3. Range(searchKnowledge(q)) \subseteq Fact \cup CachedDocs
  BY <1>1, KnownShape, RangeIn
<1>4. pool \subseteq Passage /\ pool \cap Junk \subseteq CachedDocs
  BY <1>2, <1>3, RetrievalAssumption
<1>5. find' = [find EXCEPT ![p] = f]
  <2>1. \E all \in {pool} :
        \E found \in {rerank(q, all)}, certain \in {isConfident(q, rerank(q, all))} :
          find' = [find EXCEPT ![p].hits = found, ![p].confident = certain,
                               ![p].at = IF certain \/ p \notin Live THEN "found" ELSE "map"]
    BY <1>0 DEF Searched
  <2> HIDE DEF pool
  <2>2. find' = [find EXCEPT ![p].hits = hits, ![p].confident = sure, ![p].at = at]
    BY <2>1
  <2>3. QED
    BY <2>2
<1> HIDE DEF pool
<1>6. Clean(hits)
  BY <1>1, <1>4, RerankClean
<1>7. sure \in BOOLEAN
  BY DEF isConfident
<1>8. at \in {"found", "map"}
  OBVIOUS
<1> HIDE DEF hits, sure, at
<1>12. find[p] \in Notice /\ hits \in Seq(Passage)
  BY <1>6 DEF RetrievalTypeOK, Clean
<1>9. /\ f \in Notice /\ f.at = at /\ f.question = q /\ f.hits = hits /\ f.confident = sure
      /\ f.fresh = find[p].fresh
  BY <1>1, <1>7, <1>8, <1>12 DEF Notice
<1> HIDE DEF f
<1>10. Search(q, f)
  BY <1>1, <1>6, <1>8, <1>9, SearchOf DEF sure
<1>11. QED
  BY <1>5, <1>10 DEF Finds

\* Pages are chosen, at most MaxPages of them, or there is none to choose.
LEMMA ChoosePagesFinds ==
  ASSUME find \in [Proc -> Notice], NEW p \in Proc, NEW q, Search(q, find[p]),
         NEW links \in SUBSET Page, ChoosePages(p, links)
  PROVE  Finds(p, q)
<1>1. q \in Question /\ find[p].question = q /\ Clean(find[p].hits)
      /\ find[p].fresh \subseteq Passage /\ find[p].fresh \cap Junk = {}
      /\ find[p].confident \in BOOLEAN /\ (find[p].confident => isConfident(q, find[p].hits))
  BY SearchParts
<1> PICK pages \in Candidates(q, links) :
         find' = [find EXCEPT ![p].todo = FirstOf(pages, MaxPages), ![p].attempt = 0,
                              ![p].at = IF pages = <<>> THEN "found" ELSE "page"]
  BY <1>1 DEF ChoosePages
<1> DEFINE todo == FirstOf(pages, MaxPages)
           at == IF pages = <<>> THEN "found" ELSE "page"
           f == [find[p] EXCEPT !.todo = todo, !.attempt = 0, !.at = at]
<1>2. todo \in Seq(Page) /\ (pages # <<>> => todo # <<>>)
  BY <1>1, CandidatePages
<1>3. at \in {"found", "page"} /\ (at = "page" => todo # <<>>)
  BY <1>2
<1>4. find' = [find EXCEPT ![p] = f]
  OBVIOUS
<1> HIDE DEF todo, at
<1>5. 0 \in 0 .. MaxRetries
  BY RetrievalAssumption
<1>6. /\ f \in Notice /\ f.at = at /\ f.question = q /\ f.hits = find[p].hits
      /\ f.confident = find[p].confident /\ f.todo = todo /\ f.fresh = find[p].fresh
  BY <1>1, <1>2, <1>3, <1>5 DEF Notice
<1> HIDE DEF f
<1>7. Search(q, f)
  BY <1>1, <1>3, <1>6, SearchOf
<1>8. QED
  BY <1>4, <1>7 DEF Finds

\* A page is done with, whatever it gave.
LEMMA NextPageFinds ==
  ASSUME find \in [Proc -> Notice], NEW p \in Proc, NEW q, Search(q, find[p]),
         NEW gained \in SUBSET Passage, find[p].at = "page", NextPage(p, gained)
  PROVE  Finds(p, q)
<1>1. q \in Question /\ find[p].question = q /\ Clean(find[p].hits)
      /\ find[p].fresh \subseteq Passage /\ find[p].fresh \cap Junk = {}
      /\ find[p].confident \in BOOLEAN /\ (find[p].confident => isConfident(q, find[p].hits))
      /\ find[p].todo \in Seq(Page) /\ find[p].todo # <<>>
  BY SearchParts
<1> DEFINE todo == Tail(find[p].todo)
           fresh == find[p].fresh \cup (gained \ Junk)
           at == IF Len(find[p].todo) = 1 THEN "embed" ELSE "page"
           f == [find[p] EXCEPT !.todo = todo, !.attempt = 0, !.fresh = fresh, !.at = at]
<1>2. todo \in Seq(Page) /\ (Len(find[p].todo) # 1 => todo # <<>>)
  BY <1>1, TailPages
<1>3. at \in {"embed", "page"} /\ (at = "page" => todo # <<>>)
  BY <1>2
<1>4. fresh \subseteq Passage /\ fresh \cap Junk = {}
  BY <1>1
<1>5. find' = [find EXCEPT ![p] = f]
  BY DEF NextPage
<1> HIDE DEF todo, at, fresh
<1>6. 0 \in 0 .. MaxRetries
  BY RetrievalAssumption
<1>7. /\ f \in Notice /\ f.at = at /\ f.question = q /\ f.hits = find[p].hits
      /\ f.confident = find[p].confident /\ f.todo = todo /\ f.fresh = fresh
  BY <1>1, <1>2, <1>3, <1>4, <1>6 DEF Notice
<1> HIDE DEF f
<1>8. Search(q, f)
  BY <1>1, <1>3, <1>4, <1>7, SearchOf
<1>9. QED
  BY <1>5, <1>8 DEF Finds

\* A page is tried again while that is allowed.
LEMMA FetchFailsFinds ==
  ASSUME find \in [Proc -> Notice], NEW p \in Proc, NEW q, Search(q, find[p]), FetchFailsForNow(p)
  PROVE  Finds(p, q)
<1>1. CASE find[p].attempt < MaxRetries
  <2> DEFINE f == [find[p] EXCEPT !.attempt = find[p].attempt + 1]
  <2>1. find[p].attempt + 1 \in 0 .. MaxRetries
    BY <1>1, RetrievalAssumption DEF Notice
  <2>2. f \in Notice /\ f.at = find[p].at /\ f.question = find[p].question /\ f.hits = find[p].hits
        /\ f.fresh = find[p].fresh /\ f.confident = find[p].confident /\ f.todo = find[p].todo
    BY <2>1 DEF Notice
  <2>3. find' = [find EXCEPT ![p] = f]
    BY <1>1 DEF FetchFailsForNow
  <2> HIDE DEF f
  <2>4. Search(q, f)
    BY <2>2 DEF Search, FindSound
  <2>5. QED
    BY <2>3, <2>4 DEF Finds
<1>2. CASE ~(find[p].attempt < MaxRetries)
  <2>1. NextPage(p, {}) /\ find[p].at = "page"
    BY <1>2 DEF FetchFailsForNow
  <2>2. QED
    BY <2>1, NextPageFinds
<1>3. QED
  BY <1>1, <1>2

\* What was fetched competes with what was found before.
LEMMA RankFreshFinds ==
  ASSUME find \in [Proc -> Notice], NEW p \in Proc, NEW q, Search(q, find[p]), RankFresh(p)
  PROVE  Finds(p, q)
<1> DEFINE live == FirstOf(fuseHybrid(q, find[p].fresh), TopHits)
           pool == Range(find[p].hits) \cup Range(live)
           hits == IF live = <<>> THEN find[p].hits ELSE rerank(q, pool)
           sure == isConfident(q, hits)
           f == [find[p] EXCEPT !.hits = hits, !.confident = sure, !.at = "found"]
<1>1. q \in Question /\ find[p].question = q /\ find[p].todo \in Seq(Page) /\ Clean(find[p].hits)
      /\ find[p].fresh \subseteq Passage /\ find[p].fresh \cap Junk = {}
      /\ find[p].attempt \in 0 .. MaxRetries /\ find[p].hits \in Seq(Passage)
  BY SearchParts
<1>2. fuseHybrid(q, find[p].fresh) \in Seq(find[p].fresh) /\ TopHits \in Nat
  BY <1>1, FuseShape, RetrievalAssumption
<1>3. Range(live) \subseteq find[p].fresh
  BY <1>2, FirstOfShape, RangeIn
<1>4. Range(find[p].hits) \subseteq Passage /\ Range(find[p].hits) \cap Junk \subseteq CachedDocs
  BY <1>1, RangeIn DEF Clean
<1>5. pool \subseteq Passage /\ pool \cap Junk \subseteq CachedDocs
  BY <1>1, <1>3, <1>4
<1>6. find' = [find EXCEPT ![p] = f]
  BY <1>1 DEF RankFresh
<1> HIDE DEF pool
<1>7. Clean(rerank(q, pool))
  BY <1>1, <1>5, RerankClean
<1>8. Clean(hits)
  BY <1>1, <1>7
<1>9. sure \in BOOLEAN
  BY DEF isConfident
<1> HIDE DEF live, hits, sure
<1>10. /\ f \in Notice /\ f.at = "found" /\ f.question = q /\ f.hits = hits /\ f.confident = sure
       /\ f.fresh = find[p].fresh
  BY <1>1, <1>8, <1>9 DEF Notice, Clean
<1> HIDE DEF f
<1>11. Search(q, f)
  BY <1>1, <1>8, <1>10, SearchOf DEF sure
<1>12. QED
  BY <1>6, <1>11 DEF Finds

\* Every step of a search leaves it sound, and what is stored of its type.
LEMMA RetrievalSteps ==
  ASSUME RetrievalTypeOK, NEW p \in Proc, NEW q, Search(q, find[p]), RetrievalStep(p)
  PROVE  StoresOK' /\ Finds(p, q)
<1>1. find \in [Proc -> Notice] /\ StoresOK
  BY DEF RetrievalTypeOK, StoresOK
<1>2. Finds(p, q)
  <2>1. UNCHANGED find => Finds(p, q)
    BY <1>1 DEF Finds
  <2>2. urlmap.links \in SUBSET Page
    BY <1>1 DEF StoresOK
  <2>3. CASE NothingToSearch(p) \/ IndexBuilt(p)
    BY <1>1, <2>3, AdvanceFinds DEF NothingToSearch, IndexBuilt
  <2>4. CASE LoadEmbedder(p)
    BY <2>1, <2>4 DEF LoadEmbedder
  <2>5. CASE SearchThrows(p) \/ MapIsStale(p) \/ LiveLookupThrows(p)
    BY <1>1, <2>5, AdvanceFinds DEF SearchThrows, MapIsStale, LiveLookupThrows
  <2>6. CASE SearchLocal(p)
    BY <2>6, SearchLocalFinds
  <2>7. CASE MapIsFresh(p) \/ MapNotBuilt(p)
    BY <1>1, <2>2, <2>7, ChoosePagesFinds DEF MapIsFresh, MapNotBuilt
  <2>8. CASE MapBuilt(p)
    <3>1. PICK links \in {{}, Page} : ChoosePages(p, IF links = {} THEN urlmap.links ELSE links)
      BY <2>8 DEF MapBuilt
    <3>2. (IF links = {} THEN urlmap.links ELSE links) \in SUBSET Page
      BY <2>2
    <3>3. QED
      BY <1>1, <3>1, <3>2, ChoosePagesFinds
  <2>9. CASE PageArrives(p)
    <3>1. find[p].todo \in Seq(Page) /\ find[p].todo # <<>> /\ find[p].at = "page"
      BY <2>9, SearchParts DEF PageArrives
    <3>2. OnPage[Head(find[p].todo)] \in SUBSET Passage
      BY <3>1, TailPages, RetrievalAssumption
    <3>3. QED
      BY <1>1, <2>9, <3>1, <3>2, NextPageFinds DEF PageArrives
  <2>10. CASE FetchFailsForNow(p)
    BY <1>1, <2>10, FetchFailsFinds
  <2>11. CASE FetchRefused(p)
    BY <1>1, <2>11, NextPageFinds DEF FetchRefused
  <2>12. CASE RankFresh(p)
    BY <1>1, <2>12, RankFreshFinds
  <2>13. QED
    BY <2>3, <2>4, <2>5, <2>6, <2>7, <2>8, <2>9, <2>10, <2>11, <2>12 DEF RetrievalStep
<1>3. StoresOK'
  <2>1. CASE UNCHANGED <<index, urlmap, pageCache, embedder, enriching>>
    BY <1>1, <2>1 DEF StoresOK
  <2>2. CASE LoadEmbedder(p)
    BY <1>1, <2>2 DEF LoadEmbedder, StoresOK
  <2>3. CASE MapBuilt(p)
    BY <1>1, <2>3 DEF MapBuilt, StoresOK
  <2>4. CASE PageArrives(p)
    <3>1. find[p].todo \in Seq(Page) /\ find[p].todo # <<>>
      BY <2>4, SearchParts DEF PageArrives
    <3>2. Head(find[p].todo) \in Page
      BY <3>1, TailPages
    <3>3. pageCache' = pageCache \cup {Head(find[p].todo)}
          /\ UNCHANGED <<index, urlmap, embedder, enriching>>
      BY <2>4 DEF PageArrives
    <3>4. QED
      BY <1>1, <3>2, <3>3 DEF StoresOK
  <2>5. CASE RankFresh(p)
    <3>1. find[p].fresh \subseteq Passage \ Junk
      BY SearchParts
    <3>2. enriching' = [enriching EXCEPT ![p] = @ \cup find[p].fresh]
          /\ UNCHANGED <<index, urlmap, pageCache, embedder>>
      BY <2>5 DEF RankFresh
    <3>3. QED
      BY <1>1, <3>1, <3>2 DEF StoresOK
  <2>6. QED
    BY <2>1, <2>2, <2>3, <2>4, <2>5
       DEF RetrievalStep, NothingToSearch, IndexBuilt, SearchThrows, SearchLocal, MapIsFresh, MapIsStale,
           MapNotBuilt, FetchFailsForNow, FetchRefused, LiveLookupThrows
<1>4. QED
  BY <1>2, <1>3

-----------------------------------------------------------------------------
\* Of the passages of a context, one supports a sentence best.
LEMMA BestForShape ==
  ASSUME NEW s \in Sentence, NEW context \in Seq(Passage), Len(context) > 0
  PROVE  BestFor(s, context) \in DOMAIN context
<1> DEFINE L == Len(context)
           v(i) == Support[s][context[i]]
           Beaten(n) == \A i \in 1 .. L : v(i) <= n
           T == {n \in Nat : Beaten(n)}
<1>1. L \in Nat /\ L > 0 /\ DOMAIN context = 1 .. L
  BY LenProperties
<1>2. \A i \in 1 .. L : v(i) \in Nat /\ v(i) <= 100
  <2> SUFFICES ASSUME NEW i \in 1 .. L PROVE v(i) \in Nat /\ v(i) <= 100
    OBVIOUS
  <2>1. context[i] \in Passage
    BY ElementOfSeq
  <2>2. PICK n \in 0 .. 100 : n = Support[s][context[i]]
    BY <2>1, AskAssumption
  <2>3. v(i) = n
    BY <2>2, Zenon
  <2> HIDE DEF v
  <2>4. QED
    BY <2>3
<1> HIDE DEF L, v
<1>3. T \subseteq Nat /\ 100 \in T
  BY <1>2
<1>4. PICK top \in T : \A n \in T : top <= n
  <2> HIDE DEF T
  <2>1. QED
    BY <1>3, LeastNat
<1> DEFINE F == {i \in 1 .. L : v(i) = top}
<1>5. F \subseteq Nat /\ F # {}
  <2>1. top \in Nat /\ Beaten(top)
    BY <1>4
  <2>2. SUFFICES ASSUME F = {} PROVE FALSE
    OBVIOUS
  <2>3. ASSUME NEW i \in 1 .. L PROVE v(i) < top
    BY <1>2, <2>1, <2>2
  <2>4. 1 \in 1 .. L
    BY <1>1
  <2>5. top > 0
    BY <1>2, <2>1, <2>3, <2>4
  <2>6. ASSUME NEW i \in 1 .. L PROVE v(i) <= top - 1
    BY <1>2, <2>1, <2>3
  <2>7. top - 1 \in T
    BY <2>1, <2>5, <2>6
  <2>8. QED
    BY <1>4, <2>1, <2>7
<1>6. PICK i \in F : \A j \in F : i <= j
  <2> HIDE DEF F
  <2>1. QED
    BY <1>5, LeastNat
<1>7. i \in 1 .. L /\ v(i) = top /\ top \in Nat /\ \A j \in 1 .. L : v(j) <= top
  BY <1>4, <1>6
<1>8. ASSUME NEW j \in 1 .. L PROVE v(i) > v(j) \/ (v(i) = v(j) /\ i <= j)
  <2>1. CASE v(j) = top
    BY <1>6, <1>7, <2>1
  <2>2. CASE v(j) # top
    BY <1>2, <1>7, <2>2
  <2>3. QED
    BY <2>1, <2>2
<1>9. \E k \in DOMAIN context : \A j \in DOMAIN context :
          v(k) > v(j) \/ (v(k) = v(j) /\ k <= j)
  BY <1>1, <1>7, <1>8
<1>10. QED
  BY <1>9 DEF BestFor, v

\* What the model is shown: passages that were found, and no junk.
LEMMA ContextShape ==
  ASSUME NEW hits \in Seq(Passage)
  PROVE  /\ Context(hits) \in Seq(Passage) /\ Range(Context(hits)) \subseteq Range(hits) \ Junk
         /\ Len(Context(hits)) \in Nat /\ Len(Context(hits)) <= ContextHits
<1> DEFINE first == FirstOf(hits, ContextHits)
<1>1. ContextHits \in Nat
  BY AskAssumption
<1>2. first \in Seq(Passage) /\ Range(first) \subseteq Range(hits) /\ Len(first) <= ContextHits
  BY <1>1, FirstOfShape
<1> DEFINE shown == Those(first, Passage \ Junk)
<1>3. Context(hits) = shown
  BY DEF Context
<1> HIDE DEF first
<1>4. /\ shown \in Seq(Passage) /\ Range(shown) = Range(first) \cap (Passage \ Junk)
      /\ Len(shown) \in Nat /\ Len(shown) <= Len(first)
  BY <1>2, ThoseShape
<1>5. Len(first) \in Nat
  BY <1>2, LenProperties
<1> HIDE DEF shown
<1>6. Len(shown) <= ContextHits
  BY <1>1, <1>2, <1>4, <1>5
<1>7. QED
  BY <1>2, <1>3, <1>4, <1>6

\* The sources that are listed are those of some hits, three at most.
LEMMA CitedShape ==
  ASSUME NEW grounded \in Seq(Passage), NEW hits \in Seq(Passage)
  PROVE  Cited(grounded, hits) \in Seq(Source) /\ Len(Cited(grounded, hits)) <= MaxCited
<1> DEFINE s == IF grounded = <<>> THEN FirstOf(hits, 1) ELSE grounded
<1>1. s \in Seq(Passage)
  BY FirstOfShape
<1>2. Cited(grounded, hits) = FirstOf(Sources(s), MaxCited) /\ MaxCited \in Nat
  BY AskAssumption DEF Cited
<1> HIDE DEF s
<1>3. Sources(s) \in Seq(Source)
  BY <1>1, SourcesShape
<1>4. QED
  BY <1>2, <1>3, FirstOfShape

\* The sentences that are kept rest on passages that are credited.
LEMMA ComposedGrounded ==
  ASSUME NEW hits \in Seq(Passage), NEW said \in SUBSET Sentence, Context(hits) # <<>>, NEW q,
         verifyGrounding(said, Context(hits)).kept # {}, NEW a,
         a.kind = "composed", a.said = verifyGrounding(said, Context(hits)).kept,
         a.cites = Cited(verifyGrounding(said, Context(hits)).grounded, hits)
  PROVE  /\ Grounded(q, hits, a)
         /\ a.said \subseteq Sentence /\ a.cites \in Seq(Source) /\ Len(a.cites) <= MaxCited
<1> DEFINE context == Context(hits)
           best(s) == context[BestFor(s, context)]
           kept == {s \in said : Support[s][best(s)] >= GroundMin}
           credited == {best(s) : s \in kept}
           grounded == Those(context, credited)
<1>1. /\ verifyGrounding(said, Context(hits)).kept = kept
      /\ verifyGrounding(said, Context(hits)).grounded = grounded
  BY DEF verifyGrounding
<1>2. /\ context \in Seq(Passage) /\ Range(context) \subseteq Range(hits) \ Junk
      /\ Len(context) \in Nat /\ Len(context) <= ContextHits /\ Len(context) > 0
  <2>1. context \in Seq(Passage) /\ Len(context) \in Nat /\ context # <<>>
    BY ContextShape
  <2>2. Len(context) # 0
    BY <2>1, EmptySeq
  <2>3. QED
    BY <2>1, <2>2, ContextShape
<1> HIDE DEF context
<1>3. ASSUME NEW s \in Sentence PROVE best(s) \in Range(context)
  <2>1. BestFor(s, context) \in DOMAIN context
    BY <1>2, BestForShape
  <2>2. QED
    BY <2>1 DEF Range
<1>4. kept \subseteq Sentence /\ kept # {}
  BY <1>1
<1>5. credited \subseteq Range(context) /\ credited # {}
  BY <1>3, <1>4
<1>6. \A s \in kept : best(s) \in credited /\ Support[s][best(s)] >= GroundMin
  OBVIOUS
<1>7. \A h \in credited : \E s \in kept : h = best(s) /\ Support[s][h] >= GroundMin
  OBVIOUS
<1> HIDE DEF best, kept, credited
<1>8. /\ grounded \in Seq(Passage) /\ Range(grounded) = credited
      /\ Len(grounded) \in Nat /\ Len(grounded) <= Len(context)
  <2>1. Range(context) \cap credited = credited
    BY <1>5
  <2>2. /\ grounded \in Seq(Passage) /\ Range(grounded) = Range(context) \cap credited
        /\ Len(grounded) \in Nat /\ Len(grounded) <= Len(context)
    BY <1>2, ThoseShape
  <2> HIDE DEF grounded
  <2>3. QED
    BY <2>1, <2>2
<1> HIDE DEF grounded
<1>9. grounded # <<>>
  BY <1>5, <1>8, RangeIn
<1>10. /\ Sources(grounded) \in Seq(Source)
       /\ Range(Sources(grounded)) = {SourceOf[h] : h \in credited}
       /\ Len(Sources(grounded)) \in Nat /\ Len(Sources(grounded)) <= Len(grounded)
  BY <1>8, SourcesShape
<1>11. MaxCited \in Nat /\ ContextHits \in Nat /\ ContextHits <= MaxCited
  BY AskAssumption
<1>12. Len(Sources(grounded)) <= MaxCited
  <2> DEFINE k == Len(Sources(grounded))
             l == Len(grounded)
             m == Len(context)
  <2>1. k \in Nat /\ l \in Nat /\ m \in Nat /\ k <= l /\ l <= m /\ m <= ContextHits
    BY <1>2, <1>8, <1>10
  <2> HIDE DEF k, l, m
  <2>2. k <= MaxCited
    BY <1>11, <2>1
  <2>3. QED
    BY <2>2 DEF k
<1>13. FirstOf(Sources(grounded), MaxCited) = Sources(grounded)
  BY <1>10, <1>11, <1>12, FirstOfShape
<1>14. a.cites = Sources(grounded) /\ a.said = kept
  BY <1>1, <1>9, <1>13 DEF Cited
<1>15. Range(a.cites) = {SourceOf[h] : h \in credited}
  BY <1>10, <1>14
<1>16. Range(a.cites) # {}
  BY <1>5, <1>15
<1>17. \A s \in a.said : \E h \in Range(hits) \ Junk : Support[s][h] >= GroundMin /\ SourceOf[h] \in Range(a.cites)
  <2> SUFFICES ASSUME NEW s \in kept
               PROVE  \E h \in Range(hits) \ Junk : Support[s][h] >= GroundMin /\ SourceOf[h] \in Range(a.cites)
    BY <1>14
  <2>1. best(s) \in Range(hits) \ Junk
    BY <1>2, <1>3, <1>4
  <2>2. SourceOf[best(s)] \in Range(a.cites)
    BY <1>6, <1>15
  <2>3. QED
    BY <1>6, <2>1, <2>2
<1>18. \A c \in Range(a.cites) : \E h \in Range(hits) \ Junk, s \in a.said : SourceOf[h] = c /\ Support[s][h] >= GroundMin
  <2> SUFFICES ASSUME NEW c \in Range(a.cites)
               PROVE  \E h \in Range(hits) \ Junk, s \in kept : SourceOf[h] = c /\ Support[s][h] >= GroundMin
    BY <1>14
  <2>1. PICK h \in credited : c = SourceOf[h]
    BY <1>15
  <2>2. PICK s \in kept : h = best(s) /\ Support[s][h] >= GroundMin
    BY <1>7
  <2>3. h \in Range(hits) \ Junk
    BY <1>2, <1>5
  <2>4. QED
    BY <2>1, <2>2, <2>3
<1>19. Grounded(q, hits, a)
  BY <1>16, <1>17, <1>18 DEF Grounded
<1>20. a.said \subseteq Sentence /\ a.cites \in Seq(Source) /\ Len(a.cites) <= MaxCited
  BY <1>4, <1>10, <1>12, <1>14
<1>21. QED
  BY <1>19, <1>20

\* A confident answer of the tool leads with the first hit, which is no junk:
\* it is a fact, or fits in meaning, as nothing cached on disk does.
LEMMA ExtractedGrounded ==
  ASSUME NEW q \in Question, NEW hits, Clean(hits), NEW sure \in BOOLEAN,
         sure => isConfident(q, hits), NEW a, a = answerFromKnowledge(q, hits, sure)
  PROVE  a \in Answer /\ Len(a.cites) <= MaxCited /\ Grounded(q, hits, a)
<1>1. /\ hits \in Seq(Passage) /\ Range(hits) \cap Junk \subseteq CachedDocs
      /\ MaxCited \in Nat /\ MaxCited > 0
  BY AskAssumption DEF Clean
<1>2. CASE sure
  <2> DEFINE top == hits[1]
             led == FirstOf(FromTop(hits), 3)
             said == Range(led \o AddedFact(q, hits))
  <2>1. a.kind = "extracted" /\ a.said = said /\ a.cites = <<SourceOf[top]>>
        /\ a = [kind |-> "extracted", said |-> said, cites |-> <<SourceOf[top]>>]
    BY <1>2 DEF answerFromKnowledge
  <2>2. /\ hits # <<>>
        /\ IF top \in Fact THEN Match[q][top].cov >= 50
           ELSE Match[q][top].cov >= 60 /\ Match[q][top].sem >= 42
    BY <1>2 DEF isConfident
  <2>3. Len(hits) > 0 /\ top \in Passage /\ top \in Range(hits)
    <3>1. Len(hits) \in Nat /\ Len(hits) # 0 /\ DOMAIN hits = 1 .. Len(hits)
      BY <1>1, <2>2, EmptySeq, LenProperties
    <3>2. 1 \in 1 .. Len(hits)
      BY <3>1
    <3>3. QED
      BY <1>1, <3>1, <3>2, ElementOfSeq DEF Range
  <2>4. top \notin Junk
    <3>1. top \in Fact => top \notin Junk
      BY RetrievalAssumption
    <3>2. top \in Junk => top \in CachedDocs
      BY <1>1, <2>3
    <3>3. top \in CachedDocs => Match[q][top].sem = 0
      BY RetrievalAssumption
    <3>4. QED
      BY <2>2, <3>1, <3>2, <3>3
  <2>5. /\ FromTop(hits) \in Seq(Passage)
        /\ Len(FromTop(hits)) > 0 /\ FromTop(hits)[1] = top
    <3> DEFINE U == {h \in Passage : SourceOf[h] = SourceOf[top]}
    <3>1. FromTop(hits) = Those(hits, U) /\ top \in U
      BY <2>3 DEF FromTop
    <3> HIDE DEF U
    <3>2. /\ Those(hits, U) \in Seq(Passage)
          /\ Len(hits) > 0 /\ hits[1] \in U => Len(Those(hits, U)) > 0 /\ Those(hits, U)[1] = hits[1]
      BY <1>1, ThoseShape
    <3>3. QED
      BY <2>3, <3>1, <3>2
  <2>6. led \in Seq(Passage) /\ Len(led) > 0 /\ led[1] = top
    BY <2>5, FirstOfShape
  <2>7. AddedFact(q, hits) \in Seq(Passage)
    <3> DEFINE U == {h \in Fact : Match[q][h].cov >= 50 /\ SourceOf[h] # SourceOf[top]}
    <3>1. Those(hits, U) \in Seq(Passage)
      BY <1>1, ThoseShape
    <3>2. AddedFact(q, hits) = IF top \in Fact THEN <<>> ELSE FirstOf(Those(hits, U), 1)
      BY DEF AddedFact
    <3> HIDE DEF U
    <3>3. FirstOf(Those(hits, U), 1) \in Seq(Passage)
      BY <3>1, FirstOfShape
    <3>4. QED
      BY <3>2, <3>3
  <2> HIDE DEF led
  <2>8. said \subseteq Passage /\ top \in said
    <3> DEFINE added == AddedFact(q, hits)
               all == led \o added
    <3>1. /\ all \in Seq(Passage) /\ Len(all) = Len(led) + Len(added)
          /\ \A i \in 1 .. Len(led) + Len(added) : all[i] = IF i <= Len(led) THEN led[i] ELSE added[i - Len(led)]
      BY <2>6, <2>7, ConcatProperties
    <3>2. Len(led) \in Nat /\ Len(added) \in Nat
      BY <2>6, <2>7, LenProperties
    <3> HIDE DEF all, added
    <3>3. 1 \in 1 .. Len(all) /\ all[1] = top
      BY <2>6, <3>1, <3>2
    <3>4. top \in Range(all)
      BY <3>1, <3>3, LenProperties DEF Range
    <3>5. Range(all) \subseteq Passage
      BY <3>1, RangeIn
    <3>6. QED
      BY <3>4, <3>5 DEF all, added
  <2> HIDE DEF said
  <2>9. SourceOf[top] \in Source
    BY <2>3, AskAssumption
  <2>10. <<SourceOf[top]>> \in Seq(Source) /\ Len(<<SourceOf[top]>>) = 1
         /\ Range(<<SourceOf[top]>>) = {SourceOf[top]}
    BY <2>9 DEF Range
  <2>11. a \in Answer /\ Len(a.cites) <= MaxCited
    BY <1>1, <2>1, <2>8, <2>10 DEF Answer
  <2>12. /\ top \in a.said \cap (Range(hits) \ Junk)
         /\ Range(a.cites) = {SourceOf[top]}
         /\ Match[q][top].cov >= IF top \in Fact THEN 50 ELSE 60
         /\ top \in Fact \/ Match[q][top].sem >= 42
    BY <2>1, <2>2, <2>3, <2>4, <2>8, <2>10
  <2> HIDE DEF top
  <2>13. Grounded(q, hits, a)
    BY <2>1, <2>12 DEF Grounded
  <2>14. QED
    BY <2>11, <2>13
<1>3. CASE ~sure
  <2> DEFINE cites == IF hits = <<>> THEN <<BestSource[q]>> ELSE FirstOf(Sources(hits), MaxCited)
  <2>1. a = [kind |-> "unsure", said |-> {}, cites |-> cites]
    BY <1>3 DEF answerFromKnowledge
  <2>2. <<BestSource[q]>> \in Seq(Source) /\ Len(<<BestSource[q]>>) = 1
    BY AskAssumption
  <2>3. FirstOf(Sources(hits), MaxCited) \in Seq(Source) /\ Len(FirstOf(Sources(hits), MaxCited)) <= MaxCited
    BY <1>1, SourcesShape, FirstOfShape
  <2>4. cites \in Seq(Source) /\ Len(cites) <= MaxCited
    BY <1>1, <2>2, <2>3
  <2> HIDE DEF cites
  <2>5. a \in Answer /\ Len(a.cites) <= MaxCited /\ a.kind = "unsure"
    BY <2>1, <2>4 DEF Answer
  <2>6. QED
    BY <2>5 DEF Grounded
<1>4. QED
  BY <1>2, <1>3

\* What the question of a process, its search and its answer are at all times.
Claims(a) == a.kind \in {"composed", "extracted"}
Sound(t, a, f) ==
    /\ t \in Task /\ a \in Answer /\ Len(a.cites) <= MaxCited
    /\ f \in Notice /\ FindSound(f) /\ InStep(t, a, f)
AllSound ==
    /\ task \in [Proc -> Task] /\ answer \in [Proc -> Answer] /\ find \in [Proc -> Notice]
    /\ \A p \in Proc : Sound(task[p], answer[p], find[p])

\* A step of p that leaves them so.
Becomes(p, t, a, f) ==
    /\ task' = [task EXCEPT ![p] = t] /\ answer' = [answer EXCEPT ![p] = a]
    /\ find' = [find EXCEPT ![p] = f]
Turns(p) == \E t, a, f : Sound(t, a, f) /\ Becomes(p, t, a, f)

LEMMA TurnsSound ==
  ASSUME AllSound, NEW p \in Proc, Turns(p)
  PROVE  AllSound'
<1> PICK t, a, f : Sound(t, a, f) /\ Becomes(p, t, a, f)
  BY DEF Turns
<1>1. t \in Task /\ a \in Answer /\ f \in Notice
  BY DEF Sound
<1>2. /\ task' \in [Proc -> Task] /\ answer' \in [Proc -> Answer] /\ find' \in [Proc -> Notice]
      /\ task'[p] = t /\ answer'[p] = a /\ find'[p] = f
      /\ \A r \in Proc : r # p => task'[r] = task[r] /\ answer'[r] = answer[r] /\ find'[r] = find[r]
  BY <1>1 DEF AllSound, Becomes
<1>3. ASSUME NEW r \in Proc PROVE Sound(task'[r], answer'[r], find'[r])
  BY <1>2 DEF AllSound
<1>4. QED
  BY <1>2, <1>3 DEF AllSound, Sound, InStep, Grounded, FindSound, isConfident, Context, Those, FirstOf

\* An answer that claims nothing claims nothing false.
LEMMA NoClaim ==
  ASSUME NEW q, NEW hits, NEW a, ~Claims(a)
  PROVE  Grounded(q, hits, a)
BY DEF Claims, Grounded

\* A question that goes on, with the answer it has.
LEMMA MovedTurns ==
  ASSUME AllSound, NEW p \in Proc, NEW t \in Task, NEW f,
         task' = [task EXCEPT ![p] = t], UNCHANGED answer, find' = [find EXCEPT ![p] = f],
         f \in Notice, FindSound(f), t.question = task[p].question,
         t.at \in {"retrieve", "consult"} => f.question = t.question,
         t.at = "consult" => t.mode = "run" /\ t.consulted,
         t.mode = "docs" /\ t.at \in {"model", "generate"} => Context(f.hits) # <<>>,
         Claims(answer[p]) => /\ f.hits = find[p].hits
                              /\ t.at = "idle" \/ (t.at = "generate" /\ t.consulted)
  PROVE  Turns(p)
<1> DEFINE a == answer[p]
<1>1. a \in Answer /\ Len(a.cites) <= MaxCited /\ InStep(task[p], a, find[p])
  BY DEF AllSound, Sound
<1>2. answer' = [answer EXCEPT ![p] = a]
  BY DEF AllSound
<1> HIDE DEF a
<1>3. Claims(a) => /\ f.hits = find[p].hits
                   /\ t.at = "idle" \/ (t.at = "generate" /\ t.consulted)
  BY DEF a
<1>4. Grounded(t.question, f.hits, a)
  <2>1. CASE Claims(a)
    BY <1>1, <1>3, <2>1 DEF InStep
  <2>2. CASE ~Claims(a)
    BY <2>2, NoClaim
  <2>3. QED
    BY <2>1, <2>2
<1>5. InStep(t, a, f)
  BY <1>3, <1>4 DEF InStep, Claims
<1>6. QED
  BY <1>1, <1>2, <1>5 DEF Sound, Becomes, Turns

\* A question that is over.
LEMMA AnsweredTurns ==
  ASSUME AllSound, NEW p \in Proc, NEW f, NEW kind, NEW said, NEW cites,
         Answered(p, kind, said, cites), find' = [find EXCEPT ![p] = f],
         f \in Notice, FindSound(f), cites \in Seq(Source), Len(cites) <= MaxCited,
         said \subseteq Sentence \cup Passage, kind \in {"failed", "declined", "composed"},
         Grounded(task[p].question, f.hits, [kind |-> kind, said |-> said, cites |-> cites])
  PROVE  Turns(p)
<1> DEFINE t == [task[p] EXCEPT !.at = "idle"]
           a == [kind |-> kind, said |-> said, cites |-> cites]
<1>1. t \in Task /\ t.at = "idle" /\ t.question = task[p].question
  BY DEF AllSound, Task
<1>2. a \in Answer /\ Len(a.cites) <= MaxCited
  BY DEF Answer
<1>3. task' = [task EXCEPT ![p] = t] /\ answer' = [answer EXCEPT ![p] = a]
  BY DEF Answered, Move
<1>4. Grounded(t.question, f.hits, a)
  BY <1>1
<1> HIDE DEF t, a
<1>5. InStep(t, a, f)
  BY <1>1, <1>4 DEF InStep
<1>6. QED
  BY <1>1, <1>2, <1>3, <1>5 DEF Sound, Becomes, Turns

\* A question that ends without a grounded answer.
LEMMA UnclaimedTurns ==
  ASSUME AllSound, NEW p \in Proc, NEW f, NEW kind \in {"failed", "declined"}, NEW said, said = {},
         NEW cites \in Seq(Source), Len(cites) <= MaxCited,
         Answered(p, kind, said, cites), find' = [find EXCEPT ![p] = f], f \in Notice, FindSound(f)
  PROVE  Turns(p)
<1> DEFINE a == [kind |-> kind, said |-> said, cites |-> cites]
<1>1. ~Claims(a)
  BY DEF Claims
<1>2. Grounded(task[p].question, f.hits, a)
  BY <1>1, NoClaim
<1>3. said \subseteq Sentence \cup Passage /\ kind \in {"failed", "declined", "composed"}
  OBVIOUS
<1>4. QED
  BY <1>2, <1>3, AnsweredTurns

LEMMA FailedTurns ==
  ASSUME AllSound, NEW p \in Proc, NEW f, Failed(p), find' = [find EXCEPT ![p] = f],
         f \in Notice, FindSound(f)
  PROVE  Turns(p)
<1> DEFINE kind == "failed"
           said == {}
           cites == <<>>
<1>1. Answered(p, kind, said, cites) /\ kind \in {"failed", "declined"} /\ said = {}
  BY DEF Failed
<1>2. cites \in Seq(Source) /\ Len(cites) <= MaxCited
  BY AskAssumption
<1> HIDE DEF kind, said, cites
<1>3. QED
  BY <1>1, <1>2, UnclaimedTurns

LEMMA DeclinedTurns ==
  ASSUME AllSound, NEW p \in Proc, NEW cites \in Seq(Source), Len(cites) <= MaxCited,
         Answered(p, "declined", {}, cites), UNCHANGED find
  PROVE  Turns(p)
<1> DEFINE kind == "declined"
           said == {}
<1>1. Answered(p, kind, said, cites) /\ kind \in {"failed", "declined"} /\ said = {}
  OBVIOUS
<1>2. find' = [find EXCEPT ![p] = find[p]] /\ find[p] \in Notice /\ FindSound(find[p])
  BY DEF AllSound, Sound
<1> HIDE DEF kind, said
<1>3. QED
  BY <1>1, <1>2, UnclaimedTurns

\* Every step of a question leaves it, its search and its answer sound.
LEMMA AskTurns ==
  ASSUME AllSound, RetrievalTypeOK, NEW p \in Proc, AskStep(p)
  PROVE  Turns(p) /\ StoresOK' /\ adrift' = adrift
<1>1. /\ task[p] \in Task /\ find[p] \in Notice /\ FindSound(find[p])
      /\ InStep(task[p], answer[p], find[p]) /\ StoresOK
      /\ find = [find EXCEPT ![p] = find[p]] /\ answer = [answer EXCEPT ![p] = answer[p]]
      /\ task = [task EXCEPT ![p] = task[p]]
  BY DEF AllSound, Sound, RetrievalTypeOK, StoresOK
<1> DEFINE q == task[p].question
<1>2. q \in Question
  BY <1>1 DEF Task
<1>3. Claims(answer[p]) => At(p, "idle") \/ (At(p, "generate") /\ task[p].consulted)
  BY <1>1 DEF InStep, Claims, At
<1>4. UNCHANGED retrievalVars => StoresOK' /\ find' = find
  BY <1>1 DEF retrievalVars, StoresOK
<1>5. ASSUME NEW place \in {"probe", "model", "generate", "idle"}, Move(p, place),
             UNCHANGED <<answer, find>>,
             Docs(p) /\ place \in {"model", "generate"} => Context(Hits(p)) # <<>>,
             Claims(answer[p]) => place = "idle"
      PROVE  Turns(p)
  <2> DEFINE t == [task[p] EXCEPT !.at = place]
  <2>1. t \in Task /\ t.at = place /\ t.question = q /\ t.mode = task[p].mode
    BY <1>1 DEF Task
  <2>2. task' = [task EXCEPT ![p] = t] /\ find' = [find EXCEPT ![p] = find[p]]
    BY <1>1, <1>5 DEF Move
  <2> HIDE DEF t
  <2>3. t.mode = "docs" /\ t.at \in {"model", "generate"} => Context(find[p].hits) # <<>>
    BY <1>5, <2>1 DEF Docs, Hits
  <2>4. t.at \notin {"retrieve", "consult"}
    BY <2>1
  <2>5. QED
    BY <1>1, <1>5, <2>1, <2>2, <2>3, <2>4, MovedTurns
<1>6. ASSUME NEW at \in {"retrieve", "consult"}, NEW t \in Task, task' = [task EXCEPT ![p] = t],
             t.at = at, t.question = q, at = "consult" => t.mode = "run" /\ t.consulted,
             UNCHANGED answer, ~Claims(answer[p]), StartRetrieval(p, q)
      PROVE  Turns(p)
  <2> DEFINE f == [NotAsked(q) EXCEPT !.at = "index"]
  <2>1. Search(q, f)
    BY <1>2, NotAskedSound
  <2>2. find' = [find EXCEPT ![p] = f]
    BY <1>6 DEF StartRetrieval
  <2> HIDE DEF f
  <2>3. f \in Notice /\ FindSound(f) /\ f.question = q
    BY <2>1 DEF Search
  <2>4. t.at \notin {"model", "generate"}
    BY <1>6
  <2>5. QED
    BY <1>6, <2>2, <2>3, <2>4, MovedTurns
<1>7. Failed(p) /\ UNCHANGED find => Turns(p)
  BY <1>1, FailedTurns
<1>8. CASE PassGate(p)
  <2>1. At(p, "gate") /\ UNCHANGED <<retrievalVars, adrift>>
        /\ ((Move(p, "probe") /\ UNCHANGED answer) \/ Failed(p))
    BY <1>8 DEF PassGate
  <2>2. ~Claims(answer[p])
    BY <1>3, <2>1 DEF At
  <2>3. QED
    BY <1>4, <1>5, <1>7, <2>1, <2>2
<1>9. CASE Probe(p)
  <2>1. At(p, "probe") /\ adrift' = adrift
    BY <1>9 DEF Probe
  <2>2. ~Claims(answer[p])
    BY <1>3, <2>1 DEF At
  <2>3. CASE Failed(p) /\ UNCHANGED retrievalVars
    BY <1>4, <1>7, <2>1, <2>3
  <2>4. CASE /\ Move(p, "retrieve") /\ StartRetrieval(p, q)
             /\ UNCHANGED <<answer, index, urlmap, pageCache, embedder, enriching>>
    <3> DEFINE t == [task[p] EXCEPT !.at = "retrieve"]
    <3>1. t \in Task /\ t.at = "retrieve" /\ t.question = q
      BY <1>1 DEF Task
    <3>2. task' = [task EXCEPT ![p] = t]
      BY <2>4 DEF Move
    <3> HIDE DEF t
    <3>3. Turns(p)
      BY <1>6, <2>2, <2>4, <3>1, <3>2
    <3>4. StoresOK'
      BY <1>1, <2>4 DEF StoresOK
    <3>5. QED
      BY <2>1, <3>3, <3>4
  <2>5. QED
    BY <1>9, <2>3, <2>4 DEF Probe
<1>10. CASE Retrieve(p)
  <2>1. /\ task[p].at \in {"retrieve", "consult"} /\ RetrievalStep(p)
        /\ UNCHANGED <<task, answer, adrift>>
    BY <1>10 DEF Retrieve, Searching, At, askVars
  <2>2. ~Claims(answer[p])
    BY <1>3, <2>1 DEF At
  <2>3. Search(q, find[p])
    BY <1>1, <2>1 DEF InStep, Search
  <2>4. StoresOK' /\ Finds(p, q)
    BY <2>1, <2>3, RetrievalSteps
  <2>5. PICK f : Search(q, f) /\ find' = [find EXCEPT ![p] = f]
    BY <2>4 DEF Finds
  <2>6. f \in Notice /\ FindSound(f) /\ f.question = q
    BY <2>5 DEF Search
  <2>7. task' = [task EXCEPT ![p] = task[p]]
    BY <1>1, <2>1
  <2>8. task[p].at = "consult" => task[p].mode = "run" /\ task[p].consulted
    BY <1>1 DEF InStep
  <2>9. Turns(p)
    BY <1>1, <2>1, <2>2, <2>5, <2>6, <2>7, <2>8, MovedTurns
  <2>10. QED
    BY <2>1, <2>4, <2>9
<1>11. CASE Prepare(p)
  <2>1. At(p, "retrieve") /\ UNCHANGED <<retrievalVars, adrift>>
    BY <1>11 DEF Prepare
  <2>2. ~Claims(answer[p])
    BY <1>3, <2>1 DEF At
  <2>3. CASE ~Docs(p) /\ Move(p, "model") /\ UNCHANGED answer
    BY <1>4, <1>5, <2>1, <2>2, <2>3
  <2>4. CASE Failed(p)
    BY <1>4, <1>7, <2>1, <2>4
  <2>5. CASE Answered(p, "declined", {}, <<BestSource[q]>>)
    <3>1. BestSource[q] \in Source /\ MaxCited \in Nat \ {0}
      BY <1>2, AskAssumption
    <3>2. <<BestSource[q]>> \in Seq(Source) /\ Len(<<BestSource[q]>>) <= MaxCited
      BY <3>1
    <3>3. QED
      BY <1>4, <2>1, <2>5, <3>2, DeclinedTurns
  <2>6. CASE Answered(p, "declined", {}, Cited(<<>>, Hits(p)))
    <3>1. Hits(p) \in Seq(Passage) /\ <<>> \in Seq(Passage)
      BY <1>1 DEF Hits, Notice
    <3>2. Cited(<<>>, Hits(p)) \in Seq(Source) /\ Len(Cited(<<>>, Hits(p))) <= MaxCited
      BY <3>1, CitedShape
    <3>3. QED
      BY <1>4, <2>1, <2>6, <3>2, DeclinedTurns
  <2>7. CASE Context(Hits(p)) # <<>> /\ Move(p, "model") /\ UNCHANGED answer
    BY <1>4, <1>5, <2>1, <2>2, <2>7
  <2>8. QED
    BY <1>11, <2>3, <2>4, <2>5, <2>6, <2>7 DEF Prepare
<1>12. CASE ResolveModel(p)
  <2>1. At(p, "model") /\ UNCHANGED <<retrievalVars, adrift>>
        /\ ((Move(p, "generate") /\ UNCHANGED answer) \/ Failed(p))
    BY <1>12 DEF ResolveModel
  <2>2. ~Claims(answer[p])
    BY <1>3, <2>1 DEF At
  <2>3. Docs(p) => Context(Hits(p)) # <<>>
    BY <1>1, <2>1 DEF InStep, Docs, At, Hits
  <2>4. QED
    BY <1>4, <1>5, <1>7, <2>1, <2>2, <2>3
<1>13. CASE Compose(p)
  <2>1. At(p, "generate") /\ Docs(p) /\ UNCHANGED <<retrievalVars, adrift>>
    BY <1>13 DEF Compose, Served
  <2>2. PICK said \in SUBSET Sentence :
            LET checked == verifyGrounding(said, Context(Hits(p))) IN
            IF checked.kept = {}
            THEN Answered(p, "declined", {}, Cited(<<>>, Hits(p)))
            ELSE Answered(p, "composed", checked.kept, Cited(checked.grounded, Hits(p)))
    BY <1>13 DEF Compose
  <2>3. Hits(p) \in Seq(Passage) /\ <<>> \in Seq(Passage) /\ Context(Hits(p)) # <<>>
    BY <1>1, <2>1 DEF Hits, Notice, InStep, Docs, At
  <2> DEFINE kept == verifyGrounding(said, Context(Hits(p))).kept
             cites == Cited(verifyGrounding(said, Context(Hits(p))).grounded, Hits(p))
             a == [kind |-> "composed", said |-> kept, cites |-> cites]
  <2>4. CASE kept = {}
    <3>1. Cited(<<>>, Hits(p)) \in Seq(Source) /\ Len(Cited(<<>>, Hits(p))) <= MaxCited
      BY <2>3, CitedShape
    <3>2. Answered(p, "declined", {}, Cited(<<>>, Hits(p)))
      BY <2>2, <2>4
    <3>3. QED
      BY <1>4, <2>1, <3>1, <3>2, DeclinedTurns
  <2>5. CASE kept # {}
    <3>1. Answered(p, "composed", kept, cites)
      BY <2>2, <2>5
    <3>2. a.kind = "composed" /\ a.said = kept /\ a.cites = cites
      OBVIOUS
    <3>3. Grounded(q, Hits(p), a) /\ a.said \subseteq Sentence /\ a.cites \in Seq(Source) /\ Len(a.cites) <= MaxCited
      <4> HIDE DEF a
      <4>1. QED
        BY <2>3, <2>5, <3>2, ComposedGrounded
    <3>4. kept \subseteq Sentence \cup Passage /\ cites \in Seq(Source) /\ Len(cites) <= MaxCited
      BY <3>2, <3>3
    <3>5. Grounded(task[p].question, find[p].hits, [kind |-> "composed", said |-> kept, cites |-> cites])
      BY <3>3 DEF Hits
    <3>6. find' = [find EXCEPT ![p] = find[p]] /\ "composed" \in {"failed", "declined", "composed"}
      BY <1>1, <1>4, <2>1
    <3> HIDE DEF kept, cites, a
    <3>7. Turns(p)
      BY <1>1, <3>1, <3>4, <3>5, <3>6, AnsweredTurns
    <3>8. QED
      BY <1>4, <2>1, <3>7
  <2>6. QED
    BY <2>4, <2>5
<1>14. CASE Conclude(p)
  BY <1>4, <1>5, <1>14 DEF Conclude
<1>15. CASE ModelFails(p)
  BY <1>4, <1>7, <1>15 DEF ModelFails
<1>16. CASE Consult(p)
  <2> DEFINE t == [task[p] EXCEPT !.at = "consult", !.consulted = TRUE]
  <2>1. /\ At(p, "generate") /\ ~Docs(p) /\ ~task[p].consulted /\ StartRetrieval(p, q)
        /\ task' = [task EXCEPT ![p] = t]
        /\ UNCHANGED <<answer, adrift, index, urlmap, pageCache, embedder, enriching>>
    BY <1>16 DEF Consult, Served
  <2>2. t \in Task /\ t.at = "consult" /\ t.question = q /\ t.mode = "run" /\ t.consulted
    BY <1>1, <2>1 DEF Task, Docs
  <2>3. ~Claims(answer[p])
    BY <1>3, <2>1 DEF At
  <2> HIDE DEF t
  <2>4. Turns(p)
    BY <1>6, <2>1, <2>2, <2>3
  <2>5. StoresOK'
    BY <1>1, <2>1 DEF StoresOK
  <2>6. QED
    BY <2>1, <2>4, <2>5
<1>17. CASE Consulted(p)
  <2> DEFINE t == [task[p] EXCEPT !.at = "generate"]
             a == IF find[p].at = "failed" THEN NoAnswer
                  ELSE answerFromKnowledge(q, Hits(p), find[p].confident)
  <2>1. /\ At(p, "consult") /\ task' = [task EXCEPT ![p] = t] /\ answer' = [answer EXCEPT ![p] = a]
        /\ UNCHANGED <<retrievalVars, adrift>>
    BY <1>17 DEF Consulted, Move
  <2>2. task[p].mode = "run" /\ task[p].consulted /\ find[p].question = q
    BY <1>1, <2>1 DEF InStep, At
  <2>3. t \in Task /\ t.at = "generate" /\ t.question = q /\ t.mode = "run" /\ t.consulted
    BY <1>1, <2>2 DEF Task
  <2>4. a \in Answer /\ Len(a.cites) <= MaxCited /\ Grounded(q, find[p].hits, a)
    <3>1. CASE find[p].at = "failed"
      <4>1. a = NoAnswer
        BY <3>1
      <4>2. NoAnswer \in Answer /\ Len(NoAnswer.cites) <= MaxCited /\ ~Claims(NoAnswer)
        BY AskAssumption DEF NoAnswer, Answer, Claims
      <4> HIDE DEF a
      <4>3. QED
        BY <4>1, <4>2, NoClaim
    <3>2. CASE find[p].at # "failed"
      <4>1. Search(q, find[p])
        BY <1>1, <2>2 DEF Search
      <4>2. /\ Clean(find[p].hits) /\ find[p].confident \in BOOLEAN
            /\ find[p].confident => isConfident(q, find[p].hits)
        BY <4>1, SearchParts
      <4>3. a = answerFromKnowledge(q, find[p].hits, find[p].confident)
        BY <3>2 DEF Hits
      <4> HIDE DEF a, q
      <4>4. QED
        BY <1>2, <4>2, <4>3, ExtractedGrounded
    <3>3. QED
      BY <3>1, <3>2
  <2> HIDE DEF t, a
  <2>5. InStep(t, a, find[p])
    BY <2>3, <2>4 DEF InStep
  <2>6. find' = [find EXCEPT ![p] = find[p]]
    BY <1>1, <1>4, <2>1
  <2>7. Turns(p)
    BY <1>1, <2>1, <2>3, <2>4, <2>5, <2>6 DEF Sound, Becomes, Turns
  <2>8. QED
    BY <1>4, <2>1, <2>7
<1>18. QED
  BY <1>8, <1>9, <1>10, <1>11, <1>12, <1>13, <1>14, <1>15, <1>16, <1>17 DEF AskStep

-----------------------------------------------------------------------------
(***************************************************************************)
(* What the steps do to settings, model object and gate.                   *)
(***************************************************************************)
ShellState == [at : Places, open : BOOLEAN, product : BOOLEAN,
               issue : Question \cup {None}, lines : 0 .. MaxLines + 1]

(* What is asked for a product has an issue to go on with.                 *)
ShellInv == /\ shell \in [Proc -> ShellState]
            /\ \A p \in Proc : In(p, "product") => shell[p].issue \in Question

(* The part of the types that these proofs rest on.                        *)
KeptTypes == ConfigTypeOK /\ LocalModelTypeOK /\ task \in [Proc -> Task]

(* Until saves race, at most one is under way; it puts back all settings   *)
(* but its own as they were last set; and between saves the file is right. *)
SaveInv ==
    ~raced =>
    /\ \A p, q \in Proc : Saving(p) /\ Saving(q) => p = q
    /\ ~Writing => config = lastSet
    /\ \A p \in Proc : Saving(p) =>
           edit[p].next = [lastSet EXCEPT ![edit[p].field] = edit[p].next[edit[p].field]]

(* Only the last process to choose a model is bound by its choice.         *)
ChoiceInv ==
    ~raced => \A p \in Proc : picked[p] # None =>
        /\ lastSet.model = picked[p]
        /\ cached[p] # None => cached[p].model = picked[p]

(* What a process that was vouched for discovers is the service; the gate  *)
(* asks what the environment names, if it names anything.                  *)
GateInv ==
    \A p \in Proc :
        /\ At(p, "probe") => /\ probing[p] # None
                             /\ EnvEndpoint[p] # None => probing[p] = EnvEndpoint[p]
        /\ vouched[p] => /\ service # None
                         /\ service = IF EnvEndpoint[p] # None THEN EnvEndpoint[p]
                                      ELSE endpointFile
                         /\ cached[p] # None => cached[p].url = service

SessionInv == ShellInv /\ KeptTypes /\ SaveInv /\ ChoiceInv /\ GateInv

(* The question of p goes somewhere else than to the probe of the gate.    *)
Leaves(p) == \E t \in Task : t.at # "probe" /\ task' = [task EXCEPT ![p] = t]
MovesOn(p) == task' = task \/ Leaves(p)

(* What a step of p does to settings, model object and gate.               *)
NoEffect(p) == MovesOn(p) /\ UNCHANGED <<configVars, modelVars>>
Saves(p) ==
    /\ task' = task
    /\ \/ \E m \in Model \cup {None} : LoadConfig(p, "model", m) /\ UNCHANGED modelVars
       \/ \E j \in Job : LoadConfig(p, "job", j) /\ UNCHANGED modelVars
       \/ TruncateConfig(p) /\ UNCHANGED modelVars
       \/ KilledSaving(p) /\ UNCHANGED modelVars
Gates(p) ==
    /\ UNCHANGED configVars
    /\ \/ \E a \in BOOLEAN : GateFinds(p, a) /\ Move(p, "probe")
       \/ \E a \in BOOLEAN : GateRefuses(p, a) /\ MovesOn(p)
       \/ At(p, "probe") /\ ProbeReaches(p) /\ Leaves(p)
       \/ ProbeFails(p) /\ Leaves(p)
GivesUp(p) ==
    /\ Leaves(p) /\ probing' = [probing EXCEPT ![p] = None]
    /\ UNCHANGED <<configVars, service, endpointFile, cached, picked, vouched>>
Resolving(p) ==
    /\ MovesOn(p)
    /\ \E a \in BOOLEAN : ModelResolved(p, a) \/ ModelUnresolved(p, a)
Effect(p) ==
    \/ NoEffect(p)
    \/ Saves(p)
    \/ ModelChosen(p) /\ task' = task
    \/ Gates(p)
    \/ GivesUp(p)
    \/ Resolving(p)
Outside == ServiceMoves /\ UNCHANGED <<configVars, task>>

\* A move to a place other than the probe.
LEMMA Moves ==
  ASSUME task \in [Proc -> Task], NEW p \in Proc,
         NEW place \in {"idle", "gate", "retrieve", "model", "generate", "consult"},
         Move(p, place)
  PROVE  Leaves(p)
<1> DEFINE t == [task[p] EXCEPT !.at = place]
<1>1. t \in Task /\ t.at # "probe"
  BY DEF Task
<1>2. task' = [task EXCEPT ![p] = t]
  BY DEF Move
<1> HIDE DEF t
<1> QED BY <1>1, <1>2 DEF Leaves

\* What a step of Ask or Session does to them.
Effects == (\E p \in Proc : Effect(p)) \/ Outside \/ UNCHANGED <<configVars, modelVars, task>>

\* The steps of a question fall into these kinds.
LEMMA AskEffects ==
  ASSUME task \in [Proc -> Task], NEW p \in Proc, AskStep(p)
  PROVE  Effect(p)
<1> USE DEF Effect, MovesOn
<1>2. \A kind, said, cites : Answered(p, kind, said, cites) => Leaves(p)
  BY Moves DEF Answered
<1>3. Failed(p) => Leaves(p)
  BY <1>2 DEF Failed
<1>4. CASE PassGate(p)
  BY <1>4, <1>3 DEF PassGate, Gates
<1>5. CASE Probe(p)
  BY <1>5, <1>3, Moves DEF Probe, Gates
<1>6. CASE Retrieve(p)
  BY <1>6 DEF Retrieve, askVars, NoEffect, MovesOn
<1>7. CASE Prepare(p)
  BY <1>7, Moves, <1>2, <1>3 DEF Prepare, NoEffect
<1>8. CASE ResolveModel(p)
  BY <1>8, Moves, <1>3 DEF ResolveModel, NoEffect, Resolving, ModelKnown
<1>9. CASE Compose(p)
  BY <1>9, <1>2 DEF Compose, NoEffect
<1>10. CASE Conclude(p)
  BY <1>10, Moves DEF Conclude, NoEffect
<1>11. CASE ModelFails(p)
  BY <1>11, <1>3 DEF ModelFails, NoEffect
<1>12. CASE Consult(p)
  <2> DEFINE t == [task[p] EXCEPT !.at = "consult", !.consulted = TRUE]
  <2>1. t \in Task /\ t.at # "probe"
    BY DEF Task
  <2>2. task' = [task EXCEPT ![p] = t] /\ UNCHANGED <<configVars, modelVars>>
    BY <1>12 DEF Consult
  <2> HIDE DEF t
  <2> QED BY <2>1, <2>2 DEF NoEffect, Leaves
<1>13. CASE Consulted(p)
  BY <1>13, Moves DEF Consulted, NoEffect
<1> QED BY <1>4, <1>5, <1>6, <1>7, <1>8, <1>9, <1>10, <1>11, <1>12, <1>13 DEF AskStep

LEMMA TypesKept ==
  ASSUME KeptTypes, Effects
  PROVE  KeptTypes'
<1> USE DEF KeptTypes, ConfigTypeOK, LocalModelTypeOK, Settings
<1>1. \A p \in Proc : MovesOn(p) \/ Leaves(p) => (task \in [Proc -> Task])'
  BY DEF MovesOn, Leaves
<1>2. ASSUME NEW p \in Proc, NoEffect(p)
      PROVE  KeptTypes'
  BY <1>1, <1>2 DEF NoEffect, configVars, modelVars
<1>3. ASSUME NEW p \in Proc, Saves(p)
      PROVE  KeptTypes'
  <2>1. UNCHANGED <<modelVars, task>>
    BY <1>3 DEF Saves
  <2>2. CASE \E m \in Model \cup {None} : LoadConfig(p, "model", m)
    <3> PICK m \in Model \cup {None} : LoadConfig(p, "model", m)
      BY <2>2
    <3>1. [config EXCEPT !["model"] = m] \in Settings
      OBVIOUS
    <3> QED BY <2>1, <3>1 DEF LoadConfig, modelVars
  <2>3. CASE \E j \in Job : LoadConfig(p, "job", j)
    <3> PICK j \in Job : LoadConfig(p, "job", j)
      BY <2>3
    <3>1. [config EXCEPT !["job"] = j] \in Settings
      OBVIOUS
    <3> QED BY <2>1, <3>1 DEF LoadConfig, modelVars
  <2>4. CASE TruncateConfig(p)
    BY <2>1, <2>4, ZenonT(40) DEF TruncateConfig, modelVars, NoSettings
  <2>5. CASE KilledSaving(p)
    BY <2>1, <2>5 DEF KilledSaving, modelVars, NoSettings, Idle
  <2> QED BY <1>3, <2>2, <2>3, <2>4, <2>5 DEF Saves
<1>4. ASSUME NEW p \in Proc, ModelChosen(p), task' = task
      PROVE  KeptTypes'
  BY <1>4 DEF ModelChosen, WriteConfig, NoSettings, Idle
<1>5. ASSUME NEW p \in Proc, Gates(p)
      PROVE  KeptTypes'
  <2>1. UNCHANGED configVars
    BY <1>5 DEF Gates
  <2>2. ASSUME NEW a \in BOOLEAN, GateFinds(p, a), Move(p, "probe")
        PROVE  KeptTypes'
    <3>1. task[p] \in Task
      OBVIOUS
    <3> HIDE DEF KeptTypes
    <3>3. [task[p] EXCEPT !.at = "probe"] \in Task
      BY <3>1 DEF Task
    <3>2. (task \in [Proc -> Task])'
      BY <3>3, <2>2 DEF Move, KeptTypes
    <3> USE DEF KeptTypes
    <3> QED BY <2>1, <2>2, <3>2 DEF GateFinds, Remember, Status, isLoopbackEndpoint, configVars
  <2>3. ASSUME NEW a \in BOOLEAN, GateRefuses(p, a), MovesOn(p)
        PROVE  KeptTypes'
    BY <1>1, <2>1, <2>3 DEF GateRefuses, Remember, Status, configVars
  <2>4. ASSUME ProbeReaches(p) \/ ProbeFails(p), Leaves(p)
        PROVE  KeptTypes'
    BY <1>1, <2>1, <2>4 DEF ProbeReaches, ProbeFails, configVars
  <2> QED BY <1>5, <2>2, <2>3, <2>4 DEF Gates
<1>6. ASSUME NEW p \in Proc, GivesUp(p)
      PROVE  KeptTypes'
  BY <1>1, <1>6 DEF GivesUp, configVars
<1>7. ASSUME NEW p \in Proc, Resolving(p)
      PROVE  KeptTypes'
  <2>1. (task \in [Proc -> Task])'
    BY <1>1, <1>7 DEF Resolving
  <2> PICK a \in BOOLEAN : ModelResolved(p, a) \/ ModelUnresolved(p, a)
    BY <1>7 DEF Resolving
  <2>2. CASE ModelResolved(p, a)
    <3>1. getActiveModelId(p) \in Model /\ Discovered(p, a) \in Port
      BY <2>2, ModelAssumption DEF ModelResolved, Resolvable, getActiveModelId, isLoopbackEndpoint
    <3> QED BY <2>1, <2>2, <3>1 DEF ModelResolved, Remember, Status
  <2>3. CASE ModelUnresolved(p, a)
    BY <2>1, <2>3 DEF ModelUnresolved, Status
  <2> QED BY <2>2, <2>3
<1>8. CASE Outside
  BY <1>8 DEF Outside, ServiceMoves, configVars
<1>9. CASE UNCHANGED <<configVars, modelVars, task>>
  BY <1>9 DEF configVars, modelVars
<1> QED BY <1>2, <1>3, <1>4, <1>5, <1>6, <1>7, <1>8, <1>9 DEF Effect, Effects

-----------------------------------------------------------------------------
(***************************************************************************)
(* What goes on beside a question, in a process of its own and in Ask and  *)
(* Session alike.                                                          *)
(***************************************************************************)
\* The questions of all processes, and what is stored for them.
Quests == /\ (\E p \in Proc : Turns(p)) \/ UNCHANGED <<task, answer, find>>
          /\ StoresOK' /\ adrift' \in [Proc -> BOOLEAN]

LEMMA AskInvParts ==
  AskInv <=> /\ ConfigTypeOK /\ LocalModelTypeOK /\ StoresOK /\ AllSound
             /\ adrift \in [Proc -> BOOLEAN]
BY DEF AskInv, AskingTypeOK, AskTypeOK, RetrievalTypeOK, StoresOK, AllSound, Sound

\* The invariant of questions follows for the next state.
LEMMA AskInvKept ==
  ASSUME AskInv, Quests, KeptTypes'
  PROVE  AskInv'
<1>1. AllSound'
  <2>1. AllSound
    BY AskInvParts
  <2>2. CASE UNCHANGED <<task, answer, find>>
    <3>1. \A p \in Proc : Sound(task'[p], answer'[p], find'[p])
      BY <2>1, <2>2 DEF AllSound
    <3>2. task' \in [Proc -> Task] /\ answer' \in [Proc -> Answer] /\ find' \in [Proc -> Notice]
      BY <2>1, <2>2 DEF AllSound
    <3>3. QED
      BY <3>1, <3>2 DEF AllSound, Sound, InStep, Grounded, FindSound, isConfident, Context, Those, FirstOf
  <2>3. QED
    BY <2>1, <2>2, TurnsSound DEF Quests
<1>2. (ConfigTypeOK /\ LocalModelTypeOK /\ StoresOK /\ adrift \in [Proc -> BOOLEAN])'
  BY DEF KeptTypes, Quests
<1>3. AskInv' <=> (/\ ConfigTypeOK /\ LocalModelTypeOK /\ StoresOK /\ AllSound
                   /\ adrift \in [Proc -> BOOLEAN])'
  BY AskInvParts, PTL
<1>4. QED
  BY <1>1, <1>2, <1>3

\* A question begins whatever the last one left.
LEMMA BeginTurns ==
  ASSUME AllSound, NEW p \in Proc, NEW mode \in {"docs", "run"}, NEW q \in Question,
         StartAsk(p, mode, q), UNCHANGED find
  PROVE  Turns(p)
<1> DEFINE t == [at |-> "gate", mode |-> mode, question |-> q, consulted |-> FALSE]
           f == find[p]
<1>1. t \in Task /\ t.at = "gate"
  BY DEF Task
<1>2. f \in Notice /\ FindSound(f) /\ find' = [find EXCEPT ![p] = f]
  BY DEF AllSound, Sound
<1>3. NoAnswer \in Answer /\ Len(NoAnswer.cites) <= MaxCited /\ ~Claims(NoAnswer)
  BY AskAssumption DEF NoAnswer, Answer, Claims
<1>4. task' = [task EXCEPT ![p] = t] /\ answer' = [answer EXCEPT ![p] = NoAnswer]
  BY DEF StartAsk
<1> HIDE DEF t, f
<1>5. Grounded(t.question, f.hits, NoAnswer)
  BY <1>3, NoClaim
<1>6. InStep(t, NoAnswer, f)
  BY <1>1, <1>3, <1>5 DEF InStep, Claims
<1>7. QED
  BY <1>1, <1>2, <1>3, <1>4, <1>6 DEF Sound, Becomes, Turns

LEMMA BeginEffect ==
  ASSUME NEW p \in Proc, NEW mode \in {"docs", "run"}, NEW q \in Question,
         StartAsk(p, mode, q), UNCHANGED <<configVars, modelVars>>
  PROVE  Effect(p)
<1> DEFINE t == [at |-> "gate", mode |-> mode, question |-> q, consulted |-> FALSE]
<1>1. t \in Task /\ t.at # "probe"
  BY DEF Task
<1>2. task' = [task EXCEPT ![p] = t]
  BY DEF StartAsk
<1> HIDE DEF t
<1>3. Leaves(p)
  BY <1>1, <1>2 DEF Leaves
<1>4. QED
  BY <1>3 DEF NoEffect, MovesOn, Effect

\* A run that is given up, and what is left of it.
LEMMA BesideEffect ==
  ASSUME task \in [Proc -> Task], NEW p \in Proc, Beside(p) \/ RunTimesOut(p)
  PROVE  Effect(p)
<1>1. CASE StragglerEnds(p) \/ Enrich(p)
  BY <1>1 DEF StragglerEnds, Enrich, askVars, Effect, NoEffect, MovesOn
<1>2. CASE StragglerResolves(p)
  BY <1>2 DEF StragglerResolves, Resolving, MovesOn, askVars, Effect
<1>3. CASE RunTimesOut(p)
  BY <1>3, Moves DEF RunTimesOut, Failed, Answered, GivesUp, Effect
<1>4. QED
  BY <1>1, <1>2, <1>3 DEF Beside

LEMMA BesideQuests ==
  ASSUME AllSound, StoresOK, adrift \in [Proc -> BOOLEAN], NEW p \in Proc,
         Beside(p) \/ RunTimesOut(p)
  PROVE  Quests
<1>1. CASE StragglerEnds(p)
  BY <1>1 DEF StragglerEnds, retrievalVars, Quests, StoresOK
<1>2. CASE StragglerResolves(p)
  BY <1>2 DEF StragglerResolves, retrievalVars, askVars, Quests, StoresOK
<1>3. CASE Enrich(p)
  <2>1. PICK added \in {{}, enriching[p]} :
            /\ index' = index \cup added /\ enriching' = [enriching EXCEPT ![p] = {}]
            /\ UNCHANGED <<urlmap, pageCache, embedder, find, task, answer, adrift>>
    BY <1>3 DEF Enrich, Enriched, askVars
  <2>2. added \subseteq Passage
    BY DEF StoresOK
  <2>3. StoresOK'
    BY <2>1, <2>2 DEF StoresOK
  <2>4. QED
    BY <2>1, <2>3 DEF Quests
<1>4. CASE RunTimesOut(p)
  <2> DEFINE q == task[p].question
             f == NotAsked(q)
  <2>1. Failed(p) /\ find' = [find EXCEPT ![p] = NotAsked(q)] /\ adrift' \in [Proc -> BOOLEAN]
        /\ UNCHANGED <<index, urlmap, pageCache, embedder, enriching>>
    BY <1>4 DEF RunTimesOut
  <2>2. q \in Question
    BY DEF AllSound, Task
  <2> HIDE DEF q
  <2>4. Search(q, f)
    BY <2>2, NotAskedSound
  <2> HIDE DEF f
  <2>5. Turns(p)
    BY <2>1, <2>4, FailedTurns DEF Search, f
  <2>6. QED
    BY <2>1, <2>5 DEF Quests, StoresOK
<1>5. QED
  BY <1>1, <1>2, <1>3, <1>4 DEF Beside

\* The start: nothing asked, nothing found.
LEMMA AskInvInit == AskingInit => AskInv /\ KeptTypes
<1> SUFFICES ASSUME AskingInit PROVE AskInv /\ KeptTypes
  OBVIOUS
<1>1. ConfigTypeOK
  BY DEF AskingInit, ConfigInit, ConfigTypeOK, Settings, NoSettings, Idle
<1>2. LocalModelTypeOK
  BY DEF AskingInit, LocalModelInit, LocalModelTypeOK
<1>3. PICK q \in Question : task = [p \in Proc |-> Resting(q)]
  BY DEF AskingInit, AskInit
<1>4. PICK r \in Question : find = [p \in Proc |-> NotAsked(r)]
  BY DEF AskingInit, RetrievalInit
<1>5. Resting(q) \in Task /\ Resting(q).at = "idle"
  BY DEF Resting, Task
<1>6. NoAnswer \in Answer /\ Len(NoAnswer.cites) <= MaxCited /\ ~Claims(NoAnswer)
  BY AskAssumption DEF NoAnswer, Answer, Claims
<1>7. NotAsked(r) \in Notice /\ FindSound(NotAsked(r))
  BY NotAskedSound DEF Search
<1>8. InStep(Resting(q), NoAnswer, NotAsked(r))
  BY <1>5, <1>6, NoClaim DEF InStep, Claims
<1>9. task \in [Proc -> Task] /\ answer \in [Proc -> Answer] /\ find \in [Proc -> Notice]
      /\ \A p \in Proc : task[p] = Resting(q) /\ answer[p] = NoAnswer /\ find[p] = NotAsked(r)
  BY <1>3, <1>4, <1>5, <1>6, <1>7 DEF AskingInit, AskInit
<1>10. AllSound
  BY <1>5, <1>6, <1>7, <1>8, <1>9 DEF AllSound, Sound
<1>11. StoresOK /\ adrift \in [Proc -> BOOLEAN]
  <2>1. UNION {OnPage[page] : page \in pageCache} \subseteq Passage /\ pageCache \subseteq Page
    BY RetrievalAssumption DEF AskingInit, RetrievalInit
  <2>2. urlmap \in [links : SUBSET Page, age : {"fresh", "stale"}]
    BY DEF AskingInit, RetrievalInit, NoMap
  <2>3. index \subseteq Passage
    BY <2>1 DEF AskingInit, RetrievalInit
  <2>4. QED
    BY <2>1, <2>2, <2>3 DEF AskingInit, RetrievalInit, AskInit, StoresOK
<1>12. QED
  BY <1>1, <1>2, <1>9, <1>10, <1>11, AskInvParts DEF KeptTypes

-----------------------------------------------------------------------------
(***************************************************************************)
(* Processes that do nothing but ask.                                      *)
(***************************************************************************)
LEMMA AskingSteps ==
  ASSUME AskInv, [AskingNext]_askingVars
  PROVE  Effects /\ Quests
<1>1. /\ AllSound /\ StoresOK /\ RetrievalTypeOK /\ adrift \in [Proc -> BOOLEAN]
      /\ task \in [Proc -> Task]
  BY AskInvParts DEF AllSound, AskInv, AskingTypeOK
<1>2. CASE UNCHANGED askingVars
  BY <1>1, <1>2 DEF askingVars, retrievalVars, askVars, Effects, Quests, StoresOK
<1>3. CASE Restart
  BY <1>1, <1>3 DEF Restart, Outside, retrievalVars, askVars, Effects, Quests, StoresOK
<1>4. ASSUME NEW p \in Proc, AskStep(p)
      PROVE  Effects /\ Quests
  BY <1>1, <1>4, AskEffects, AskTurns DEF Effects, Quests
<1>5. ASSUME NEW p \in Proc, Beside(p) \/ RunTimesOut(p)
      PROVE  Effects /\ Quests
  BY <1>1, <1>5, BesideEffect, BesideQuests DEF Effects
<1>6. ASSUME NEW p \in Proc, Begin(p)
      PROVE  Effects /\ Quests
  <2>1. PICK mode \in {"docs", "run"}, q \in Question : StartAsk(p, mode, q)
    BY <1>6 DEF Begin
  <2>2. UNCHANGED <<configVars, modelVars, retrievalVars, adrift>>
    BY <1>6, <2>1 DEF Begin, StartAsk
  <2>3. Effect(p)
    BY <2>1, <2>2, BeginEffect
  <2>4. Turns(p)
    BY <1>1, <2>1, <2>2, BeginTurns DEF retrievalVars
  <2>5. StoresOK' /\ adrift' \in [Proc -> BOOLEAN]
    BY <1>1, <2>2 DEF retrievalVars, StoresOK
  <2>6. QED
    BY <2>3, <2>4, <2>5 DEF Effects, Quests
<1>7. QED
  BY <1>2, <1>3, <1>4, <1>5, <1>6 DEF AskingNext

(* For any knowledge, model and number of processes: a search stays that   *)
(* of the question asked, what it claims to be sure of it has, what is     *)
(* composed has a context, and no later search replaces the passages an    *)
(* answer rests on.                                                        *)
THEOREM AskingInvariant == AskingSpec => []AskInv
<1>1. AskingInit => AskInv
  BY AskInvInit
<1>2. AskInv /\ [AskingNext]_askingVars => AskInv'
  <2> SUFFICES ASSUME AskInv, [AskingNext]_askingVars PROVE AskInv'
    OBVIOUS
  <2>1. Effects /\ Quests
    BY AskingSteps
  <2>2. KeptTypes
    BY DEF AskInv, AskingTypeOK, AskTypeOK, KeptTypes
  <2>3. KeptTypes'
    BY <2>1, <2>2, TypesKept
  <2>4. QED
    BY <2>1, <2>3, AskInvKept
<1>3. QED
  BY <1>1, <1>2, PTL DEF AskingSpec

(* Whatever the model says and whatever is fetched meanwhile, what is      *)
(* shown as composed rests, sentence by sentence and source by source, on  *)
(* passages that were found and are no error pages; what the tool is sure  *)
(* of leads with a fact or a passage that fits.                            *)
THEOREM AnswersAreGrounded == AskingSpec => []AnswersGrounded
<1>1. AskInv => AnswersGrounded
  BY DEF AskInv, InStep, AnswersGrounded, Hits
<1>2. QED
  BY <1>1, AskingInvariant, PTL

-----------------------------------------------------------------------------
(***************************************************************************)
(* The front ends.                                                         *)
(***************************************************************************)
\* A shell keeps its types, whatever is typed.
LEMMA ShellSteps ==
  ASSUME ShellInv, [Next]_vars
  PROVE  ShellInv'
<1> SUFFICES ASSUME Next, shell' # shell
             PROVE  ShellInv'
  BY DEF ShellInv, In, vars
<1> PICK p \in Proc : Step(p) \/ Event(p) \/ Killed(p) \/ User(p)
  BY DEF Next
<1> DEFINE Puts(t) == /\ t \in ShellState /\ (t.at = "product" => t.issue \in Question)
                      /\ shell' = [shell EXCEPT ![p] = t]
<1>1. (\E t : Puts(t)) => ShellInv'
  BY DEF ShellInv, In
<1>2. \A place \in Places \ {"product"} : Turn(p, place) => \E t : Puts(t)
  <2> TAKE place \in Places \ {"product"}
  <2> Puts([shell[p] EXCEPT !.at = place]) <=> Turn(p, place)
    BY DEF Turn, ShellInv, ShellState
  <2> QED OBVIOUS
<1>3. ASSUME NEW kind, Reads(p, kind), NEW place \in Places
      PROVE  /\ Typed(p, place) \in ShellState
             /\ Typed(p, place).at = place /\ Typed(p, place).issue = shell[p].issue
  <2>1. shell[p] \in ShellState /\ MaxLines \in Nat /\ shell[p].lines + 1 \in 0 .. MaxLines + 1
    BY <1>3, SessionAssumption DEF Reads, ShellInv, ShellState
  <2> QED BY <2>1 DEF Typed, ShellState
<1>4. CASE DocsLine(p)
  <2> Puts(Typed(p, "asking"))
    BY <1>4, <1>3 DEF DocsLine, Places
  <2> QED BY <1>1
<1>5. CASE ModelLine(p) \/ EnqueueLine(p)
  <2> Puts(Typed(p, "saving"))
    BY <1>5, <1>3 DEF ModelLine, EnqueueLine, Places
  <2> QED BY <1>1
<1>6. CASE IssueLine(p)
  <2> PICK q \in Question, named \in BOOLEAN : IssueLine(p)!(q, named)
    BY <1>6 DEF IssueLine
  <2> DEFINE known == named \/ shell[p].product \/ p \notin Shells
             at == IF known THEN "asking" ELSE "product"
             t == [Typed(p, at) EXCEPT !.product = known, !.issue = IF known THEN None ELSE q]
  <2>1. shell[p] \in ShellState /\ Reads(p, "issue") /\ shell' = [shell EXCEPT ![p] = t]
    BY DEF ShellInv
  <2>2. known \in BOOLEAN /\ at \in Places /\ (at = "product" => ~known)
    BY <2>1 DEF ShellState, Places
  <2>3. Typed(p, at) \in ShellState /\ Typed(p, at).at = at
    BY <2>1, <2>2, <1>3
  <2> HIDE DEF known, at
  <2>4. t \in ShellState /\ t.at = at /\ (~known => t.issue = q)
    BY <2>2, <2>3 DEF ShellState
  <2> HIDE DEF t
  <2>5. Puts(t)
    BY <2>1, <2>2, <2>4
  <2> QED BY <2>5, <1>1
<1>7. CASE ProductLine(p)
  <2> PICK supported \in BOOLEAN : ProductLine(p)!(supported)
    BY <1>7 DEF ProductLine
  <2> DEFINE t == [shell[p] EXCEPT !.at = IF supported THEN "asking" ELSE "prompt",
                                   !.product = supported, !.issue = None]
  <2>1. shell[p] \in ShellState /\ shell' = [shell EXCEPT ![p] = t]
    BY DEF ShellInv
  <2>2. t \in ShellState /\ t.at # "product"
    BY <2>1 DEF ShellState, Places
  <2> HIDE DEF t
  <2>3. Puts(t)
    BY <2>1, <2>2
  <2> QED BY <2>3, <1>1
<1>8. CASE ExitLine(p)
  <2> DEFINE t == [Typed(p, "leaving") EXCEPT !.open = FALSE]
  <2>1. Typed(p, "leaving") \in ShellState /\ Typed(p, "leaving").at = "leaving"
    BY <1>8, <1>3 DEF ExitLine, Places
  <2>2. t \in ShellState /\ t.at = "leaving" /\ shell' = [shell EXCEPT ![p] = t]
    BY <2>1, <1>8 DEF ExitLine, ShellState
  <2> HIDE DEF t
  <2>3. Puts(t)
    BY <2>2
  <2> QED BY <2>3, <1>1
<1>9. CASE CloseInput(p)
  <2> Puts([shell[p] EXCEPT !.open = FALSE])
    BY <1>9 DEF CloseInput, ShellInv, ShellState, In
  <2> QED BY <1>1
<1>10. CASE Return(p) \/ PromptClosed(p) \/ Ends(p) \/ Killed(p)
  <2>1. \E place \in Places \ {"product"} : Turn(p, place)
    BY <1>10 DEF Return, PromptClosed, Ends, Killed, Turn, Places
  <2> QED BY <2>1, <1>1, <1>2
<1> QED BY <1>4, <1>5, <1>6, <1>7, <1>8, <1>9, <1>10 DEF Step, Event, User, Save

\* The steps of a shell or command fall into the same kinds.
LEMMA SessionEffects ==
  ASSUME task \in [Proc -> Task], ShellInv, [Next]_vars
  PROVE  Effects
<1> SUFFICES ASSUME Next
             PROVE  (\E p \in Proc : Effect(p)) \/ Outside
  BY DEF vars, askingVars, askVars, Effects
<1>1. CASE Restart
  BY <1>1 DEF Restart, Outside, askVars
<1>2. ASSUME NEW p \in Proc, Step(p) \/ Event(p) \/ Killed(p) \/ User(p)
      PROVE  Effect(p)
  <2> USE DEF Effect
  <2>1. UNCHANGED <<configVars, modelVars, task>> => Effect(p)
    BY DEF NoEffect, MovesOn
  <2>2. Undisturbed => Effect(p)
    BY <2>1 DEF Undisturbed, askingVars, askVars
  <2>3. \A mode \in {"docs", "run"}, q \in Question : BeginAsk(p, mode, q) => Effect(p)
    <3> SUFFICES ASSUME NEW mode \in {"docs", "run"}, NEW q \in Question, BeginAsk(p, mode, q)
                 PROVE  Effect(p)
      OBVIOUS
    <3> DEFINE t == [at |-> "gate", mode |-> mode, question |-> q, consulted |-> FALSE]
    <3>1. t \in Task /\ t.at # "probe"
      BY DEF Task
    <3>2. task' = [task EXCEPT ![p] = t] /\ UNCHANGED <<configVars, modelVars>>
      BY DEF BeginAsk, StartAsk
    <3> HIDE DEF t
    <3> QED BY <3>1, <3>2 DEF NoEffect, MovesOn, Leaves
  <2>4. CASE AskStep(p)
    BY <2>4, AskEffects
  <2>5. CASE StragglerEnds(p) \/ Enrich(p)
    BY <2>5, <2>1 DEF StragglerEnds, Enrich, askVars
  <2>6. CASE Save(p)
    BY <2>6 DEF Save, Saves, askVars
  <2>7. CASE Return(p) \/ PromptClosed(p) \/ Ends(p)
    BY <2>7, <2>2 DEF Return, PromptClosed, Ends
  <2>8. CASE StragglerResolves(p)
    BY <2>8 DEF StragglerResolves, Resolving, MovesOn, askVars
  <2>9. CASE RunTimesOut(p)
    BY <2>9, Moves DEF RunTimesOut, Failed, Answered, GivesUp
  <2>10. CASE Killed(p)
    BY <2>10 DEF Killed, Saves
  <2>11. CASE DocsLine(p)
    BY <2>11, <2>3 DEF DocsLine
  <2>12. CASE ModelLine(p) \/ EnqueueLine(p)
    BY <2>12 DEF ModelLine, EnqueueLine, BeginSave, Saves, askVars
  <2>13. CASE IssueLine(p)
    BY <2>13, <2>2, <2>3 DEF IssueLine
  <2>14. CASE ProductLine(p)
    BY <2>14, <2>2, <2>3 DEF ProductLine, ShellInv
  <2>15. CASE ExitLine(p) \/ CloseInput(p)
    BY <2>15, <2>2 DEF ExitLine, CloseInput
  <2> QED BY <1>2, <2>4, <2>5, <2>6, <2>7, <2>8, <2>9, <2>10, <2>11, <2>12, <2>13, <2>14, <2>15
          DEF Step, Event, User
<1> QED BY <1>1, <1>2 DEF Next

\* What the front ends do to questions: they begin some.
LEMMA SessionQuests ==
  ASSUME ShellInv, AskInv, [Next]_vars
  PROVE  Quests
<1>1. /\ AllSound /\ StoresOK /\ RetrievalTypeOK /\ adrift \in [Proc -> BOOLEAN]
  BY AskInvParts DEF AskInv, AskingTypeOK
<1>2. UNCHANGED <<retrievalVars, askVars>> => Quests
  BY <1>1 DEF retrievalVars, askVars, Quests, StoresOK
<1>3. Undisturbed \/ UNCHANGED vars => Quests
  BY <1>2 DEF Undisturbed, vars, askingVars
<1>4. \A p \in Proc, mode \in {"docs", "run"}, q \in Question : BeginAsk(p, mode, q) => Quests
  <2> SUFFICES ASSUME NEW p \in Proc, NEW mode \in {"docs", "run"}, NEW q \in Question,
                      BeginAsk(p, mode, q)
               PROVE  Quests
    OBVIOUS
  <2>1. StartAsk(p, mode, q) /\ UNCHANGED <<retrievalVars, adrift>>
    BY DEF BeginAsk, StartAsk
  <2>2. Turns(p)
    BY <1>1, <2>1, BeginTurns DEF retrievalVars
  <2>3. StoresOK' /\ adrift' \in [Proc -> BOOLEAN]
    BY <1>1, <2>1 DEF retrievalVars, StoresOK
  <2>4. QED
    BY <2>2, <2>3 DEF Quests
<1>5. ASSUME NEW p \in Proc, Step(p) \/ Event(p)
      PROVE  Quests
  <2>1. CASE AskStep(p)
    BY <1>1, <2>1, AskTurns DEF Quests
  <2>2. CASE StragglerEnds(p) \/ Enrich(p) \/ StragglerResolves(p) \/ RunTimesOut(p)
    BY <1>1, <2>2, BesideQuests DEF Beside
  <2>3. CASE Save(p)
    BY <1>2, <2>3 DEF Save
  <2>4. CASE Return(p) \/ PromptClosed(p) \/ Ends(p)
    BY <1>3, <2>4 DEF Return, PromptClosed, Ends
  <2>5. QED
    BY <1>5, <2>1, <2>2, <2>3, <2>4 DEF Step, Event
<1>6. ASSUME NEW p \in Proc, Killed(p)
      PROVE  Quests
  <2>1. UNCHANGED <<index, urlmap, pageCache, embedder, find, task, answer>>
    BY <1>6 DEF Killed
  <2>2. adrift' \in [Proc -> BOOLEAN] /\ enriching' \in [Proc -> SUBSET (Passage \ Junk)]
    BY <1>1, <1>6 DEF Killed, StoresOK
  <2>3. QED
    BY <1>1, <2>1, <2>2 DEF Quests, StoresOK
<1>7. ASSUME NEW p \in Proc, User(p)
      PROVE  Quests
  <2>1. CASE DocsLine(p)
    BY <1>4, <2>1 DEF DocsLine
  <2>2. CASE ModelLine(p) \/ EnqueueLine(p)
    BY <1>2, <2>2 DEF ModelLine, EnqueueLine, BeginSave
  <2>3. CASE IssueLine(p)
    BY <1>3, <1>4, <2>3 DEF IssueLine
  <2>4. CASE ProductLine(p)
    BY <1>3, <1>4, <2>4 DEF ProductLine, ShellInv
  <2>5. CASE ExitLine(p) \/ CloseInput(p)
    BY <1>3, <2>5 DEF ExitLine, CloseInput
  <2>6. QED
    BY <1>7, <2>1, <2>2, <2>3, <2>4, <2>5 DEF User
<1>8. CASE Restart
  BY <1>2, <1>8 DEF Restart
<1>9. QED
  BY <1>3, <1>5, <1>6, <1>7, <1>8 DEF Next

-----------------------------------------------------------------------------
LEMMA SavesKept ==
  ASSUME ShellInv, KeptTypes, SaveInv, [Next]_vars
  PROVE  SaveInv'
<1> USE DEF KeptTypes, ConfigTypeOK, Settings, SaveInv, Saving, Writing
<1>1. UNCHANGED configVars => SaveInv'
  BY DEF configVars
<1>2. ASSUME NEW p \in Proc, NEW f \in {"model", "job"}, NEW v, LoadConfig(p, f, v)
      PROVE  SaveInv'
  <2> SUFFICES ASSUME ~raced'
               PROVE  SaveInv'
    OBVIOUS
  <2>1. ~raced /\ \A q \in Proc : ~Saving(q)
    BY <1>2 DEF LoadConfig
  <2>2. config = lastSet /\ UNCHANGED <<config, lastSet>>
    BY <1>2, <2>1 DEF LoadConfig
  <2>3. edit' = [edit EXCEPT ![p] = [at |-> "truncate", field |-> f,
                                     next |-> [lastSet EXCEPT ![f] = v]]]
    BY <1>2, <2>2 DEF LoadConfig
  <2>4. [lastSet EXCEPT ![f] = v] = [lastSet EXCEPT ![f] = [lastSet EXCEPT ![f] = v][f]]
    OBVIOUS
  <2>5. \A q \in Proc : Saving(q)' => q = p
    BY <2>1, <2>3
  <2>6. edit'[p].field = f /\ edit'[p].next = [lastSet EXCEPT ![f] = v]
    BY <2>3
  <2> QED BY <2>2, <2>4, <2>5, <2>6
<1>3. ASSUME NEW p \in Proc, TruncateConfig(p)
      PROVE  SaveInv'
  BY <1>3 DEF TruncateConfig
<1>4. ASSUME NEW p \in Proc, KilledSaving(p)
      PROVE  SaveInv'
  BY <1>4 DEF KilledSaving, Idle
<1>5. ASSUME NEW p \in Proc, ModelChosen(p)
      PROVE  SaveInv'
  <2> SUFFICES ASSUME ~raced'
               PROVE  SaveInv'
    OBVIOUS
  <2>1. ~raced /\ WriteConfig(p) /\ Saving(p)
    BY <1>5 DEF ModelChosen, WriteConfig
  <2>2. config' = lastSet'
    BY <2>1 DEF WriteConfig
  <2>3. \A q \in Proc : ~Saving(q)'
    BY <2>1 DEF WriteConfig, Idle
  <2> QED BY <2>2, <2>3
<1>6. ASSUME NEW p \in Proc, Resolving(p)
      PROVE  SaveInv'
  BY <1>6 DEF Resolving, ModelResolved, ModelUnresolved
<1> QED BY SessionEffects, <1>1, <1>2, <1>3, <1>4, <1>5, <1>6
        DEF Effects, Effect, NoEffect, Saves, Gates, GivesUp, Outside

LEMMA ChoicesKept ==
  ASSUME ShellInv, KeptTypes, SaveInv, ChoiceInv, [Next]_vars
  PROVE  ChoiceInv'
<1> USE DEF KeptTypes, ConfigTypeOK, LocalModelTypeOK, Settings, ChoiceInv
<1>1. UNCHANGED <<raced, lastSet, picked, cached>> => ChoiceInv'
  OBVIOUS
<1>2. ASSUME NEW p \in Proc, Saves(p)
      PROVE  ChoiceInv'
  BY <1>2 DEF Saves, LoadConfig, TruncateConfig, KilledSaving, modelVars
<1>3. ASSUME NEW p \in Proc, ModelChosen(p)
      PROVE  ChoiceInv'
  BY <1>3 DEF ModelChosen, WriteConfig
<1>4. ASSUME NEW p \in Proc, Resolving(p)
      PROVE  ChoiceInv'
  <2> SUFFICES ASSUME ~raced'
               PROVE  ChoiceInv'
    OBVIOUS
  <2> PICK a \in BOOLEAN : ModelResolved(p, a) \/ ModelUnresolved(p, a)
    BY <1>4 DEF Resolving
  <2>1. ~raced /\ config = lastSet /\ UNCHANGED <<lastSet, picked>>
    BY DEF ModelResolved, ModelUnresolved, SaveInv
  <2>2. picked[p] # None => getActiveModelId(p) = picked[p]
    BY <2>1 DEF getActiveModelId
  <2>3. CASE ModelResolved(p, a)
    <3>1. cached'[p].model = getActiveModelId(p)
      BY <2>3 DEF ModelResolved
    <3>2. \A q \in Proc : q # p => cached'[q] = cached[q]
      BY <2>3 DEF ModelResolved
    <3> QED BY <2>1, <2>2, <3>1, <3>2
  <2>4. CASE ModelUnresolved(p, a)
    BY <2>1, <2>4 DEF ModelUnresolved
  <2> QED BY <2>3, <2>4
<1> QED BY SessionEffects, <1>1, <1>2, <1>3, <1>4
        DEF Effects, Effect, NoEffect, Gates, GivesUp, Outside, GateFinds, GateRefuses, ProbeReaches,
            ProbeFails, ServiceMoves, configVars, modelVars

LEMMA GatesKept ==
  ASSUME ShellInv, KeptTypes, GateInv, [Next]_vars
  PROVE  GateInv'
<1> USE DEF KeptTypes, LocalModelTypeOK, GateInv
<1>1. \A p \in Proc : MovesOn(p) => \A q \in Proc : At(q, "probe")' => At(q, "probe")
  BY DEF MovesOn, Leaves, At
<1>2. \A p \in Proc : Leaves(p) => ~At(p, "probe")'
  BY DEF Leaves, At
<1>3. ASSUME NEW p \in Proc, NoEffect(p) \/ Saves(p)
      PROVE  GateInv'
  BY <1>1, <1>3 DEF NoEffect, Saves, modelVars, MovesOn
<1>4. ASSUME NEW p \in Proc, ModelChosen(p), task' = task
      PROVE  GateInv'
  BY <1>4 DEF ModelChosen, At
<1>5. ASSUME NEW p \in Proc, NEW a \in BOOLEAN, GateFinds(p, a), Move(p, "probe")
      PROVE  GateInv'
  <2>1. Discovered(p, a) # None /\ (EnvEndpoint[p] # None => Discovered(p, a) = EnvEndpoint[p])
    BY <1>5, ModelAssumption DEF GateFinds, isLoopbackEndpoint, Discovered, Endpoint
  <2>2. \A q \in Proc : q # p => (At(q, "probe")' <=> At(q, "probe"))
    BY <1>5 DEF Move, At
  <2> QED BY <1>5, <2>1, <2>2 DEF GateFinds, Remember, Status
<1>6. ASSUME NEW p \in Proc, NEW a \in BOOLEAN, GateRefuses(p, a), MovesOn(p)
      PROVE  GateInv'
  BY <1>1, <1>6 DEF GateRefuses, Remember, Status
<1>7. ASSUME NEW p \in Proc, At(p, "probe"), ProbeReaches(p), Leaves(p)
      PROVE  GateInv'
  BY <1>1, <1>2, <1>7 DEF ProbeReaches, MovesOn
<1>8. ASSUME NEW p \in Proc, ProbeFails(p) \/ GivesUp(p), Leaves(p)
      PROVE  GateInv'
  BY <1>1, <1>2, <1>8 DEF ProbeFails, GivesUp, MovesOn
<1>9. ASSUME NEW p \in Proc, NEW a \in BOOLEAN, ModelResolved(p, a), MovesOn(p)
      PROVE  GateInv'
  <2>1. vouched[p] => Discovered(p, a) = service
    BY DEF Discovered, Status
  <2> QED BY <1>1, <1>9, <2>1 DEF ModelResolved, Remember, Status
<1>10. ASSUME NEW p \in Proc, NEW a \in BOOLEAN, ModelUnresolved(p, a), MovesOn(p)
       PROVE  GateInv'
  BY <1>1, <1>10 DEF ModelUnresolved, Status
<1>11. CASE Outside
  BY <1>11 DEF Outside, ServiceMoves, At
<1>12. CASE UNCHANGED <<configVars, modelVars, task>>
  BY <1>12 DEF modelVars, At
<1> QED BY SessionEffects, <1>3, <1>4, <1>5, <1>6, <1>7, <1>8, <1>9, <1>10, <1>11, <1>12
        DEF Effects, Effect, Gates, GivesUp, Resolving

-----------------------------------------------------------------------------
(* What a session starts with, and what every step preserves.              *)
THEOREM SessionInvariant == Spec => []SessionInv
<1> USE DEF SessionInv
<1>1. Init => SessionInv
  <2> SUFFICES ASSUME Init
               PROVE  SessionInv
    OBVIOUS
  <2>1. ShellInv
    BY SessionAssumption DEF Init, ShellInv, ShellState, Places, Fresh, In
  <2> PICK q \in Question : task = [p \in Proc |-> Resting(q)]
    BY DEF Init, AskingInit, AskInit
  <2>2. KeptTypes
    <3>1. (task \in [Proc -> Task]) /\ ConfigTypeOK
      BY DEF Init, AskingInit, ConfigInit, ConfigTypeOK, Settings, NoSettings, Idle, Task, Resting
    <3>2. LocalModelTypeOK
      BY DEF Init, AskingInit, LocalModelInit, LocalModelTypeOK
    <3> QED BY <3>1, <3>2 DEF KeptTypes
  <2>3. SaveInv /\ ChoiceInv
    BY DEF Init, AskingInit, ConfigInit, LocalModelInit, SaveInv, ChoiceInv, Saving, Idle
  <2>4. GateInv
    BY DEF Init, AskingInit, LocalModelInit, GateInv, At, Resting
  <2> QED BY <2>1, <2>2, <2>3, <2>4
<1>2. SessionInv /\ [Next]_vars => SessionInv'
  <2> SUFFICES ASSUME SessionInv, [Next]_vars PROVE SessionInv'
    OBVIOUS
  <2>1. Effects
    BY SessionEffects DEF KeptTypes
  <2> QED BY <2>1, ShellSteps, TypesKept, SavesKept, ChoicesKept, GatesKept
<1> QED BY <1>1, <1>2, PTL DEF Spec

(* For any number of processes: until two saves overlap, one is cut short  *)
(* or the file is read while it is written, config.json holds what each    *)
(* setting was last set to.                                                *)
THEOREM SettingsSurvive == Spec => []SettingsKept
<1>1. SessionInv => SettingsKept
  BY DEF SessionInv, SaveInv, SettingsKept
<1> QED BY <1>1, SessionInvariant, PTL

(* The model a process has chosen is the one its agents use next, for any  *)
(* processes, models and interleaving of saves with abandoned runs.        *)
THEOREM ChosenModelServes == Spec => []PickedModelServes
<1>1. SessionInv => PickedModelServes
  BY DEF SessionInv, ChoiceInv, PickedModelServes
<1> QED BY <1>1, SessionInvariant, PTL

(* What the gate vouched for is where the model is asked, for any ports,   *)
(* environments and endpoint files.                                        *)
THEOREM GateIsKept == Spec => []GateHolds
<1>1. SessionInv => GateHolds
  BY DEF SessionInv, GateInv, GateHolds
<1> QED BY <1>1, SessionInvariant, PTL

(* Beside shells and commands that save, choose models and leave, too,     *)
(* every answer shown is grounded.                                         *)
THEOREM SessionAnswersGrounded == Spec => [](AskInv /\ AnswersGrounded)
<1>1. Init => AskInv
  BY AskInvInit DEF Init
<1>2. SessionInv /\ AskInv /\ [Next]_vars => AskInv'
  <2> SUFFICES ASSUME SessionInv, AskInv, [Next]_vars PROVE AskInv'
    OBVIOUS
  <2>1. ShellInv /\ KeptTypes /\ task \in [Proc -> Task]
    BY DEF SessionInv, KeptTypes
  <2>2. Effects
    BY <2>1, SessionEffects
  <2>3. KeptTypes'
    BY <2>1, <2>2, TypesKept
  <2>4. Quests
    BY <2>1, SessionQuests
  <2>5. QED
    BY <2>3, <2>4, AskInvKept
<1>3. AskInv => AnswersGrounded
  BY DEF AskInv, InStep, AnswersGrounded, Hits
<1>4. QED
  BY <1>1, <1>2, <1>3, SessionInvariant, PTL DEF Spec
=============================================================================

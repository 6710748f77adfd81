--------------------------- MODULE EvidenceProofs ---------------------------
(***************************************************************************)
(* Proofs about the evidence probes, for any host, profile and log. With   *)
(* every command answered, a cause that is reported is so (CausesHold);    *)
(* what is broken leads to a cause (FaultsFound); the signature blamed is  *)
(* the heaviest (HeaviestBlamed), and standby outranks the noise it makes  *)
(* (StandbyIsNamed).                                                       *)
(*                                                                         *)
(* The invariant EvidenceInv has one part per probe: what it has asked,    *)
(* lost and concluded at each of its places. An action preserves the part  *)
(* of its own probe and leaves the others alone.                           *)
(*                                                                         *)
(* The log probe counts lines with functions defined by recursion over the *)
(* blocks of a text. What they return is established by induction on the   *)
(* length of a prefix, and the induction is first order: a set of naturals *)
(* that holds 0 and the successor of each member holds them all (UpTo).    *)
(***************************************************************************)
EXTENDS Evidence, WellFoundedInduction, SequenceTheorems, FiniteSetTheorems,
        TLAPS
-----------------------------------------------------------------------------
(***************************************************************************)
(* Bounded induction, and functions defined by recursion. The library      *)
(* states induction for operators; these are about a set and a function,   *)
(* and rest on its theorem that < is well-founded.                         *)
(***************************************************************************)
\* A set of naturals that is not empty has a least element.
LEMMA LeastNat ==
  ASSUME NEW T, T \subseteq Nat, T # {}
  PROVE  \E n \in T : \A m \in T : n <= m
<1>1. PICK n \in T : \A m \in T : ~(<<m, n>> \in OpToRel(<, Nat))
  BY NatLessThanWellFounded, WFMin
<1>2. \A m \in T : ~(m < n)
  BY <1>1 DEF OpToRel
<1>3. QED
  BY <1>2

\* A set that holds 0 and the successor of each of its members holds all up to L.
LEMMA UpTo ==
  ASSUME NEW L \in Nat, NEW T,
         0 \in T, \A n \in 0 .. L - 1 : n \in T => n + 1 \in T
  PROVE  0 .. L \subseteq T
<1> SUFFICES ASSUME ~(0 .. L \subseteq T) PROVE FALSE
  OBVIOUS
<1> DEFINE U == (0 .. L) \ T
<1>1. PICK n \in U : \A m \in U : n <= m
  <2>1. U \subseteq Nat /\ U # {}
    OBVIOUS
  <2>2. QED
    BY <2>1, LeastNat
<1>2. n # 0 /\ n - 1 \in 0 .. L - 1
  BY <1>1
<1>3. n - 1 \in T
  BY <1>1, <1>2
<1>4. QED
  BY <1>1, <1>2, <1>3

\* f maps 0 .. L to S by recursion: base at 0, a step from each to the next.
Follows(f, L, S, base, step) ==
    f \in [0 .. L -> S] /\ f[0] = base /\ \A n \in 1 .. L : f[n] = step[n][f[n - 1]]

\* Recursion: a first value and a step for each number define a function.
LEMMA Recursion ==
  ASSUME NEW L \in Nat, NEW S, NEW base \in S, NEW step \in [1 .. L -> [S -> S]]
  PROVE  \E f : Follows(f, L, S, base, step)
<1> DEFINE Runs(f, m) == f[0] = base /\ \A n \in 1 .. m : f[n] = step[n][f[n - 1]]
           T == {m \in 0 .. L : \E f \in [0 .. L -> S] : Runs(f, m)}
<1>1. 0 \in T
  <2> DEFINE f == [i \in 0 .. L |-> base]
  <2>1. f \in [0 .. L -> S] /\ f[0] = base
    OBVIOUS
  <2>2. 1 .. 0 = {}
    OBVIOUS
  <2> HIDE DEF f
  <2>3. Runs(f, 0)
    BY <2>1, <2>2
  <2>4. QED
    BY <2>1, <2>3
<1>2. ASSUME NEW m \in 0 .. L - 1, m \in T PROVE m + 1 \in T
  <2>1. PICK f \in [0 .. L -> S] : Runs(f, m)
    BY <1>2
  <2> DEFINE g == [f EXCEPT ![m + 1] = step[m + 1][f[m]]]
  <2>2. m + 1 \in 0 .. L /\ m + 1 \in 1 .. L /\ f[m] \in S
    BY <1>2
  <2>3. step[m + 1][f[m]] \in S
    BY <2>2
  <2>4. g \in [0 .. L -> S] /\ \A n \in 0 .. m : g[n] = f[n]
    BY <2>2, <2>3
  <2>5. g[m + 1] = step[m + 1][f[m]]
    BY <2>2
  <2> HIDE DEF g
  <2>6. Runs(g, m + 1)
    <3>1. g[0] = base
      BY <2>1, <2>4
    <3>2. ASSUME NEW n \in 1 .. m + 1 PROVE g[n] = step[n][g[n - 1]]
      <4>1. CASE n = m + 1
        BY <2>4, <2>5, <4>1
      <4>2. CASE n # m + 1
        <5>1. n \in 1 .. m /\ n - 1 \in 0 .. m /\ n \in 0 .. m
          BY <4>2
        <5>2. QED
          BY <5>1, <2>1, <2>4
      <4>3. QED
        BY <4>1, <4>2
    <3>3. QED
      BY <3>1, <3>2
  <2>7. QED
    BY <2>2, <2>4, <2>6
<1>3. L \in T
  <2> HIDE DEF T
  <2>1. 0 .. L \subseteq T
    BY <1>1, <1>2, UpTo
  <2>2. QED
    BY <2>1
<1>4. QED
  BY <1>3 DEF Follows
-----------------------------------------------------------------------------
(***************************************************************************)
(* The recursive functions of the model, unfolded.                         *)
(***************************************************************************)
\* A block counted leaves a map of blocks.
LEMMA CountedType ==
  ASSUME NEW tally \in Seq(Block), NEW block \in Block
  PROVE  Counted(tally, block) \in Seq(Block)
<1> DEFINE at == {i \in DOMAIN tally : tally[i][1] = block[1]}
           more == [i \in DOMAIN tally |-> IF i \in at THEN <<block[1], tally[i][2] + block[2]>> ELSE tally[i]]
<1>1. ASSUME NEW i \in DOMAIN tally PROVE more[i] \in Block
  BY DEF Block
<1>2. DOMAIN tally = 1 .. Len(tally) /\ Len(tally) \in Nat
  OBVIOUS
<1>3. more \in Seq(Block)
  <2>1. more \in [1 .. Len(tally) -> Block]
    BY <1>1, <1>2
  <2>2. QED
    BY <1>2, <2>1
<1>4. Append(tally, block) \in Seq(Block)
  OBVIOUS
<1>5. QED
  BY <1>3, <1>4 DEF Counted

\* scanText goes through the blocks in turn.
LEMMA ScannedUnfolds ==
  ASSUME NEW tally \in Seq(Block), NEW text \in Seq(Block)
  PROVE  \E after \in [0 .. Len(text) -> Seq(Block)] :
            /\ after[0] = tally
            /\ \A n \in 1 .. Len(text) : after[n] = Counted(after[n - 1], text[n])
            /\ Scanned(tally, text) = after[Len(text)]
<1> DEFINE L == Len(text)
           Is(f) == f = [n \in 0 .. L |-> IF n = 0 THEN tally ELSE Counted(f[n - 1], text[n])]
           step == [n \in 1 .. L |-> [t \in Seq(Block) |-> Counted(t, text[n])]]
           g == CHOOSE f : Is(f)
<1>1. L \in Nat /\ \A n \in 1 .. L : text[n] \in Block
  OBVIOUS
<1>2. step \in [1 .. L -> [Seq(Block) -> Seq(Block)]]
  BY <1>1, CountedType
<1>3. PICK f : Follows(f, L, Seq(Block), tally, step)
  <2> HIDE DEF step, L
  <2>1. QED
    BY <1>1, <1>2, Recursion
<1>4. \A n \in 1 .. L : f[n] = Counted(f[n - 1], text[n])
  <2> SUFFICES ASSUME NEW n \in 1 .. L PROVE f[n] = Counted(f[n - 1], text[n])
    OBVIOUS
  <2>1. n - 1 \in 0 .. L
    BY <1>1
  <2>2. f[n - 1] \in Seq(Block)
    BY <1>3, <2>1 DEF Follows
  <2>3. QED
    BY <1>3, <2>2 DEF Follows
<1>5. Is(f)
  <2> HIDE DEF step, L
  <2>1. QED
    BY <1>1, <1>3, <1>4 DEF Follows
<1>6. Is(g)
  <2> HIDE DEF Is
  <2>1. QED
    BY <1>5
<1>7. Scanned(tally, text) = g[L]
  BY DEF Scanned
<1>8. g[0] = tally /\ \A n \in 1 .. L : g[n] = Counted(g[n - 1], text[n])
  <2> HIDE DEF g, L
  <2>1. QED
    BY <1>1, <1>6
<1>9. \A n \in 0 .. L : g[n] = f[n]
  <2> DEFINE T == {n \in 0 .. L : g[n] = f[n]}
  <2> HIDE DEF g, L, step
  <2>1. 0 \in T
    BY <1>1, <1>3, <1>8 DEF Follows
  <2>2. ASSUME NEW n \in 0 .. L - 1, n \in T PROVE n + 1 \in T
    <3>1. n + 1 \in 1 .. L /\ (n + 1) - 1 = n
      BY <1>1
    <3>2. QED
      BY <1>1, <1>4, <1>8, <2>2, <3>1
  <2>3. 0 .. L \subseteq T
    <3> HIDE DEF T
    <3>1. QED
      BY <1>1, <2>1, <2>2, UpTo
  <2>4. QED
    BY <2>3
<1>10. QED
  <2> HIDE DEF g, step
  <2>1. f \in [0 .. L -> Seq(Block)] /\ f[0] = tally /\ f[L] = g[L]
    BY <1>1, <1>3, <1>9 DEF Follows
  <2>2. QED
    BY <1>4, <1>7, <2>1

\* The lines of a signature in the first blocks of a text.
LinesUpto(s, text) ==
    LET upto[n \in 0 .. Len(text)] ==
            IF n = 0 THEN 0
            ELSE IF text[n][1] = s THEN upto[n - 1] + text[n][2] ELSE upto[n - 1]
    IN  upto

\* LinesIn counts the lines of a signature block by block.
LEMMA LinesInUnfolds ==
  ASSUME NEW s \in Signature, NEW text \in Seq(Block)
  PROVE  /\ LinesUpto(s, text) \in [0 .. Len(text) -> Nat]
         /\ LinesUpto(s, text)[0] = 0
         /\ \A n \in 1 .. Len(text) :
               LinesUpto(s, text)[n] =
                  IF text[n][1] = s THEN LinesUpto(s, text)[n - 1] + text[n][2]
                  ELSE LinesUpto(s, text)[n - 1]
         /\ LinesIn(s, text) = IF "issue" \in Matches[s] THEN LinesUpto(s, text)[Len(text)] ELSE 0
         /\ LinesIn(s, text) \in Nat
<1> DEFINE L == Len(text)
           Is(f) == f = [n \in 0 .. L |->
                          IF n = 0 THEN 0
                          ELSE IF text[n][1] = s THEN f[n - 1] + text[n][2] ELSE f[n - 1]]
           step == [n \in 1 .. L |->
                      [x \in Nat |-> IF text[n][1] = s THEN x + text[n][2] ELSE x]]
           g == CHOOSE f : Is(f)
<1>1. L \in Nat /\ \A n \in 1 .. L : text[n] \in Block /\ text[n][2] \in Nat
  BY DEF Block
<1>2. step \in [1 .. L -> [Nat -> Nat]]
  BY <1>1
<1>3. PICK f : Follows(f, L, Nat, 0, step)
  <2>1. 0 \in Nat
    OBVIOUS
  <2> HIDE DEF step, L
  <2>2. QED
    BY <1>1, <1>2, <2>1, Recursion
<1>4. \A n \in 1 .. L : f[n] = IF text[n][1] = s THEN f[n - 1] + text[n][2] ELSE f[n - 1]
  <2> SUFFICES ASSUME NEW n \in 1 .. L
               PROVE  f[n] = IF text[n][1] = s THEN f[n - 1] + text[n][2] ELSE f[n - 1]
    OBVIOUS
  <2>1. n - 1 \in 0 .. L
    BY <1>1
  <2>2. f[n - 1] \in Nat
    BY <1>3, <2>1 DEF Follows
  <2>3. QED
    BY <1>3, <2>2 DEF Follows
<1>5. Is(f)
  <2> HIDE DEF step, L
  <2>1. QED
    BY <1>1, <1>3, <1>4 DEF Follows
<1>6. Is(g)
  <2> HIDE DEF Is
  <2>1. QED
    BY <1>5
<1>7. LinesUpto(s, text) = g /\ LinesIn(s, text) = IF "issue" \in Matches[s] THEN g[L] ELSE 0
  BY DEF LinesUpto, LinesIn
<1>8. /\ g = [n \in 0 .. L |-> g[n]] /\ g[0] = 0
      /\ \A n \in 1 .. L : g[n] = IF text[n][1] = s THEN g[n - 1] + text[n][2] ELSE g[n - 1]
  <2> HIDE DEF g, L
  <2> DEFINE value(n) == IF n = 0 THEN 0
                         ELSE IF text[n][1] = s THEN g[n - 1] + text[n][2] ELSE g[n - 1]
  <2>1. g = [n \in 0 .. L |-> value(n)]
    BY <1>6
  <2>2. \A n \in 0 .. L : g[n] = value(n)
    <3> HIDE DEF value
    <3>1. QED
      BY <2>1
  <2>3. g = [n \in 0 .. L |-> g[n]]
    <3> HIDE DEF value
    <3>1. QED
      BY <2>1
  <2>4. g[0] = 0
    BY <1>1, <2>2
  <2>5. ASSUME NEW n \in 1 .. L
        PROVE  g[n] = IF text[n][1] = s THEN g[n - 1] + text[n][2] ELSE g[n - 1]
    <3>1. n \in 0 .. L /\ n # 0
      BY <1>1
    <3>2. g[n] = value(n)
      BY <2>2, <3>1
    <3>3. QED
      BY <3>1, <3>2
  <2>6. QED
    BY <2>3, <2>4, <2>5
<1>9. \A n \in 0 .. L : g[n] \in Nat
  <2> DEFINE T == {n \in 0 .. L : g[n] \in Nat}
  <2> HIDE DEF g, L, step
  <2>1. 0 \in T
    BY <1>1, <1>8
  <2>2. ASSUME NEW n \in 0 .. L - 1, n \in T PROVE n + 1 \in T
    <3>1. n + 1 \in 1 .. L /\ n + 1 \in 0 .. L /\ (n + 1) - 1 = n /\ g[n] \in Nat
      BY <1>1, <2>2
    <3>2. g[n + 1] = IF text[n + 1][1] = s THEN g[(n + 1) - 1] + text[n + 1][2] ELSE g[(n + 1) - 1]
      BY <1>8, <3>1
    <3>3. text[n + 1][2] \in Nat
      BY <1>1, <3>1
    <3>4. g[n + 1] \in Nat
      BY <3>1, <3>2, <3>3
    <3>5. QED
      BY <3>1, <3>4
  <2>3. 0 .. L \subseteq T
    <3> HIDE DEF T
    <3>1. QED
      BY <1>1, <2>1, <2>2, UpTo
  <2>4. QED
    BY <2>3
<1>10. g \in [0 .. L -> Nat]
  <2> HIDE DEF g, L
  <2>1. QED
    BY <1>8, <1>9
<1>11. g[L] \in Nat
  <2> HIDE DEF g, L
  <2>1. QED
    BY <1>1, <1>9
<1>12. QED
  <2> HIDE DEF g
  <2>1. LinesIn(s, text) \in Nat /\ LinesUpto(s, text) = g
    BY <1>7, <1>11
  <2>2. LinesIn(s, text) = IF "issue" \in Matches[s] THEN g[Len(text)] ELSE 0
    BY <1>7
  <2>3. QED
    BY <1>8, <1>10, <2>1, <2>2

\* The lines of a signature in a sequence of texts; LinesOf has those read.
LinesUptoText(s, texts) ==
    LET upto[n \in 0 .. Len(texts)] ==
            IF n = 0 THEN 0 ELSE upto[n - 1] + LinesIn(s, texts[n])
    IN  upto
LinesOfTexts(s, texts) == LinesUptoText(s, texts)[Len(texts)]

\* The lines read are the sequence that LinesOf counts in.
LEMMA LinesOfRead ==
  ASSUME NEW s
  PROVE  LinesOf(s) = LinesOfTexts(s, read)
BY DEF LinesOf, LinesOfTexts, LinesUptoText

\* The count over texts starts at 0 and adds each text's own lines.
LEMMA LinesOfUnfolds ==
  ASSUME NEW s \in Signature, NEW texts \in Seq(Seq(Block))
  PROVE  /\ LinesUptoText(s, texts)[0] = 0
         /\ \A n \in 1 .. Len(texts) :
               LinesUptoText(s, texts)[n] = LinesUptoText(s, texts)[n - 1] + LinesIn(s, texts[n])
         /\ \A n \in 0 .. Len(texts) : LinesUptoText(s, texts)[n] \in Nat
         /\ LinesOfTexts(s, texts) \in Nat
<1> DEFINE L == Len(texts)
           Is(f) == f = [n \in 0 .. L |-> IF n = 0 THEN 0 ELSE f[n - 1] + LinesIn(s, texts[n])]
           step == [n \in 1 .. L |-> [x \in Nat |-> x + LinesIn(s, texts[n])]]
           g == CHOOSE f : Is(f)
<1>1. L \in Nat /\ \A n \in 1 .. L : LinesIn(s, texts[n]) \in Nat
  BY LinesInUnfolds
<1>2. step \in [1 .. L -> [Nat -> Nat]]
  BY <1>1
<1>3. PICK f : Follows(f, L, Nat, 0, step)
  <2>1. 0 \in Nat
    OBVIOUS
  <2> HIDE DEF step, L
  <2>2. QED
    BY <1>1, <1>2, <2>1, Recursion
<1>4. \A n \in 1 .. L : f[n] = f[n - 1] + LinesIn(s, texts[n])
  <2> SUFFICES ASSUME NEW n \in 1 .. L PROVE f[n] = f[n - 1] + LinesIn(s, texts[n])
    OBVIOUS
  <2>1. n - 1 \in 0 .. L
    BY <1>1
  <2>2. f[n - 1] \in Nat
    BY <1>3, <2>1 DEF Follows
  <2>3. QED
    BY <1>3, <2>2 DEF Follows
<1>5. Is(f)
  <2> HIDE DEF step, L
  <2>1. QED
    BY <1>1, <1>3, <1>4 DEF Follows
<1>6. Is(g)
  <2> HIDE DEF Is
  <2>1. QED
    BY <1>5
<1>7. LinesUptoText(s, texts) = g /\ LinesOfTexts(s, texts) = g[L]
  BY DEF LinesUptoText, LinesOfTexts
<1>8. g[0] = 0 /\ \A n \in 1 .. L : g[n] = g[n - 1] + LinesIn(s, texts[n])
  <2> HIDE DEF g, L
  <2>1. QED
    BY <1>1, <1>6
<1>9. \A n \in 0 .. L : g[n] \in Nat
  <2> DEFINE T == {n \in 0 .. L : g[n] \in Nat}
  <2> HIDE DEF g, L, step
  <2>1. 0 \in T
    BY <1>1, <1>8
  <2>2. ASSUME NEW n \in 0 .. L - 1, n \in T PROVE n + 1 \in T
    <3>1. n + 1 \in 1 .. L /\ n + 1 \in 0 .. L /\ (n + 1) - 1 = n /\ g[n] \in Nat
      BY <1>1, <2>2
    <3>2. g[n + 1] \in Nat
      BY <1>1, <1>8, <3>1
    <3>3. QED
      BY <3>1, <3>2
  <2>3. 0 .. L \subseteq T
    <3> HIDE DEF T
    <3>1. QED
      BY <1>1, <2>1, <2>2, UpTo
  <2>4. QED
    BY <2>3
<1>10. QED
  <2> HIDE DEF g, step
  <2>1. g[L] \in Nat
    BY <1>1, <1>9
  <2>2. QED
    BY <1>7, <1>8, <1>9, <2>1

\* Nothing read has no lines; one text more adds its own.
LEMMA LinesOfMore ==
  ASSUME NEW s \in Signature
  PROVE  /\ LinesOfTexts(s, <<>>) = 0
         /\ \A texts \in Seq(Seq(Block)), text \in Seq(Block) :
               LinesOfTexts(s, Append(texts, text)) = LinesOfTexts(s, texts) + LinesIn(s, text)
<1>1. LinesOfTexts(s, <<>>) = 0
  <2>1. <<>> \in Seq(Seq(Block)) /\ Len(<<>>) = 0
    OBVIOUS
  <2>2. QED
    BY <2>1, LinesOfUnfolds DEF LinesOfTexts
<1>2. ASSUME NEW texts \in Seq(Seq(Block)), NEW text \in Seq(Block)
      PROVE  LinesOfTexts(s, Append(texts, text)) = LinesOfTexts(s, texts) + LinesIn(s, text)
  <2> DEFINE more == Append(texts, text)
             f == LinesUptoText(s, texts)
             g == LinesUptoText(s, more)
             L == Len(texts)
  <2>1. /\ L \in Nat /\ more \in Seq(Seq(Block)) /\ Len(more) = L + 1
        /\ more[L + 1] = text /\ \A n \in 1 .. L : more[n] = texts[n]
    OBVIOUS
  <2>2. f[0] = 0 /\ \A n \in 1 .. L : f[n] = f[n - 1] + LinesIn(s, texts[n])
    BY LinesOfUnfolds
  <2>3. g[0] = 0 /\ \A n \in 1 .. L + 1 : g[n] = g[n - 1] + LinesIn(s, more[n])
    <3> HIDE DEF more
    <3>1. QED
      BY <2>1, LinesOfUnfolds
  <2>4. \A n \in 0 .. L : f[n] = g[n]
    <3> DEFINE T == {n \in 0 .. L : f[n] = g[n]}
    <3> HIDE DEF f, g, more, L
    <3>1. 0 \in T
      BY <2>1, <2>2, <2>3
    <3>2. ASSUME NEW n \in 0 .. L - 1, n \in T PROVE n + 1 \in T
      <4>1. n + 1 \in 1 .. L /\ n + 1 \in 1 .. L + 1 /\ (n + 1) - 1 = n
        BY <2>1
      <4>2. f[n + 1] = f[n] + LinesIn(s, texts[n + 1])
        BY <2>2, <4>1
      <4>3. g[n + 1] = g[n] + LinesIn(s, texts[n + 1])
        BY <2>1, <2>3, <4>1
      <4>4. QED
        BY <2>1, <3>2, <4>1, <4>2, <4>3
    <3>3. 0 .. L \subseteq T
      <4> HIDE DEF T
      <4>1. QED
        BY <2>1, <3>1, <3>2, UpTo
    <3>4. QED
      BY <3>3
  <2>5. g[L + 1] = g[L] + LinesIn(s, text) /\ g[L] = f[L]
    <3> HIDE DEF f, g, more, L
    <3>1. L + 1 \in 1 .. L + 1 /\ (L + 1) - 1 = L /\ L \in 0 .. L
      BY <2>1
    <3>2. QED
      BY <2>1, <2>3, <2>4, <3>1
  <2>6. QED
    BY <2>1, <2>5 DEF LinesOfTexts
<1>3. QED
  BY <1>1, <1>2

-----------------------------------------------------------------------------
(***************************************************************************)
(* The map of scanText.                                                    *)
(***************************************************************************)
\* A map that holds each signature of which there are lines, once, with their number.
Tallies(tally, lines) ==
    /\ tally \in Seq(Block)
    /\ \A i, j \in DOMAIN tally : tally[i][1] = tally[j][1] => i = j
    /\ \A i \in DOMAIN tally : tally[i][2] = lines[tally[i][1]]
    /\ \A s \in Signature : lines[s] > 0 => \E i \in DOMAIN tally : tally[i][1] = s

\* A block of lines that name a problem is added to those of its signature.
LEMMA CountedTallies ==
  ASSUME NEW tally, NEW lines \in [Signature -> Nat], NEW block \in Block,
         Tallies(tally, lines)
  PROVE  Tallies(Counted(tally, block),
                 IF "issue" \in Matches[block[1]]
                 THEN [lines EXCEPT ![block[1]] = @ + block[2]] ELSE lines)
<1> DEFINE s == block[1]
           at == {i \in DOMAIN tally : tally[i][1] = s}
           more == [lines EXCEPT ![s] = @ + block[2]]
<1>1. /\ tally \in Seq(Block) /\ DOMAIN tally = 1 .. Len(tally) /\ Len(tally) \in Nat
      /\ \A i \in DOMAIN tally : tally[i] \in Block
  BY DEF Tallies
<1>2. s \in Signature /\ block[2] \in Nat \ {0} /\ block = <<s, block[2]>>
  BY DEF Block
<1>3. /\ more[s] = lines[s] + block[2] /\ lines[s] \in Nat
      /\ \A t \in Signature : t # s => more[t] = lines[t]
  BY <1>2
<1>t. \A i \in DOMAIN tally : tally[i][1] \in Signature /\ tally[i][2] \in Nat \ {0}
  BY <1>1 DEF Block
<1>4. CASE "issue" \notin Matches[s]
  BY <1>4 DEF Counted
<1>5. CASE "issue" \in Matches[s] /\ at = {}
  <2> DEFINE new == Append(tally, block)
             n == Len(tally)
  <2>1. Counted(tally, block) = new
    BY <1>5 DEF Counted
  <2>2. /\ new \in Seq(Block) /\ DOMAIN new = 1 .. n + 1 /\ new[n + 1] = block
        /\ \A i \in DOMAIN tally : new[i] = tally[i]
    BY <1>1
  <2>3. \A i \in DOMAIN tally : tally[i][1] # s
    BY <1>5
  <2>4. lines[s] = 0
    BY <1>2, <1>3, <2>3 DEF Tallies
  <2> HIDE DEF new, more, s, at
  <2>5. \A i \in DOMAIN new : (i \in DOMAIN tally /\ i # n + 1) \/ i = n + 1
    BY <1>1, <2>2
  <2>6. \A i \in DOMAIN new : new[i][2] = more[new[i][1]]
    <3>1. new[n + 1][1] = s /\ new[n + 1][2] = block[2]
      BY <2>2 DEF s
    <3>2. more[s] = block[2]
      BY <1>2, <1>3, <2>4
    <3>3. \A i \in DOMAIN tally : new[i][2] = more[new[i][1]]
      BY <1>3, <1>t, <2>2, <2>3 DEF Tallies
    <3>4. QED
      BY <2>5, <3>1, <3>2, <3>3
  <2>7. \A i, j \in DOMAIN new : new[i][1] = new[j][1] => i = j
    <3>1. new[n + 1][1] = s /\ \A i \in DOMAIN tally : new[i][1] = tally[i][1] /\ new[i][1] # s
      BY <2>2, <2>3 DEF s
    <3>2. QED
      BY <2>5, <3>1 DEF Tallies
  <2>8. ASSUME NEW t \in Signature, more[t] > 0 PROVE \E i \in DOMAIN new : new[i][1] = t
    <3>1. CASE t = s
      <4>1. n + 1 \in DOMAIN new
        BY <1>1, <2>2
      <4>2. QED
        BY <2>2, <3>1, <4>1 DEF s
    <3>2. CASE t # s
      <4>1. PICK i \in DOMAIN tally : tally[i][1] = t
        BY <1>3, <2>8, <3>2 DEF Tallies
      <4>2. i \in DOMAIN new
        BY <1>1, <2>2
      <4>3. QED
        BY <2>2, <4>1, <4>2
    <3>3. QED
      BY <3>1, <3>2
  <2>9. Tallies(new, more)
    BY <2>2, <2>6, <2>7, <2>8 DEF Tallies
  <2>10. QED
    BY <1>5, <2>1, <2>9 DEF s, more
<1>6. CASE "issue" \in Matches[s] /\ at # {}
  <2> DEFINE new == [i \in DOMAIN tally |->
                       IF i \in at THEN <<s, tally[i][2] + block[2]>> ELSE tally[i]]
  <2>1. Counted(tally, block) = new
    BY <1>6 DEF Counted
  <2>2. PICK k \in DOMAIN tally : tally[k][1] = s
    BY <1>6
  <2>3. at = {k}
    BY <2>2 DEF Tallies
  <2>4. /\ DOMAIN new = DOMAIN tally
        /\ new[k] = <<s, tally[k][2] + block[2]>>
        /\ \A i \in DOMAIN tally : i # k => new[i] = tally[i]
    BY <2>2, <2>3
  <2> HIDE DEF new, more, at, s
  <2>5. new[k][1] = s /\ new[k][2] = tally[k][2] + block[2]
    BY <2>4
  <2>6. \A i \in DOMAIN tally : new[i][1] = tally[i][1]
    BY <2>2, <2>4, <2>5
  <2>7. new \in Seq(Block)
    <3>1. new[k] \in Block
      BY <1>2, <1>t, <2>2, <2>4 DEF Block
    <3>2. \A i \in DOMAIN tally : new[i] \in Block
      BY <1>1, <2>4, <3>1
    <3>3. Counted(tally, block) \in Seq(Block)
      BY <1>1, CountedType
    <3>4. QED
      BY <2>1, <3>3
  <2>8. \A i \in DOMAIN new : new[i][2] = more[new[i][1]]
    <3>1. new[k][2] = more[s]
      BY <1>3, <2>2, <2>5 DEF Tallies
    <3>2. ASSUME NEW i \in DOMAIN tally, i # k PROVE new[i][2] = more[new[i][1]]
      <4>1. tally[i][1] # s /\ new[i] = tally[i]
        BY <2>2, <2>4, <3>2 DEF Tallies
      <4>2. QED
        BY <1>3, <1>t, <4>1 DEF Tallies
    <3>3. QED
      BY <2>4, <2>5, <3>1, <3>2
  <2>9. \A t \in Signature : more[t] > 0 => \E i \in DOMAIN new : new[i][1] = t
    BY <1>3, <2>2, <2>4, <2>6 DEF Tallies
  <2>10. Tallies(new, more)
    BY <2>4, <2>6, <2>7, <2>8, <2>9 DEF Tallies
  <2>11. QED
    BY <1>6, <2>1, <2>10 DEF s, more
<1>7. QED
  BY <1>4, <1>5, <1>6

\* A text scanned adds its lines, whatever the map holds already.
LEMMA ScannedTallies ==
  ASSUME NEW tally, NEW lines \in [Signature -> Nat], NEW text \in Seq(Block),
         Tallies(tally, lines)
  PROVE  Tallies(Scanned(tally, text), [s \in Signature |-> lines[s] + LinesIn(s, text)])
<1> DEFINE L == Len(text)
           part(s, n) == IF "issue" \in Matches[s] THEN LinesUpto(s, text)[n] ELSE 0
           sum(n) == [s \in Signature |-> lines[s] + part(s, n)]
<1>1. L \in Nat /\ \A n \in 1 .. L : text[n] \in Block
  OBVIOUS
<1>2. PICK after \in [0 .. L -> Seq(Block)] :
            /\ after[0] = tally
            /\ \A n \in 1 .. L : after[n] = Counted(after[n - 1], text[n])
            /\ Scanned(tally, text) = after[L]
  <2>1. tally \in Seq(Block)
    BY DEF Tallies
  <2>2. QED
    BY <2>1, ScannedUnfolds
<1>3. ASSUME NEW s \in Signature
      PROVE  /\ part(s, 0) = 0
             /\ \A n \in 0 .. L : part(s, n) \in Nat
             /\ part(s, L) = LinesIn(s, text)
             /\ \A n \in 1 .. L : part(s, n) = IF text[n][1] = s /\ "issue" \in Matches[s]
                                               THEN part(s, n - 1) + text[n][2] ELSE part(s, n - 1)
  <2> DEFINE u == LinesUpto(s, text)
  <2>1. /\ u \in [0 .. L -> Nat] /\ u[0] = 0
        /\ \A n \in 1 .. L : u[n] = IF text[n][1] = s THEN u[n - 1] + text[n][2] ELSE u[n - 1]
        /\ LinesIn(s, text) = IF "issue" \in Matches[s] THEN u[L] ELSE 0
    BY LinesInUnfolds
  <2>2. \A n : part(s, n) = IF "issue" \in Matches[s] THEN u[n] ELSE 0
    OBVIOUS
  <2> HIDE DEF u, part
  <2>3. part(s, 0) = 0 /\ \A n \in 0 .. L : part(s, n) \in Nat
    <3>1. part(s, 0) = 0
      BY <2>1, <2>2
    <3>2. ASSUME NEW n \in 0 .. L PROVE part(s, n) \in Nat
      <4>1. u[n] \in Nat /\ part(s, n) = IF "issue" \in Matches[s] THEN u[n] ELSE 0
        BY <2>1, <2>2
      <4>2. QED
        BY <4>1
    <3>3. QED
      BY <3>1, <3>2
  <2>4. part(s, L) = LinesIn(s, text)
    BY <2>1, <2>2
  <2>5. CASE "issue" \in Matches[s]
    <3>1. \A n : part(s, n) = u[n]
      BY <2>2, <2>5
    <3>2. QED
      BY <2>1, <2>3, <2>4, <2>5, <3>1
  <2>6. CASE "issue" \notin Matches[s]
    <3>1. \A n : part(s, n) = 0
      BY <2>2, <2>6
    <3>2. QED
      BY <2>3, <2>4, <2>6, <3>1
  <2>7. QED
    BY <2>5, <2>6
<1> HIDE DEF part
<1> DEFINE T == {n \in 0 .. L : Tallies(after[n], sum(n))}
<1>4. 0 \in T
  <2>1. sum(0) = lines
    BY <1>3
  <2>2. QED
    BY <1>1, <1>2, <2>1
<1>5. ASSUME NEW n \in 0 .. L - 1, n \in T PROVE n + 1 \in T
  <2> DEFINE block == text[n + 1]
             b == block[1]
  <2> HIDE DEF L
  <2>1. n + 1 \in 1 .. L /\ n + 1 \in 0 .. L /\ n \in 0 .. L /\ (n + 1) - 1 = n
    BY <1>1
  <2>2. block \in Block /\ after[n + 1] = Counted(after[n], block)
    BY <1>1, <1>2, <2>1
  <2>3. b \in Signature /\ block[2] \in Nat
    BY <2>2 DEF Block
  <2>4. sum(n) \in [Signature -> Nat] /\ Tallies(after[n], sum(n))
    BY <1>3, <1>5, <2>1
  <2>5. \A s \in Signature : part(s, n + 1) = IF b = s /\ "issue" \in Matches[s]
                                              THEN part(s, n) + block[2] ELSE part(s, n)
    BY <1>3, <2>1
  <2>6. sum(n + 1) = IF "issue" \in Matches[b] THEN [sum(n) EXCEPT ![b] = @ + block[2]] ELSE sum(n)
    <3>1. \A s \in Signature : lines[s] \in Nat /\ part(s, n) \in Nat
      BY <1>3, <2>1
    <3>2. CASE "issue" \in Matches[b]
      <4> DEFINE more == [sum(n) EXCEPT ![b] = @ + block[2]]
      <4>1. \A s \in Signature : more[s] = IF s = b THEN sum(n)[b] + block[2] ELSE sum(n)[s]
        <5> HIDE DEF sum, block, b
        <5>1. QED
          BY <2>3, <2>4
      <4>2. ASSUME NEW s \in Signature PROVE more[s] = lines[s] + part(s, n + 1)
        <5>1. sum(n)[s] = lines[s] + part(s, n)
          OBVIOUS
        <5> HIDE DEF more, sum, block, b
        <5>2. CASE s = b
          BY <2>3, <2>5, <3>1, <3>2, <4>1, <5>1, <5>2
        <5>3. CASE s # b
          BY <2>3, <2>5, <3>1, <3>2, <4>1, <5>1, <5>3
        <5>4. QED
          BY <5>2, <5>3
      <4>3. more \in [Signature -> Nat]
        <5> HIDE DEF sum, block, b
        <5>1. QED
          BY <2>3, <2>4
      <4>4. more = sum(n + 1)
        <5> HIDE DEF more, block, b
        <5>1. QED
          BY <4>2, <4>3
      <4>5. QED
        BY <3>2, <4>4
    <3>3. CASE "issue" \notin Matches[b]
      <4>1. \A s \in Signature : part(s, n + 1) = part(s, n)
        BY <2>5, <3>3
      <4>2. QED
        BY <3>3, <4>1
    <3>4. QED
      BY <3>2, <3>3
  <2>7. Tallies(after[n + 1], sum(n + 1))
    <3> HIDE DEF sum, block
    <3>1. Tallies(Counted(after[n], block),
                  IF "issue" \in Matches[block[1]]
                  THEN [sum(n) EXCEPT ![block[1]] = @ + block[2]] ELSE sum(n))
      BY <2>2, <2>4, CountedTallies
    <3>2. QED
      BY <2>2, <2>6, <3>1
  <2>8. QED
    BY <2>1, <2>7
<1>6. L \in T
  <2> HIDE DEF T, L
  <2>1. 0 .. L \subseteq T
    BY <1>1, <1>4, <1>5, UpTo
  <2>2. QED
    BY <1>1, <2>1
<1>7. sum(L) = [s \in Signature |-> lines[s] + LinesIn(s, text)]
  BY <1>3
<1>8. QED
  <2> HIDE DEF sum, L
  <2>1. QED
    BY <1>2, <1>6, <1>7

-----------------------------------------------------------------------------
(***************************************************************************)
(* Weights and the ranking.                                                *)
(***************************************************************************)
\* The categories that are faults.
Faults == {"dns", "crash", "tls", "network", "auth", "transport", "generic"}

\* The weights of benign lines, of faults, and of the faults that are named.
LEMMA Weights ==
  ASSUME NEW s \in Signature
  PROVE  /\ WeightOf(s) \in Nat /\ 150 <= WeightOf(s) /\ WeightOf(s) <= 3450
         /\ CategoryOf(s) = "benign" <=> "benign" \in Matches[s]
         /\ CategoryOf(s) = "benign" => WeightOf(s) = 150
         /\ CategoryOf(s) # "benign" => WeightOf(s) >= 1000
         /\ CategoryOf(s) \notin {"benign", "generic"} => WeightOf(s) >= 2200
<1> DEFINE names == {"generic"} \cup (Matches[s] \cap Faults)
           W == FaultWeight
<1>1. DOMAIN W = Faults
  BY DEF FaultWeight, Faults
<1>2. /\ W["dns"] = 3000 /\ W["crash"] = 2800 /\ W["tls"] = 2600 /\ W["network"] = 2500
      /\ W["auth"] = 2400 /\ W["transport"] = 2200 /\ W["generic"] = 1000
  BY DEF FaultWeight
<1>3. names \subseteq Faults /\ "generic" \in names
  BY DEF Faults
<1>4. \E c \in names : \A d \in names : W[c] >= W[d]
  <2> HIDE DEF W, names
  <2>1. CASE "dns" \in names
    BY <1>2, <1>3, <2>1 DEF Faults
  <2>2. CASE "dns" \notin names /\ "crash" \in names
    BY <1>2, <1>3, <2>2 DEF Faults
  <2>3. CASE "dns" \notin names /\ "crash" \notin names /\ "tls" \in names
    BY <1>2, <1>3, <2>3 DEF Faults
  <2>4. CASE names \subseteq {"network", "auth", "transport", "generic"} /\ "network" \in names
    BY <1>2, <1>3, <2>4
  <2>5. CASE names \subseteq {"auth", "transport", "generic"} /\ "auth" \in names
    BY <1>2, <1>3, <2>5
  <2>6. CASE names \subseteq {"transport", "generic"}
    BY <1>2, <1>3, <2>6
  <2>7. QED
    BY <1>3, <2>1, <2>2, <2>3, <2>4, <2>5, <2>6 DEF Faults
<1>5. FaultOf(s) \in names
  <2>1. FaultOf(s) = CHOOSE c \in names : \A d \in names : W[c] >= W[d]
    BY <1>1 DEF FaultOf
  <2> HIDE DEF W, names
  <2>2. QED
    BY <1>4, <2>1
<1>6. FaultOf(s) \in Faults
  BY <1>3, <1>5
<1> DEFINE w == W[FaultOf(s)]
<1>7. /\ w \in {3000, 2800, 2600, 2500, 2400, 2200, 1000}
      /\ FaultOf(s) # "generic" => w >= 2200
  <2> HIDE DEF W
  <2>1. QED
    BY <1>2, <1>6 DEF Faults
<1>8. (w * 115) \div 100 \in Nat /\ (w * 115) \div 100 >= w /\ (w * 115) \div 100 <= 3450
  <2> HIDE DEF w
  <2>1. (3000 * 115) \div 100 = 3450 /\ (2800 * 115) \div 100 = 3220 /\ (2600 * 115) \div 100 = 2990
    OBVIOUS
  <2>2. (2500 * 115) \div 100 = 2875 /\ (2400 * 115) \div 100 = 2760 /\ (2200 * 115) \div 100 = 2530
    OBVIOUS
  <2>3. (1000 * 115) \div 100 = 1150
    OBVIOUS
  <2>4. QED
    BY <1>7, <2>1, <2>2, <2>3
<1>9. CategoryOf(s) = "benign" <=> "benign" \in Matches[s]
  BY <1>6 DEF CategoryOf, Faults
<1>10. CASE "benign" \in Matches[s]
  BY <1>9, <1>10 DEF WeightOf
<1>11. CASE "benign" \notin Matches[s]
  <2>1. CategoryOf(s) = FaultOf(s)
    BY <1>11 DEF CategoryOf
  <2>2. WeightOf(s) = IF "marked" \in Matches[s] THEN (w * 115) \div 100 ELSE w
    BY <1>11 DEF WeightOf
  <2> HIDE DEF w
  <2>3. WeightOf(s) \in Nat /\ WeightOf(s) >= w /\ WeightOf(s) <= 3450 /\ w >= 1000
    BY <1>7, <1>8, <2>2
  <2>4. w \in Nat /\ (FaultOf(s) # "generic" => w >= 2200)
    BY <1>7
  <2>5. CategoryOf(s) # "benign"
    BY <1>9, <1>11
  <2>6. CategoryOf(s) # "generic" => WeightOf(s) >= 2200
    BY <2>1, <2>3, <2>4
  <2>7. WeightOf(s) >= 1000
    BY <2>3, <2>4
  <2>8. QED
    BY <1>9, <2>3, <2>5, <2>6, <2>7
<1>12. QED
  BY <1>10, <1>11

\* The relevance of an entry is a number.
LEMMA RelevanceType ==
  ASSUME NEW entry \in Block
  PROVE  Relevance(entry) \in Nat
<1>1. entry[1] \in Signature /\ entry[2] \in Nat
  BY DEF Block
<1>2. WeightOf(entry[1]) \in Nat
  BY <1>1, Weights
<1>3. \A m, n \in Nat : m * n \in Nat
  OBVIOUS
<1>4. QED
  BY <1>1, <1>2, <1>3 DEF Relevance

\* The first of the ranking is the entry with the highest relevance.
LEMMA RankedFirst ==
  ASSUME NEW tally \in Seq(Block)
  PROVE  /\ tally = <<>> => Ranked(tally) = <<>>
         /\ Len(Ranked(tally)) \in Nat /\ Len(Ranked(tally)) <= TopSignatures
         /\ tally # <<>> =>
              /\ Ranked(tally) # <<>>
              /\ \E k \in DOMAIN tally :
                    /\ Ranked(tally)[1] = tally[k]
                    /\ \A j \in DOMAIN tally : Relevance(tally[k]) >= Relevance(tally[j])
<1> DEFINE L == Len(tally)
           rel == [i \in 1 .. L |-> Relevance(tally[i])]
           Before(i, j) == \/ Relevance(tally[i]) > Relevance(tally[j])
                           \/ Relevance(tally[i]) = Relevance(tally[j]) /\ i < j
           Place(i) == 1 + Cardinality({j \in DOMAIN tally : Before(j, i)})
           size == IF L < TopSignatures THEN L ELSE TopSignatures
           first == CHOOSE i \in DOMAIN tally : Place(i) = 1
<1>1. L \in Nat /\ DOMAIN tally = 1 .. L /\ \A i \in 1 .. L : Relevance(tally[i]) \in Nat
  BY RelevanceType
<1>2. TopSignatures \in Nat \ {0} /\ size \in Nat /\ size <= TopSignatures /\ (L > 0 => size > 0) /\ (L = 0 => size = 0)
  BY <1>1, LogAssumption
<1>3. Ranked(tally) = [k \in 1 .. size |-> tally[CHOOSE i \in DOMAIN tally : Place(i) = k]]
  BY DEF Ranked
<1>4. DOMAIN Ranked(tally) = 1 .. size
  <2> HIDE DEF size, Place
  <2>1. QED
    BY <1>3
<1>5. Len(Ranked(tally)) = size
  <2> HIDE DEF size
  <2>1. QED
    BY <1>2, <1>3, <1>4
<1>6. CASE tally = <<>>
  <2>1. size = 0
    BY <1>2, <1>6
  <2> HIDE DEF size, Place
  <2>2. 1 .. size = {}
    BY <2>1
  <2>3. Ranked(tally) = <<>>
    BY <1>3, <2>2
  <2>4. QED
    BY <1>2, <1>5, <1>6, <2>3
<1>7. CASE tally # <<>>
  <2>1. L > 0 /\ size > 0
    BY <1>1, <1>2, <1>7
  <2>2. Ranked(tally) # <<>>
    BY <1>2, <1>4, <2>1
  <2>3. Ranked(tally)[1] = tally[first]
    <3> HIDE DEF size, Place
    <3>1. 1 \in 1 .. size
      BY <1>2, <2>1
    <3>2. QED
      BY <1>3, <3>1
\* Some entry has none before it: the best of the first n, for every n.
  <2> DEFINE Best(n, i) == i \in 1 .. n /\ \A j \in 1 .. n : ~Before(j, i)
             T == {n \in 0 .. L : n > 0 => \E i \in 1 .. L : Best(n, i)}
  <2>4. 0 \in T
    BY <1>1
  <2>5. ASSUME NEW n \in 0 .. L - 1, n \in T PROVE n + 1 \in T
    <3>1. n + 1 \in 1 .. L /\ n + 1 \in 0 .. L
      BY <1>1
    <3>2. CASE n = 0
      <4>1. Best(1, 1)
        BY <1>1, <3>1, <3>2
      <4>2. QED
        BY <3>1, <3>2, <4>1
    <3>3. CASE n > 0
      <4>1. PICK i \in 1 .. L : Best(n, i)
        BY <2>5, <3>3
      <4>2. CASE Before(n + 1, i)
        <5>1. ASSUME NEW j \in 1 .. n + 1 PROVE ~Before(j, n + 1)
          <6>1. j \in 1 .. L /\ i \in 1 .. n
            BY <1>1, <3>1, <4>1
          <6>2. CASE j = n + 1
            BY <1>1, <3>1, <6>2
          <6>3. CASE j # n + 1
            <7>1. j \in 1 .. n
              BY <6>3
            <7>2. ~Before(j, i)
              BY <4>1, <7>1
            <7>3. QED
              BY <1>1, <3>1, <4>2, <6>1, <7>1, <7>2
          <6>4. QED
            BY <6>2, <6>3
        <5>2. QED
          BY <3>1, <5>1
      <4>3. CASE ~Before(n + 1, i)
        <5>1. Best(n + 1, i)
          BY <1>1, <4>1, <4>3
        <5>2. QED
          BY <3>1, <5>1
      <4>4. QED
        BY <4>2, <4>3
    <3>4. QED
      BY <3>2, <3>3
  <2>6. L \in T
    <3> HIDE DEF T, L
    <3>1. 0 .. L \subseteq T
      BY <1>1, <2>4, <2>5, UpTo
    <3>2. QED
      BY <1>1, <3>1
  <2>7. PICK i \in 1 .. L : \A j \in 1 .. L : ~Before(j, i)
    BY <2>1, <2>6
  <2>8. ASSUME NEW m \in DOMAIN tally
        PROVE  Place(m) = 1 <=> {j \in DOMAIN tally : Before(j, m)} = {}
    <3> DEFINE earlier == {j \in DOMAIN tally : Before(j, m)}
    <3>1. IsFiniteSet(earlier)
      <4>1. IsFiniteSet(1 .. L) /\ earlier \subseteq 1 .. L
        BY <1>1, FS_Interval
      <4> HIDE DEF earlier
      <4>2. QED
        BY <4>1, FS_Subset
    <3> HIDE DEF earlier
    <3>2. Cardinality(earlier) \in Nat /\ (Cardinality(earlier) = 0 <=> earlier = {})
      BY <3>1, FS_CardinalityType, FS_EmptySet
    <3>3. Place(m) = 1 + Cardinality(earlier)
      BY DEF earlier
    <3> HIDE DEF Place
    <3>4. Place(m) = 1 <=> earlier = {}
      BY <3>2, <3>3
    <3>5. QED
      BY <3>4 DEF earlier
  <2>9. i \in DOMAIN tally /\ Place(i) = 1
    <3>1. {j \in DOMAIN tally : Before(j, i)} = {}
      BY <1>1, <2>7
    <3>2. QED
      BY <1>1, <2>8, <3>1
  <2>10. first \in DOMAIN tally /\ Place(first) = 1
    <3> HIDE DEF Place
    <3>1. QED
      BY <2>9
  <2>11. \A j \in DOMAIN tally : ~Before(j, first)
    <3> HIDE DEF first
    <3>1. QED
      BY <2>8, <2>10
  <2>12. \A j \in DOMAIN tally : Relevance(tally[first]) >= Relevance(tally[j])
    <3> HIDE DEF first
    <3>1. QED
      BY <1>1, <2>10, <2>11
  <2> HIDE DEF first, size
  <2>13. QED
    BY <1>2, <1>5, <1>7, <2>2, <2>3, <2>10, <2>12
<1>8. QED
  BY <1>6, <1>7

-----------------------------------------------------------------------------
(***************************************************************************)
(* The log probe.                                                          *)
(***************************************************************************)
\* The lines of each signature in all the texts.
Lines(texts) == [s \in Signature |-> LinesOfTexts(s, texts)]

\* The map of the invariant is one of the lines read.
LEMMA TalliedIs ==
  ASSUME read \in Seq(Seq(Block))
  PROVE  Tallied <=> Tallies(counts, Lines(read))
<1>1. \A s \in Signature : Lines(read)[s] = LinesOf(s)
  BY LinesOfRead DEF Lines
<1>2. counts \in Seq(Block) => \A i \in DOMAIN counts : counts[i][1] \in Signature
  BY DEF Block
<1>3. QED
  BY <1>1, <1>2, ZenonT(40) DEF Tallied, Tallies

\* One text more.
LEMMA ReadMore ==
  ASSUME read \in Seq(Seq(Block)), Tallied, NEW text \in Seq(Block)
  PROVE  /\ Append(read, text) \in Seq(Seq(Block))
         /\ Tallies(Scanned(counts, text), Lines(Append(read, text)))
<1>1. Append(read, text) \in Seq(Seq(Block))
  OBVIOUS
<1>2. Lines(read) \in [Signature -> Nat]
  BY LinesOfUnfolds DEF Lines
<1>3. Tallies(counts, Lines(read))
  BY TalliedIs
<1>4. Tallies(Scanned(counts, text), [s \in Signature |-> Lines(read)[s] + LinesIn(s, text)])
  BY <1>2, <1>3, ScannedTallies
<1>5. [s \in Signature |-> Lines(read)[s] + LinesIn(s, text)] = Lines(Append(read, text))
  BY LinesOfMore DEF Lines
<1>6. QED
  BY <1>1, <1>4, <1>5

\* Nothing read, nothing counted.
LEMMA NothingCounted ==
  ASSUME Tallied, read = <<>>
  PROVE  counts = <<>>
<1>1. counts \in Seq(Block) /\ \A i \in DOMAIN counts : counts[i] \in Block
  BY DEF Tallied
<1>2. ASSUME NEW i \in DOMAIN counts PROVE FALSE
  <2>1. counts[i][1] \in Signature /\ counts[i][2] \in Nat \ {0}
    BY <1>1 DEF Block
  <2>2. LinesOf(counts[i][1]) = 0
    BY <2>1, LinesOfRead, LinesOfMore
  <2>3. QED
    BY <2>1, <2>2 DEF Tallied
<1>3. counts # <<>> => 1 \in DOMAIN counts
  BY <1>1
<1>4. QED
  BY <1>2, <1>3

\* What a host may have on its disks.
LEMMA HostShape ==
  ASSUME host \in Hosts
  PROVE  /\ host.capture \in Seq(Block) /\ host.unified \in Seq(Block)
         /\ host.files \in Seq(Texts \cup {<<>>})
         /\ Texts \cup {<<>>} \subseteq Seq(Block)
<1>1. Texts \cup {<<>>} \subseteq Seq(Block)
  <2>1. <<>> \in Seq(Block)
    OBVIOUS
  <2>2. QED
    BY <2>1, LogAssumption
<1>2. /\ host.capture \in Texts \cup {<<>>} /\ host.unified \in Texts \cup {<<>>}
      /\ host.files \in LogFiles
  BY DEF Hosts
<1>3. host.files \in Seq(Texts \cup {<<>>})
  BY <1>2, LogAssumption
<1>4. QED
  BY <1>1, <1>2, <1>3

\* The drops are counted in the same host, on the same system.
LEMMA DropsStay ==
  ASSUME UNCHANGED <<host, ctx>>
  PROVE  Drops(host.events)' = Drops(host.events)
BY DEF Drops, DropEvent

\* Reading, in whatever way the lines are found, keeps the map.
LEMMA LogStep ==
  ASSUME ContextInv, LogInv, LogEvidenceNext
  PROVE  LogInv'
<1>a. /\ pc \in {"start", "capture", "find", "nofiles", "read", "reported", "done"}
      /\ host \in Hosts
      /\ power \in {<<>>, <<Drops(host.events)>>}
      /\ files \in Seq(Texts \cup {<<>>}) /\ Len(files) <= MaxFiles
      /\ read \in Seq(Seq(Block))
      /\ Tallied
      /\ pc \notin {"read", "reported", "done"} => read = <<>>
      /\ source = "none" => read = <<>>
      /\ pc = "read" => source = "files"
      /\ pc \in {"reported", "done"} => top = Ranked(counts)
      /\ pc \notin {"reported", "done"} => top = <<>>
  BY DEF LogInv
<1>b. Hosts' = Hosts
  BY DEF Hosts
<1>d. read' \in Seq(Seq(Block)) /\ Tallies(counts', Lines(read')) => Tallied'
  <2>1. (read \in Seq(Seq(Block)) /\ Tallies(counts, Lines(read)) => Tallied)'
    BY TalliedIs, PTL
  <2>2. QED
    BY <2>1
<1>c. UNCHANGED <<counts, read>> => Tallied'
  <2>1. Tallies(counts, Lines(read))
    BY <1>a, TalliedIs
  <2>2. QED
    BY <1>a, <1>d, <2>1
<1>e. UNCHANGED <<host, ctx>> => Drops(host.events)' = Drops(host.events)
  BY DropsStay
<1>f. Ranked(<<>>) = <<>> /\ (read = <<>> => counts = <<>>)
  <2>1. <<>> \in Seq(Block)
    OBVIOUS
  <2>2. QED
    BY <1>a, <2>1, RankedFirst, NothingCounted
\* The live capture and the unified log: their one text is all there is.
<1>g. ASSUME NEW text \in Seq(Block), NEW from, from # "none", Only(text, from),
             pc \in {"capture", "nofiles"}, Goto("reported", FALSE),
             UNCHANGED <<host, power, files>>
      PROVE  LogInv'
  <2>1. read = <<>> /\ counts = <<>>
    BY <1>a, <1>f, <1>g
  <2>2. <<text>> = Append(<<>>, text)
    OBVIOUS
  <2>3. <<text>> \in Seq(Seq(Block)) /\ Tallies(Scanned(<<>>, text), Lines(<<text>>))
    BY <1>a, <2>1, <2>2, ReadMore
  <2>4. /\ counts' = Scanned(<<>>, text) /\ read' = <<text>> /\ source' = from
        /\ top' = Ranked(counts') /\ pc' = "reported" /\ UNCHANGED <<host, power, files, ctx>>
    BY <1>g DEF Only, Goto
  <2>5. Tallied'
    BY <1>d, <2>3, <2>4
  <2>6. QED
    BY <1>a, <1>b, <1>e, <1>g, <2>3, <2>4, <2>5 DEF LogInv, Reported
<1>1. CASE HarvestPower
  <2>1. PICK missed \in BOOLEAN :
          /\ power' = IF missed \/ ctx.os = "unknown" THEN <<>> ELSE <<Drops(host.events)>>
          /\ Goto(IF host.window /\ ctx.os = "macos" THEN "capture" ELSE "find", missed)
    BY <1>1 DEF HarvestPower
  <2>2. /\ pc = "start" /\ pc' \in {"capture", "find"} /\ power' \in {<<>>, <<Drops(host.events)>>}
        /\ UNCHANGED <<host, files, counts, read, source, top, ctx>>
    BY <1>1, <2>1 DEF HarvestPower, Goto
  <2>3. QED
    BY <1>a, <1>b, <1>c, <1>e, <2>2 DEF LogInv, Reported
<1>2. CASE LiveCapture
  <2>1. QED
    BY <1>2, <1>a, <1>g, HostShape DEF LiveCapture
<1>3. CASE CaptureEmpty
  <2>1. pc = "capture" /\ pc' = "find" /\ UNCHANGED <<logVars, ctx>>
    BY <1>3 DEF CaptureEmpty, Goto
  <2>2. QED
    BY <1>a, <1>b, <1>c, <1>e, <2>1 DEF LogInv, Reported, logVars
<1>4. CASE FindFiles
  <2> DEFINE n == IF Len(host.files) > MaxFiles THEN MaxFiles ELSE Len(host.files)
  <2>1. /\ pc = "find" /\ pc' = IF files' = <<>> THEN "nofiles" ELSE "read"
        /\ source' = IF files' = <<>> THEN "none" ELSE "files"
        /\ files' \in {<<>>, SubSeq(host.files, 1, n)}
        /\ UNCHANGED <<host, power, counts, read, top, ctx>>
    BY <1>4 DEF FindFiles, Goto
  <2>2. n \in Nat /\ n <= Len(host.files) /\ n <= MaxFiles /\ MaxFiles \in Nat
    BY <1>a, HostShape, LogAssumption
  <2> HIDE DEF n
  <2>3. SubSeq(host.files, 1, n) \in Seq(Texts \cup {<<>>}) /\ Len(SubSeq(host.files, 1, n)) = n
    BY <1>a, <2>2, HostShape
  <2>4. files' \in Seq(Texts \cup {<<>>}) /\ Len(files') <= MaxFiles
    <3>1. <<>> \in Seq(Texts \cup {<<>>}) /\ Len(<<>>) = 0
      OBVIOUS
    <3>2. CASE files' = <<>>
      BY <2>2, <3>1, <3>2
    <3>3. CASE files' = SubSeq(host.files, 1, n)
      BY <2>2, <2>3, <3>3
    <3>4. QED
      BY <2>1, <3>2, <3>3
  <2>5. QED
    BY <1>a, <1>b, <1>c, <1>e, <2>1, <2>4 DEF LogInv, Reported
<1>5. CASE FindFilesLost
  <2>1. pc = "find" /\ pc' = "nofiles" /\ UNCHANGED <<logVars, ctx>>
    BY <1>5 DEF FindFilesLost, Goto
  <2>2. QED
    BY <1>a, <1>b, <1>c, <1>e, <2>1 DEF LogInv, Reported, logVars
<1>6. CASE UnifiedLog
  <2>1. QED
    BY <1>6, <1>a, <1>g, HostShape DEF UnifiedLog
<1>7. CASE NothingFound
  <2>1. pc = "nofiles" /\ pc' = "reported" /\ UNCHANGED <<logVars, ctx>>
    BY <1>7 DEF NothingFound, Goto
  <2>2. top = Ranked(counts)
    BY <1>a, <1>f, <2>1
  <2>3. QED
    BY <1>a, <1>b, <1>c, <1>e, <2>1, <2>2 DEF LogInv, Reported, logVars
<1>8. CASE ReadFile
  <2>1. PICK missed \in BOOLEAN :
          /\ counts' = IF missed THEN counts ELSE Scanned(counts, Head(files))
          /\ read' = IF missed THEN read ELSE Append(read, Head(files))
          /\ Goto(pc, missed)
    BY <1>8 DEF ReadFile
  <2>2. /\ pc = "read" /\ pc' = "read" /\ files # <<>> /\ files' = Tail(files)
        /\ UNCHANGED <<host, power, source, top, ctx>>
    BY <1>8, <2>1 DEF ReadFile, Goto
  <2>3. Head(files) \in Seq(Block)
    BY <1>a, <2>2, HostShape
  <2>4. files' \in Seq(Texts \cup {<<>>}) /\ Len(files') <= MaxFiles
    <3> DEFINE S == Texts \cup {<<>>}
    <3>1. files \in Seq(S) /\ files # <<>> /\ MaxFiles \in Nat
      BY <1>a, <2>2, LogAssumption
    <3> HIDE DEF S
    <3>2. Tail(files) \in Seq(S) /\ Len(Tail(files)) = Len(files) - 1 /\ Len(files) \in Nat
      BY <3>1
    <3>3. files' \in Seq(S) /\ Len(files') <= MaxFiles
      BY <1>a, <2>2, <3>1, <3>2
    <3>4. QED
      BY <3>3 DEF S
  <2>5. read' \in Seq(Seq(Block)) /\ Tallied'
    <3>1. CASE missed
      BY <1>a, <1>c, <2>1, <3>1
    <3>2. CASE ~missed
      BY <1>a, <1>d, <2>1, <2>3, <3>2, ReadMore
    <3>3. QED
      BY <3>1, <3>2
  <2>6. QED
    BY <1>a, <1>b, <1>e, <2>2, <2>4, <2>5 DEF LogInv, Reported
<1>9. CASE RankFiles
  <2>1. /\ pc = "read" /\ pc' = "reported" /\ top' = Ranked(counts)
        /\ UNCHANGED <<host, power, files, counts, read, source, ctx>>
    BY <1>9 DEF RankFiles, Goto
  <2>2. QED
    BY <1>a, <1>b, <1>c, <1>e, <2>1 DEF LogInv, Reported
<1>10. CASE LogReports
  <2>1. pc = "reported" /\ pc' = "done" /\ causes' = fromLogs /\ UNCHANGED <<logVars, ctx>>
    BY <1>10 DEF LogReports, Report
  <2>2. fromLogs' = fromLogs
    BY <2>1 DEF fromLogs, logVars, standbyExplainsDrops, SignatureScore, ReconnectNoise
  <2>3. QED
    BY <1>a, <1>b, <1>c, <1>e, <2>1, <2>2 DEF LogInv, Reported, logVars
<1>11. QED
  BY <1>1, <1>2, <1>3, <1>4, <1>5, <1>6, <1>7, <1>8, <1>9, <1>10 DEF LogEvidenceNext

\* Lines are counted in naturals, of which none are less than zero of anything.
LEMMA LinesType ==
  ASSUME LogInv, NEW s \in Signature
  PROVE  LinesOf(s) \in Nat
BY LinesOfRead, LinesOfUnfolds DEF LogInv

\* The first of the report outweighs every signature among the lines read.
LEMMA Dominant ==
  ASSUME LogInv, Reported
  PROVE  /\ (\E s \in Signature : LinesOf(s) > 0) => top # <<>>
         /\ top # <<>> =>
              /\ top[1][1] \in Signature /\ top[1][2] \in Nat
              /\ top[1][2] = LinesOf(top[1][1])
              /\ \A t \in Signature :
                    top[1][2] * WeightOf(top[1][1]) >= LinesOf(t) * WeightOf(t)
<1>1. /\ top = Ranked(counts) /\ Tallied /\ counts \in Seq(Block)
      /\ \A i \in DOMAIN counts : counts[i] \in Block
  BY DEF LogInv, Reported, Tallied
<1>2. ASSUME NEW s \in Signature, LinesOf(s) > 0 PROVE top # <<>>
  <2>1. counts # <<>>
    BY <1>1, <1>2 DEF Tallied
  <2>2. QED
    BY <1>1, <2>1, RankedFirst
<1>3. ASSUME top # <<>>
      PROVE  /\ top[1][1] \in Signature /\ top[1][2] \in Nat
             /\ top[1][2] = LinesOf(top[1][1])
             /\ \A t \in Signature :
                   top[1][2] * WeightOf(top[1][1]) >= LinesOf(t) * WeightOf(t)
  <2>1. counts # <<>>
    BY <1>1, <1>3, RankedFirst
  <2>2. PICK k \in DOMAIN counts :
          /\ top[1] = counts[k]
          /\ \A j \in DOMAIN counts : Relevance(counts[k]) >= Relevance(counts[j])
    BY <1>1, <2>1, RankedFirst
  <2>3. top[1][1] \in Signature /\ top[1][2] \in Nat /\ top[1][2] = LinesOf(top[1][1])
    BY <1>1, <2>2 DEF Tallied, Block
  <2>4. Relevance(counts[k]) = top[1][2] * WeightOf(top[1][1]) /\ Relevance(counts[k]) \in Nat
    BY <1>1, <2>2, RelevanceType DEF Relevance
  <2>5. ASSUME NEW t \in Signature
        PROVE  Relevance(counts[k]) >= LinesOf(t) * WeightOf(t)
    <3>1. LinesOf(t) \in Nat /\ WeightOf(t) \in Nat
      BY LinesType, Weights
    <3>2. CASE LinesOf(t) = 0
      <4>1. LinesOf(t) * WeightOf(t) = 0
        BY <3>1, <3>2
      <4>2. QED
        BY <2>4, <4>1
    <3>3. CASE LinesOf(t) > 0
      <4>1. PICK j \in DOMAIN counts : counts[j][1] = t
        BY <1>1, <3>3 DEF Tallied
      <4>2. Relevance(counts[j]) = LinesOf(t) * WeightOf(t)
        BY <1>1, <4>1 DEF Tallied, Relevance
      <4>3. QED
        BY <2>2, <4>1, <4>2
    <3>4. QED
      BY <3>1, <3>2, <3>3
  <2>6. QED
    BY <2>3, <2>4, <2>5
<1>4. QED
  BY <1>2, <1>3

\* The kinds of the causes, and what each rests on.
Blamed == top # <<>> /\ CategoryOf(top[1][1]) # "benign" /\ top[1][2] >= 3
\* Reported causes are the dominant signature and the standby, each when it holds.
LEMMA LogKinds ==
  ASSUME LogInv, Reported
  PROVE  /\ \A c \in causes :
              /\ source # "none"
              /\ \/ /\ Blamed
                    /\ c = Cause("signature", {top[1][1]}, SignatureScore(top[1][1], top[1][2]))
                 \/ /\ standbyExplainsDrops
                    /\ c = Cause("standby", {}, StandbyScore(power[1]))
         /\ source # "none" /\ Blamed =>
              Cause("signature", {top[1][1]}, SignatureScore(top[1][1], top[1][2])) \in causes
         /\ source # "none" /\ standbyExplainsDrops =>
              Cause("standby", {}, StandbyScore(power[1])) \in causes
<1>1. causes = IF source = "none" THEN {}
               ELSE (IF Blamed THEN {Cause("signature", {top[1][1]},
                                           SignatureScore(top[1][1], top[1][2]))}
                     ELSE {})
                    \cup (IF standbyExplainsDrops
                          THEN {Cause("standby", {}, StandbyScore(power[1]))} ELSE {})
  BY DEF LogInv, fromLogs, Blamed
<1>2. QED
  BY <1>1

\* What a cause claims was read.
LEMMA LogReal ==
  ASSUME LogInv, Reported
  PROVE  LogCausesReal
<1> SUFFICES ASSUME NEW c \in causes
             PROVE  IF c.kind = "standby" THEN Drops(host.events) > 0
                    ELSE \A s \in c.about : LinesOf(s) >= 3
  BY DEF LogCausesReal
<1>1. CASE Blamed /\ c = Cause("signature", {top[1][1]}, SignatureScore(top[1][1], top[1][2]))
  BY <1>1, Dominant DEF Cause, Blamed
<1>2. CASE standbyExplainsDrops /\ c = Cause("standby", {}, StandbyScore(power[1]))
  <2>1. power # <<>> /\ power[1] > 0
    BY <1>2 DEF standbyExplainsDrops
  <2>2. power[1] = Drops(host.events)
    BY <2>1 DEF LogInv
  <2>3. QED
    BY <1>2, <2>1, <2>2 DEF Cause
<1>3. QED
  BY <1>1, <1>2, LogKinds

\* Four lines of a named fault outweigh two of any, and twelve times as many benign ones.
LEMMA FourOutweigh ==
  ASSUME NEW n \in Nat, NEW w \in Nat, n >= 4, w >= 2200
  PROVE  n * w >= 2200 * n /\ n * w >= 8800
OBVIOUS

\* A fault that recurs is named.
LEMMA LogNamed ==
  ASSUME LogInv, Reported
  PROVE  LogFaultsNamed
<1> SUFFICES ASSUME NEW s \in Signature,
                    CategoryOf(s) \notin {"benign", "generic"}, LinesOf(s) >= 4,
                    \A b \in Signature : CategoryOf(b) = "benign" => LinesOf(b) < 13 * LinesOf(s)
             PROVE  \E c \in causes : c.kind = "signature"
  BY DEF LogFaultsNamed
<1> DEFINE d == top[1][1]
           n == top[1][2]
           w == WeightOf(d)
           m == LinesOf(s)
<1>1. m \in Nat /\ WeightOf(s) \in Nat /\ WeightOf(s) >= 2200
  BY LinesType, Weights
<1>2. top # <<>>
  BY <1>1, Dominant
<1>3. d \in Signature /\ n \in Nat /\ n = LinesOf(d) /\ n * w >= m * WeightOf(s)
  BY <1>2, Dominant
<1>4. m * WeightOf(s) \in Nat /\ m * WeightOf(s) >= 2200 * m /\ m * WeightOf(s) >= 8800
  <2> DEFINE v == WeightOf(s)
  <2> HIDE DEF m, v
  <2>1. m \in Nat /\ v \in Nat /\ m >= 4 /\ v >= 2200
    BY <1>1 DEF m, v
  <2>2. m * v \in Nat /\ m * v >= 2200 * m /\ m * v >= 8800
    BY <2>1, FourOutweigh
  <2>3. QED
    BY <2>2 DEF v
<1>5. w \in Nat /\ w <= 3450 /\ (CategoryOf(d) = "benign" => w = 150)
  BY <1>3, Weights
<1> HIDE DEF d, n, w, m
<1>6. n * w \in Nat /\ n * w >= 2200 * m /\ n * w >= 8800
  BY <1>1, <1>3, <1>4, <1>5
<1>7. n >= 3
  <2>1. CASE n = 0
    <3>1. n * w = 0
      BY <1>5, <2>1
    <3>2. QED
      BY <1>6, <3>1
  <2>2. CASE n = 1
    <3>1. n * w = w
      BY <1>5, <2>2
    <3>2. QED
      BY <1>5, <1>6, <3>1
  <2>3. CASE n = 2
    <3>1. n * w = 2 * w
      BY <1>5, <2>3
    <3>2. QED
      BY <1>5, <1>6, <3>1
  <2>4. QED
    BY <1>3, <2>1, <2>2, <2>3
<1>8. CategoryOf(d) # "benign"
  <2>1. SUFFICES ASSUME CategoryOf(d) = "benign" PROVE FALSE
    OBVIOUS
  <2>2. n < 13 * m
    BY <1>3, <2>1 DEF m
  <2>3. w = 150
    BY <1>5, <2>1
  <2>4. 150 * n >= 2200 * m
    BY <1>3, <1>6, <2>3
  <2>5. QED
    BY <1>1, <1>3, <2>2, <2>4
<1>9. source # "none"
  <2>1. ASSUME source = "none" PROVE FALSE
    <3>1. read = <<>>
      BY <2>1 DEF LogInv
    <3>2. m = 0
      BY <3>1, LinesOfRead, LinesOfMore DEF m
    <3>3. QED
      BY <3>2 DEF m
  <2>2. QED
    BY <2>1
<1>10. Blamed
  BY <1>2, <1>7, <1>8 DEF Blamed, d, n
<1>11. QED
  BY <1>9, <1>10, LogKinds DEF Cause

\* What is blamed outweighs all else, and is not benign.
LEMMA LogHeaviest ==
  ASSUME LogInv, Reported, NEW c \in causes, NEW s \in c.about
  PROVE  /\ CategoryOf(s) # "benign"
         /\ \A t \in Signature : LinesOf(s) * WeightOf(s) >= LinesOf(t) * WeightOf(t)
<1>1. c.about = {} \/ (Blamed /\ c.about = {top[1][1]})
  BY LogKinds DEF Cause
<1>2. s = top[1][1] /\ top # <<>> /\ CategoryOf(s) # "benign"
  BY <1>1 DEF Blamed
<1>3. QED
  BY <1>2, Dominant

\* The logarithm is looked up where it is defined.
LEMMA LogOfType ==
  ASSUME NEW n \in Nat, n > 0
  PROVE  LogOf(n) \in Nat
<1>1. AtMost(n, LogBound) \in 1 .. LogBound
  BY LogAssumption DEF AtMost
<1>2. QED
  BY <1>1, LogAssumption DEF LogOf

\* The scores of the log specialist.
LEMMA LogScores ==
  ASSUME NEW s \in Signature, NEW n \in Nat
  PROVE  /\ n > 0 => SignatureScore(s, n) \in 1 .. 90
         /\ ReconnectNoise(s) => SignatureScore(s, n) = 35
<1>1. ReconnectNoise(s) => SignatureScore(s, n) = 35
  BY DEF SignatureScore
<1>2. ASSUME n > 0, ~ReconnectNoise(s) PROVE SignatureScore(s, n) \in 1 .. 90
  <2> DEFINE l == LogOf(n)
             w == WeightOf(s)
             total == 50 + (15 * l) \div 100 + (w - 1000) \div 200
  <2>1. l \in Nat /\ w \in Nat /\ w >= 150
    BY <1>2, LogOfType, Weights
  <2>2. SignatureScore(s, n) = IF 90 < total THEN 90 ELSE total
    BY <1>2 DEF SignatureScore, AtMost
  <2> HIDE DEF l, w
  <2>3. (15 * l) \div 100 \in Nat
    BY <2>1
  <2>4. (w - 1000) \div 200 \in Int /\ (w - 1000) \div 200 >= -5
    BY <2>1
  <2>5. total \in Int /\ total >= 45
    BY <2>3, <2>4
  <2> HIDE DEF total
  <2>6. QED
    BY <2>2, <2>5
<1>3. QED
  BY <1>1, <1>2

\* The score of the standby stays in its range, whatever the logarithm is.
LEMMA StandbyScores ==
  ASSUME NEW n \in Nat
  PROVE  StandbyScore(n) \in 70 .. 92
<1> DEFINE l == LogOf(n + 1)
           more == (20 * l) \div 100
<1>1. l \in Nat
  BY LogOfType
<1>2. StandbyScore(n) = IF 92 < 70 + more THEN 92 ELSE 70 + more
  BY DEF StandbyScore, AtMost
<1> HIDE DEF l
<1>3. more \in Nat
  BY <1>1
<1> HIDE DEF more
<1>4. QED
  BY <1>2, <1>3

\* The drops are counted.
LEMMA DropsType ==
  ASSUME LogInv, standbyExplainsDrops
  PROVE  power[1] \in Nat
<1>1. power = <<Drops(host.events)>>
  BY DEF LogInv, standbyExplainsDrops
<1>2. host.events \in Seq(EventKind)
  BY LogAssumption DEF LogInv, Hosts
<1>3. IsFiniteSet({i \in DOMAIN host.events : host.events[i] = DropEvent})
  <2>1. IsFiniteSet(1 .. Len(host.events)) /\ DOMAIN host.events = 1 .. Len(host.events)
    BY <1>2, FS_Interval
  <2>2. QED
    BY <2>1, FS_Subset
<1>4. Drops(host.events) \in Nat
  BY <1>3, FS_CardinalityType DEF Drops
<1>5. QED
  BY <1>1, <1>4

\* Drops through standby are named, above the noise of reconnecting.
LEMMA LogStandby ==
  ASSUME LogInv, Reported, source # "none", standbyExplainsDrops
  PROVE  \E c \in causes : /\ c.kind = "standby"
                           /\ \A d \in causes \ {c} : \A s \in d.about :
                                 "reconnect" \in Matches[s] => d.score < c.score
<1> DEFINE c == Cause("standby", {}, StandbyScore(power[1]))
<1>1. c \in causes /\ c.kind = "standby" /\ c.score = StandbyScore(power[1])
  BY LogKinds DEF Cause
<1>2. power[1] \in Nat
  BY DropsType
<1>3. ASSUME NEW d \in causes \ {c}, NEW s \in d.about, "reconnect" \in Matches[s]
      PROVE  d.score < c.score
  <2>1. Blamed /\ d = Cause("signature", {top[1][1]}, SignatureScore(top[1][1], top[1][2]))
    BY <1>3, LogKinds
  <2>2. /\ s = top[1][1] /\ s \in Signature /\ top[1][2] \in Nat
        /\ d.score = SignatureScore(s, top[1][2])
    BY <1>3, <2>1, Dominant DEF Cause, Blamed
  <2>3. d.score = 35
    BY <1>3, <2>2, LogScores DEF ReconnectNoise
  <2>4. StandbyScore(power[1]) \in 70 .. 92
    BY <1>2, StandbyScores
  <2> HIDE DEF c
  <2> DEFINE score == StandbyScore(power[1])
  <2> HIDE DEF score
  <2>5. score \in 70 .. 92 /\ c.score = score
    BY <1>1, <2>4 DEF score
  <2>6. QED
    BY <2>3, <2>5
<1>4. QED
  BY <1>1, <1>3

-----------------------------------------------------------------------------
(***************************************************************************)
(* Connectivity.                                                           *)
(***************************************************************************)
\* The kind of a check tells the categories apart.
LEMMA KindsOfChecks ==
  /\ \A E : \A c \in DnsChecks(E) : c[2] = "dns"
  /\ \A E : \A c \in TcpChecks(E) : c[2] = "tcp"
  /\ \A E : \A c \in WebChecks(E) : c[2] = "web"
BY DEF DnsChecks, TcpChecks, WebChecks

\* The members of each category.
LEMMA ChecksOf ==
  ASSUME NEW E, NEW c
  PROVE  /\ c \in DnsChecks(E) <=> \E e \in E : c = <<e.host, "dns", 0>>
         /\ c \in TcpChecks(E) <=> \E e \in E : \E p \in e.ports : c = <<e.host, "tcp", p>>
         /\ c \in WebChecks(E) <=> \E e \in E : e.https /\ c = <<e.host, "web", 0>>
BY DEF DnsChecks, TcpChecks, WebChecks

\* Answers of the later categories resolve no further host.
LEMMA ResolvedStays ==
  ASSUME good \subseteq good', \A c \in good' \ good : c[2] # "dns"
  PROVE  Resolved' = Resolved
<1>1. \A e \in Endpoint : <<e.host, "dns", 0>>[2] = "dns"
  OBVIOUS
<1>2. Endpoint' = Endpoint
  BY DEF Endpoint
<1>3. QED
  BY <1>1, <1>2 DEF Resolved

\* What is due now belongs to what has been asked, and to the checks of the profile.
LEMMA DueIsAsked ==
  ASSUME pc \in {"start", "dns", "tcp", "web", "done"}
  PROVE  DueNow \subseteq AskedSoFar /\ AskedSoFar \subseteq Checks(Endpoint)
<1>1. TcpChecks(Resolved) \subseteq TcpChecks(Endpoint)
  <2> SUFFICES ASSUME NEW c \in TcpChecks(Resolved) PROVE c \in TcpChecks(Endpoint)
    OBVIOUS
  <2>1. PICK e \in Resolved : \E p \in e.ports : c = <<e.host, "tcp", p>>
    BY ChecksOf
  <2>2. e \in Endpoint
    BY DEF Resolved
  <2>3. QED
    BY <2>1, <2>2, ChecksOf
<1>2. QED
  BY <1>1 DEF DueNow, AskedSoFar, Checks

\* Some checks end, and those that were told are recorded.
LEMMA RecordStep ==
  ASSUME ConnectivityInv, NEW told \in SUBSET due, Record(told), due # {},
         due' \subseteq due, due \ due' \subseteq told \/ lost',
         lost => lost', UNCHANGED <<pc, ctx, causes>>
  PROVE  ConnectivityInv'
<1>a. /\ pc \in {"start", "dns", "tcp", "web", "done"}
      /\ due \subseteq DueNow
      /\ good \subseteq {c \in Checks(Endpoint) : Succeeds(c)}
      /\ untrusted \subseteq {c \in WebChecks(Endpoint) : TlsValidationFails(c)}
      /\ ~lost => \A c \in AskedSoFar \ due :
                    /\ Succeeds(c) => c \in good
                    /\ TlsValidationFails(c) => c \in untrusted
  BY DEF ConnectivityInv
<1>b. /\ good' = good \cup {c \in told : Succeeds(c)}
      /\ untrusted' = untrusted \cup {c \in told : TlsValidationFails(c)}
      /\ UNCHANGED <<up, trusted, tlsExit>>
  BY DEF Record
<1>c. \A c : (Succeeds(c)' <=> Succeeds(c)) /\ (TlsValidationFails(c)' <=> TlsValidationFails(c))
  BY <1>b DEF Succeeds, TlsValidationFails, Remote
<1>1. pc \in {"dns", "tcp", "web"}
  BY <1>a DEF DueNow
<1>2. pc # "dns" => Resolved' = Resolved
  <2> SUFFICES ASSUME pc # "dns" PROVE Resolved' = Resolved
    OBVIOUS
  <2>1. \A c \in due : c[2] # "dns"
    BY <1>a, <1>1, KindsOfChecks DEF DueNow
  <2>2. QED
    BY <1>b, <2>1, ResolvedStays
<1>3. AskedSoFar' = AskedSoFar /\ DueNow' = DueNow
  BY <1>1, <1>2 DEF AskedSoFar, DueNow, Endpoint
<1>4. due \subseteq AskedSoFar /\ due \subseteq Checks(Endpoint)
  BY <1>a, DueIsAsked
<1>5. \A c \in due : TlsValidationFails(c) => c \in WebChecks(Endpoint)
  <2> SUFFICES ASSUME NEW c \in due, TlsValidationFails(c) PROVE c \in WebChecks(Endpoint)
    OBVIOUS
  <2>1. tlsExit \subseteq Handshakes(up)
    BY DEF ConnectivityInv
  <2>2. QED
    BY <2>1 DEF TlsValidationFails, Handshakes
<1>6. good' \subseteq {c \in Checks(Endpoint) : Succeeds(c)'}
  BY <1>a, <1>b, <1>c, <1>4
<1>7. untrusted' \subseteq {c \in WebChecks(Endpoint) : TlsValidationFails(c)'}
  BY <1>a, <1>b, <1>c, <1>5
<1>8. ~lost' => \A c \in AskedSoFar' \ due' :
                  /\ Succeeds(c)' => c \in good'
                  /\ TlsValidationFails(c)' => c \in untrusted'
  BY <1>a, <1>b, <1>c, <1>3
<1>9. QED
  BY <1>a, <1>b, <1>1, <1>3, <1>6, <1>7, <1>8 DEF ConnectivityInv, Reported, Checks, WebChecks, Endpoint,
     Networks, Handshakes, DnsChecks, TcpChecks

\* Every step of the connectivity probe keeps its invariant.
LEMMA ConnectivityStep ==
  ASSUME ContextInv, ConnectivityInv, ConnectivityNext
  PROVE  ConnectivityInv'
<1>a. /\ pc \in {"start", "dns", "tcp", "web", "done"}
      /\ due \subseteq DueNow
      /\ good \subseteq {c \in Checks(Endpoint) : Succeeds(c)}
      /\ untrusted \subseteq {c \in WebChecks(Endpoint) : TlsValidationFails(c)}
      /\ ~lost => \A c \in AskedSoFar \ due :
                    /\ Succeeds(c) => c \in good
                    /\ TlsValidationFails(c) => c \in untrusted
      /\ up \in Networks /\ trusted \subseteq up
      /\ tlsExit \subseteq Handshakes(up) \ trusted
  BY DEF ConnectivityInv
<1>1. ASSUME UNCHANGED <<up, trusted, tlsExit, good, untrusted, ctx, lost>>,
             pc' \in {"dns", "tcp", "web", "done"}, due' \subseteq DueNow',
             ~lost => AskedSoFar' \ due' \subseteq AskedSoFar \ due,
             pc' = "done" => causes' = fromConnectivity
      PROVE  ConnectivityInv'
  <2>1. \A c : (Succeeds(c)' <=> Succeeds(c)) /\ (TlsValidationFails(c)' <=> TlsValidationFails(c))
    BY <1>1 DEF Succeeds, TlsValidationFails, Remote
  <2>2. /\ good' \subseteq {c \in Checks(Endpoint) : Succeeds(c)'}
        /\ untrusted' \subseteq {c \in WebChecks(Endpoint) : TlsValidationFails(c)'}
        /\ ~lost' => \A c \in AskedSoFar' \ due' :
                      /\ Succeeds(c)' => c \in good'
                      /\ TlsValidationFails(c)' => c \in untrusted'
    BY <1>a, <1>1, <2>1
  <2>3. Endpoint' = Endpoint /\ fromConnectivity' = fromConnectivity
    BY <1>1 DEF Endpoint, fromConnectivity, Resolved, Headline, WebTargets, Required
  <2>4. /\ Checks(Endpoint)' = Checks(Endpoint) /\ WebChecks(Endpoint)' = WebChecks(Endpoint)
        /\ Networks' = Networks /\ Handshakes(up)' = Handshakes(up)
    BY <1>1, <2>3 DEF Checks, WebChecks, DnsChecks, TcpChecks, Networks, Handshakes
  <2>5. QED
    BY <1>a, <1>1, <2>2, <2>3, <2>4 DEF ConnectivityInv, Reported
<1>2. CASE DnsProbes
  <2>1. /\ pc' = "dns" /\ due' = DnsChecks(Endpoint) /\ lost' = lost
        /\ UNCHANGED <<up, trusted, tlsExit, good, untrusted, ctx>>
    BY <1>2 DEF DnsProbes, Goto, ContextInv
  <2>2. DueNow' = DnsChecks(Endpoint) /\ AskedSoFar' = DnsChecks(Endpoint)
    BY <2>1 DEF DueNow, AskedSoFar, Endpoint
  <2>3. QED
    BY <1>1, <2>1, <2>2
<1>3. CASE CheckAnswers
  <2>1. PICK c \in due : due' = due \ {c} /\ Record({c}) /\ Goto(pc, FALSE)
    BY <1>3 DEF CheckAnswers
  <2>2. lost' = lost /\ UNCHANGED <<pc, ctx, causes>>
    BY <2>1 DEF Goto, ContextInv
  <2>3. QED
    BY <2>1, <2>2, RecordStep
<1>4. CASE CheckTimesOut
  <2>1. PICK c \in due : due' = due \ {c} /\ Record({}) /\ Goto(pc, TRUE)
    BY <1>4 DEF CheckTimesOut
  <2>2. lost' /\ UNCHANGED <<pc, ctx, causes>>
    BY <2>1 DEF Goto
  <2>3. QED
    BY <2>1, <2>2, RecordStep
<1>5. CASE BatchReturns
  <2>1. PICK told \in SUBSET due : Record(told) /\ Goto(pc, told # due)
    BY <1>5 DEF BatchReturns
  <2>2. /\ due # {} /\ due' = {} /\ UNCHANGED <<pc, ctx, causes>>
        /\ lost => lost' 
        /\ told # due => lost'
    BY <1>5, <2>1 DEF BatchReturns, Goto
  <2>3. QED
    BY <2>1, <2>2, RecordStep
<1>6. CASE TcpProbes
  <2>1. /\ pc = "dns" /\ due = {} /\ pc' = "tcp" /\ due' = TcpChecks(Resolved) /\ lost' = lost
        /\ UNCHANGED <<up, trusted, tlsExit, good, untrusted, ctx>>
    BY <1>6 DEF TcpProbes, Goto, ContextInv
  <2>2. Resolved' = Resolved
    BY <2>1 DEF Resolved, Endpoint
  <2>3. DueNow' = due' /\ AskedSoFar' = DnsChecks(Endpoint) \cup due' /\ AskedSoFar = DnsChecks(Endpoint)
    BY <2>1, <2>2 DEF DueNow, AskedSoFar, Endpoint
  <2>4. QED
    BY <1>1, <2>1, <2>3
<1>7. CASE HttpsProbes
  <2>1. /\ pc = "tcp" /\ due = {} /\ pc' = "web" /\ due' = WebChecks(Endpoint) /\ lost' = lost
        /\ UNCHANGED <<up, trusted, tlsExit, good, untrusted, ctx>>
    BY <1>7 DEF HttpsProbes, Goto, ContextInv
  <2>2. Resolved' = Resolved
    BY <2>1 DEF Resolved, Endpoint
  <2>3. DueNow' = due' /\ AskedSoFar' = AskedSoFar \cup due'
    BY <2>1, <2>2 DEF DueNow, AskedSoFar, Endpoint
  <2>4. QED
    BY <1>1, <2>1, <2>3
<1>8. CASE ConnectivityReports
  <2>1. /\ pc = "web" /\ due = {} /\ pc' = "done" /\ causes' = fromConnectivity
        /\ UNCHANGED <<up, trusted, tlsExit, good, untrusted, due, ctx, lost>>
    BY <1>8 DEF ConnectivityReports, Report, connVars
  <2>2. Resolved' = Resolved
    BY <2>1 DEF Resolved, Endpoint
  <2>3. AskedSoFar' = AskedSoFar
    BY <2>1, <2>2 DEF AskedSoFar, Endpoint
  <2>4. QED
    BY <1>1, <2>1, <2>3
<1>9. QED
  BY <1>2, <1>3, <1>4, <1>5, <1>6, <1>7, <1>8 DEF ConnectivityNext

\* What a cause of a complete probe blames does not work.
LEMMA ConnectivityReal ==
  ASSUME ConnectivityInv, Reported, ~lost
  PROVE  ConnectivityCausesReal
<1>a. /\ due = {} /\ causes = fromConnectivity
      /\ \A c \in AskedSoFar : /\ Succeeds(c) => c \in good
                               /\ TlsValidationFails(c) => c \in untrusted
      /\ AskedSoFar = DnsChecks(Endpoint) \cup TcpChecks(Resolved) \cup WebChecks(Endpoint)
  BY DEF ConnectivityInv, Reported, DueNow, AskedSoFar
<1> DEFINE Broken(c) == c \notin up \/ (c \notin trusted /\ (ctx.local \/ c \notin tlsExit))
<1>1. \A c \in DnsChecks(Endpoint) \cup TcpChecks(Resolved) : c \notin good => Broken(c)
  <2> SUFFICES ASSUME NEW c \in DnsChecks(Endpoint) \cup TcpChecks(Resolved), c \notin good
               PROVE  c \notin up
    OBVIOUS
  <2>1. c[2] # "web"
    BY KindsOfChecks
  <2>2. QED
    BY <1>a, <2>1 DEF Succeeds
<1>2. \A c \in WebChecks(Endpoint) : c \notin good /\ c \notin untrusted => Broken(c)
  <2> SUFFICES ASSUME NEW c \in WebChecks(Endpoint), c \notin good, c \notin untrusted
               PROVE  Broken(c)
    OBVIOUS
  <2>1. c[2] = "web"
    BY KindsOfChecks
  <2>2. QED
    BY <1>a, <2>1 DEF Succeeds, TlsValidationFails, Remote
<1> HIDE DEF Broken
<1>3. \A c \in fromConnectivity : \A check \in c.about : Broken(check)
  BY <1>1, <1>2 DEF fromConnectivity, CauseIfAny, Cause
<1>4. QED
  BY <1>a, <1>3 DEF ConnectivityCausesReal, Broken

\* A required endpoint that does not work is blamed, whatever was lost, unless
\* it is behind a remote TLS failure.
LEMMA ConnectivityNamed ==
  ASSUME ConnectivityInv, Reported
  PROVE  ConnectivityFaultsNamed
<1>a. /\ causes = fromConnectivity
      /\ good \subseteq {c \in Checks(Endpoint) : Succeeds(c)}
      /\ untrusted \subseteq {c \in WebChecks(Endpoint) : TlsValidationFails(c)}
  BY DEF ConnectivityInv
<1>b. Required \subseteq Endpoint
  BY DEF Required
<1> SUFFICES ASSUME NEW check \in Checks(Required) \ up, ~(Remote /\ check \in tlsExit)
             PROVE  \E c \in causes : check[1] \in {d[1] : d \in c.about}
  BY DEF ConnectivityFaultsNamed
<1>1. check \notin good /\ check \notin untrusted
  BY <1>a DEF Succeeds, TlsValidationFails
<1>2. ASSUME NEW kind, NEW about, NEW score, NEW d \in about, d[1] = check[1],
             CauseIfAny(kind, about, score) \subseteq causes
      PROVE  \E c \in causes : check[1] \in {x[1] : x \in c.about}
  <2>1. Cause(kind, about, score) \in causes /\ Cause(kind, about, score).about = about
    BY <1>2 DEF CauseIfAny, Cause
  <2>2. QED
    BY <1>2, <2>1
<1>3. CASE check \in DnsChecks(Required)
  <2>1. check \in DnsChecks(Endpoint) \cap (Checks(Endpoint) \ good)
    BY <1>b, <1>1, <1>3, ChecksOf DEF Checks
  <2>2. CauseIfAny("dns", DnsChecks(Endpoint) \cap (Checks(Endpoint) \ good), 88) \subseteq causes
    BY <1>a DEF fromConnectivity
  <2>3. QED
    BY <1>2, <2>1, <2>2
<1>4. CASE check \in TcpChecks(Required)
  <2>1. PICK e \in Required : \E p \in e.ports : check = <<e.host, "tcp", p>>
    BY <1>4, ChecksOf
  <2>2. CASE <<e.host, "dns", 0>> \notin good
    <3> DEFINE d == <<e.host, "dns", 0>>
    <3>1. d \in DnsChecks(Endpoint) \cap (Checks(Endpoint) \ good)
      BY <1>b, <2>2, ChecksOf DEF Checks
    <3>2. CauseIfAny("dns", DnsChecks(Endpoint) \cap (Checks(Endpoint) \ good), 88) \subseteq causes
      BY <1>a DEF fromConnectivity
    <3>3. d[1] = check[1]
      BY <2>1
    <3>4. QED
      BY <1>2, <3>1, <3>2, <3>3
  <2>3. CASE <<e.host, "dns", 0>> \in good
    <3> DEFINE tested == TcpChecks(Resolved) \cap (Checks(Endpoint) \ good)
    <3>1. check \in TcpChecks(Resolved) /\ check \in Checks(Endpoint) /\ check \in Checks(Required)
      BY <1>b, <1>4, <2>1, <2>3, ChecksOf DEF Resolved, Checks
    <3>2. check \in tested
      BY <1>1, <3>1
    <3>3. CASE check[3] = Primary
      <4> DEFINE blamed == {c \in tested : c[3] = Primary}
      <4>1. CauseIfAny("port", blamed, 86) \subseteq causes
        BY <1>a DEF fromConnectivity
      <4>2. check \in blamed
        BY <3>2, <3>3
      <4> HIDE DEF blamed
      <4>3. QED
        BY <1>2, <4>1, <4>2
    <3>4. CASE check[3] # Primary
      <4> DEFINE blamed == {c \in tested \cap Checks(Required) : c[3] # Primary}
      <4>1. CauseIfAny("endpoint", blamed, 80) \subseteq causes
        BY <1>a DEF fromConnectivity
      <4>2. check \in blamed
        BY <3>1, <3>2, <3>4
      <4> HIDE DEF blamed
      <4>3. QED
        BY <1>2, <4>1, <4>2
    <3>5. QED
      BY <3>3, <3>4
  <2>4. QED
    BY <2>2, <2>3
<1>5. CASE check \in WebChecks(Required)
  <2> DEFINE silent == (WebChecks(Endpoint) \cap (Checks(Endpoint) \ good)) \ untrusted
  <2>1. PICK e \in Required : e.https /\ check = <<e.host, "web", 0>>
    BY <1>5, ChecksOf
  <2>2. check \in silent
    BY <1>b, <1>1, <1>5, ChecksOf DEF Checks
  <2>3. CASE e.host = WebApi
    <3>1. Headline = {check}
      <4>1. PICK i \in DOMAIN Profile : Profile[i] = e
        BY <1>b DEF Endpoint
      <4>2. QED
        BY <2>1, <2>3, <4>1 DEF Headline, WebTargets
    <3>2. CauseIfAny("webapi", Headline \cap silent, 70) \subseteq causes
      BY <1>a, <3>1 DEF fromConnectivity
    <3>3. check \in Headline \cap silent
      BY <2>2, <3>1
    <3> HIDE DEF silent
    <3>4. QED
      BY <1>2, <3>2, <3>3
  <2>4. CASE e.host # WebApi
    <3>1. check[1] # WebApi
      BY <2>1, <2>4
    <3>2. Cause("https", {check}, 66) \in causes
      BY <1>a, <2>2, <3>1 DEF fromConnectivity
    <3>3. Cause("https", {check}, 66).about = {check}
      BY DEF Cause
    <3>4. QED
      BY <3>2, <3>3
  <2>5. QED
    BY <2>3, <2>4
<1>6. QED
  BY <1>3, <1>4, <1>5 DEF Checks

-----------------------------------------------------------------------------
(***************************************************************************)
(* The agent on the endpoint.                                              *)
(***************************************************************************)
\* What a record of the answers and one of the agent look like.
LEMMA AgentShape ==
  ASSUME agent \in Agents
  PROVE  /\ agent.visible \in BOOLEAN /\ agent.running \in BOOLEAN /\ agent.failedOnce \in BOOLEAN
         /\ agent.systemd \in BOOLEAN /\ agent.service \in {"none", "Running", "Stopped"}
BY DEF Agents

\* What the answers of the endpoint probe come to.
FoundType == [service : {"none", "Running", "Stopped"}, process : BOOLEAN, install : BOOLEAN]

\* Answers, silent or lost ones, change what is asked and what was found.
LEMMA HealthStep ==
  ASSUME ContextInv, EndpointHealthInv, found \in FoundType, EndpointHealthNext
  PROVE  EndpointHealthInv' /\ found' \in FoundType
<1>a. /\ pc \in {"start", "asked", "done"}
      /\ agent \in Agents /\ delivery \in Deliveries /\ asked \subseteq Command
      /\ pc # "asked" => asked = {}
      /\ pc = "start" \/ ctx.os = "unknown" => asked = {} /\ found = Nothing
      /\ "wrapper" \in asked => ctx.os = "linux" /\ "services" \notin asked
      /\ "services" \in asked \/ "wrapper" \in asked => found.service = "none"
      /\ found.process => agent.running
      /\ found.install => agent.visible
      /\ found.service # "none" => agent.service # "none"
      /\ found.service = "Stopped" => "Stopped" \in ServiceTold
      /\ ~lost /\ pc # "start" /\ ctx.os # "unknown" =>
          /\ "processes" \notin asked => found.process = agent.running
          /\ "install" \notin asked => found.install = agent.visible
          /\ "wrapper" \in asked => Silent
          /\ "services" \notin asked /\ "wrapper" \notin asked => found.service \in ServiceTold
      /\ lost \in BOOLEAN
  BY DEF EndpointHealthInv, ContextInv
<1>b. /\ agent.visible \in BOOLEAN /\ agent.running \in BOOLEAN /\ agent.failedOnce \in BOOLEAN
      /\ agent.systemd \in BOOLEAN /\ agent.service \in {"none", "Running", "Stopped"}
  BY <1>a, AgentShape
<1>c. /\ found.service \in {"none", "Running", "Stopped"}
      /\ found.process \in BOOLEAN /\ found.install \in BOOLEAN
  BY DEF FoundType
<1>d. UNCHANGED <<agent, ctx>> => Silent' = Silent /\ ServiceTold' = ServiceTold
  BY DEF Silent, ServiceTold, MacStatus
\* found changes at one field at most.
<1>e. \A s \in {"none", "Running", "Stopped"} :
        /\ [found EXCEPT !.service = s] \in FoundType
        /\ [found EXCEPT !.service = s].service = s
        /\ [found EXCEPT !.service = s].process = found.process
        /\ [found EXCEPT !.service = s].install = found.install
  BY DEF FoundType
<1>f. \A b \in BOOLEAN :
        /\ [found EXCEPT !.process = b] \in FoundType
        /\ [found EXCEPT !.process = b].service = found.service
        /\ [found EXCEPT !.process = b].process = b
        /\ [found EXCEPT !.process = b].install = found.install
        /\ [found EXCEPT !.install = b] \in FoundType
        /\ [found EXCEPT !.install = b].service = found.service
        /\ [found EXCEPT !.install = b].process = found.process
        /\ [found EXCEPT !.install = b].install = b
  BY DEF FoundType
<1>1. CASE HealthCommands
  <2>1. /\ pc = "start" /\ pc' = "asked" /\ UNCHANGED <<agent, delivery, found, ctx>> /\ lost' = lost
        /\ asked' = IF ctx.os = "unknown" THEN {} ELSE {"services", "processes", "install"}
    BY <1>1, <1>a DEF HealthCommands, Goto
  <2>2. found = Nothing /\ found.service = "none" /\ ~found.process /\ ~found.install
    BY <1>a, <2>1 DEF Nothing
  <2>3. QED
    BY <1>a, <2>1, <2>2 DEF EndpointHealthInv, Reported, Command, Agents
<1>2. CASE ServicesAnswer
  <2>1. /\ "services" \in asked /\ ~Silent /\ asked' = asked \ {"services"}
        /\ UNCHANGED <<agent, delivery, pc, ctx>> /\ lost' = lost
    BY <1>2, <1>a DEF ServicesAnswer, Goto
  <2>2. PICK s \in {"none", "Running", "Stopped"} :
          /\ found' = [found EXCEPT !.service = s] /\ s \in ServiceTold
          /\ s # "none" => agent.service # "none"
    BY <1>2, <1>b, <2>1 DEF ServicesAnswer, ServiceTold, MacStatus
  <2>3. /\ found' \in FoundType /\ found'.service = s
        /\ found'.process = found.process /\ found'.install = found.install
    BY <1>e, <2>2
  <2>4. QED
    BY <1>a, <1>d, <2>1, <2>2, <2>3 DEF EndpointHealthInv, Reported, Agents
<1>3. CASE ServicesSilent
  <2>1. PICK missed \in BOOLEAN : /\ Silent \/ missed
                                  /\ Goto(pc, missed)
    BY <1>3 DEF ServicesSilent
  <2>2. /\ "services" \in asked /\ ctx.os = "linux"
        /\ asked' = (asked \ {"services"}) \cup {"wrapper"}
        /\ UNCHANGED <<agent, delivery, found, pc, ctx>> /\ (~lost' => ~lost /\ Silent)
    BY <1>3, <1>a, <2>1 DEF ServicesSilent, Goto
  <2>3. QED
    BY <1>a, <1>d, <2>2 DEF EndpointHealthInv, Reported, Agents, Command
<1>4. CASE WrapperAnswers
  <2>1. PICK worded \in BOOLEAN :
          found' = IF agent.service = "Running" \/ (agent.service = "Stopped" /\ worded)
                   THEN [found EXCEPT !.service = "Running"] ELSE found
    BY <1>4 DEF WrapperAnswers
  <2>2. /\ "wrapper" \in asked /\ asked' = asked \ {"wrapper"}
        /\ UNCHANGED <<agent, delivery, pc, ctx>> /\ lost' = lost
    BY <1>4, <1>a DEF WrapperAnswers, Goto
  <2>3. /\ found' \in FoundType
        /\ found'.process = found.process /\ found'.install = found.install
        /\ \/ agent.service \in {"Running", "Stopped"} /\ found'.service = "Running"
           \/ agent.service # "Running" /\ found'.service = "none"
    BY <1>a, <1>b, <1>e, <2>1, <2>2
  <2>4. ~lost => found'.service \in ServiceTold
    BY <1>a, <2>2, <2>3 DEF ServiceTold, Silent
  <2>5. QED
    BY <1>a, <1>d, <2>2, <2>3, <2>4 DEF EndpointHealthInv, Reported, Agents
<1>5. CASE ProcessesAnswer
  <2>1. /\ "processes" \in asked /\ asked' = asked \ {"processes"}
        /\ found' = [found EXCEPT !.process = agent.running]
        /\ UNCHANGED <<agent, delivery, pc, ctx>> /\ lost' = lost
    BY <1>5, <1>a DEF ProcessesAnswer, Goto
  <2>2. /\ found' \in FoundType /\ found'.service = found.service
        /\ found'.process = agent.running /\ found'.install = found.install
    BY <1>b, <1>f, <2>1
  <2>3. QED
    BY <1>a, <1>d, <2>1, <2>2 DEF EndpointHealthInv, Reported, Agents
<1>6. CASE InstallAnswers
  <2>1. /\ "install" \in asked /\ asked' = asked \ {"install"}
        /\ found' = [found EXCEPT !.install = agent.visible]
        /\ UNCHANGED <<agent, delivery, pc, ctx>> /\ lost' = lost
    BY <1>6, <1>a DEF InstallAnswers, Goto
  <2>2. /\ found' \in FoundType /\ found'.service = found.service
        /\ found'.process = found.process /\ found'.install = agent.visible
    BY <1>b, <1>f, <2>1
  <2>3. QED
    BY <1>a, <1>d, <2>1, <2>2 DEF EndpointHealthInv, Reported, Agents
<1>7. CASE HealthCommandLost
  <2>1. PICK c \in asked : asked' = asked \ {c} /\ Goto(pc, TRUE)
    BY <1>7 DEF HealthCommandLost
  <2>2. lost' /\ UNCHANGED <<agent, delivery, found, pc, ctx>>
    BY <1>7, <2>1 DEF HealthCommandLost, Goto
  <2>3. QED
    BY <1>a, <1>d, <2>1, <2>2 DEF EndpointHealthInv, Reported, Agents
<1>8. CASE HealthReports
  <2>1. /\ pc = "asked" /\ asked = {} /\ pc' = "done" /\ causes' = fromEndpointHealth
        /\ UNCHANGED <<agent, delivery, asked, found, ctx, lost>>
    BY <1>8 DEF HealthReports, Report, healthVars
  <2>2. fromEndpointHealth' = fromEndpointHealth
    BY <2>1 DEF fromEndpointHealth, Windows
  <2>3. QED
    BY <1>a, <1>d, <2>1, <2>2 DEF EndpointHealthInv, Agents
<1>9. QED
  BY <1>1, <1>2, <1>3, <1>4, <1>5, <1>6, <1>7, <1>8 DEF EndpointHealthNext

\* The kinds of the causes, and what each rests on.
LEMMA HealthKinds ==
  ASSUME EndpointHealthInv, found \in FoundType, Reported
  PROVE  /\ \A c \in causes : c.kind \in {"not-installed", "service-stopped", "not-registered", "process"}
         /\ \A c \in causes : c.kind = "not-installed" =>
              ~found.install /\ found.service = "none" /\ ~found.process
         /\ \A c \in causes : c.kind = "service-stopped" => found.service = "Stopped"
         /\ \A c \in causes : c.kind = "not-registered" => found.service = "none" /\ found.install
         /\ \A c \in causes : c.kind = "process" => ~found.process /\ found.install
<1>1. causes = fromEndpointHealth
  BY DEF EndpointHealthInv
<1>2. found.service \in {"none", "Running", "Stopped"}
  BY DEF FoundType
<1>3. QED
  BY <1>1, <1>2 DEF fromEndpointHealth, Cause

\* What a cause claims is so on the host; that it misses, if nothing was lost.
LEMMA HealthReal ==
  ASSUME EndpointHealthInv, found \in FoundType, Reported
  PROVE  EndpointHealthCausesReal
<1> SUFFICES ASSUME ctx.os # "unknown", NEW c \in causes
             PROVE  HealthCauseReal(c.kind)
  BY DEF EndpointHealthCausesReal
<1>1. /\ ~lost => /\ found.process = agent.running /\ found.install = agent.visible
                  /\ found.service \in ServiceTold
      /\ found.service = "Stopped" => "Stopped" \in ServiceTold
  BY DEF EndpointHealthInv, Reported
<1>2. agent.service \in {"none", "Running", "Stopped"} /\ agent.failedOnce \in BOOLEAN
  BY AgentShape DEF EndpointHealthInv
<1>3. ~lost /\ found.service = "none" => Absent
  BY <1>1, <1>2 DEF ServiceTold, MacStatus, Absent, Silent
<1>4. found.service = "Stopped" => IF ctx.os = "macos" THEN agent.failedOnce ELSE agent.service = "Stopped"
  BY <1>1, <1>2 DEF ServiceTold, MacStatus
<1>5. QED
  BY <1>1, <1>3, <1>4, HealthKinds DEF HealthCauseReal

\* A missing agent is named; what keeps one from running leads to a cause.
LEMMA HealthNamed ==
  ASSUME ctx \in Contexts, EndpointHealthInv, found \in FoundType, Reported
  PROVE  EndpointHealthFaultsNamed
<1>1. /\ agent.visible \in BOOLEAN /\ agent.running \in BOOLEAN /\ agent.failedOnce \in BOOLEAN
      /\ agent.systemd \in BOOLEAN /\ agent.service \in {"none", "Running", "Stopped"}
  BY AgentShape DEF EndpointHealthInv
<1>2. causes = fromEndpointHealth
  BY DEF EndpointHealthInv
<1>3. ~found.install /\ found.service = "none" /\ ~found.process /\ delivery = "local-agent"
        => Cause("not-installed", {}, IF Windows THEN 90 ELSE 75) \in causes
  BY <1>2 DEF fromEndpointHealth
<1>4. /\ found.service = "Stopped" => causes # {}
      /\ found.service = "none" /\ found.install => causes # {}
      /\ ~found.process /\ found.install => causes # {}
  BY <1>2 DEF fromEndpointHealth
<1>5. ASSUME delivery = "local-agent", ~agent.visible, agent.service = "none", ~agent.running
      PROVE  "not-installed" \in {c.kind : c \in causes}
  <2>1. ~found.install /\ found.service = "none" /\ ~found.process
    BY <1>5 DEF EndpointHealthInv
  <2>2. Cause("not-installed", {}, IF Windows THEN 90 ELSE 75) \in causes
    BY <1>3, <1>5, <2>1
  <2>3. QED
    BY <2>2 DEF Cause
<1>6. ASSUME delivery = "local-agent", ~lost,
             agent.service # "Running" \/ (agent.visible /\ ~agent.running),
             agent.service = "Stopped" => ctx.os = "windows" \/ (ctx.os = "linux" /\ agent.systemd),
             agent.running /\ agent.service = "none" => agent.visible
      PROVE  causes # {}
  <2>1. CASE ctx.os = "unknown"
    <3>1. found = Nothing
      BY <2>1 DEF EndpointHealthInv
    <3>2. QED
      BY <1>3, <1>6, <3>1 DEF Nothing
  <2>2. CASE ctx.os # "unknown"
    <3>1. /\ found.process = agent.running /\ found.install = agent.visible
          /\ found.service \in ServiceTold
      BY <1>6, <2>2 DEF EndpointHealthInv, Reported
    <3>2. QED
      BY <1>1, <1>3, <1>4, <1>6, <3>1 DEF ServiceTold, MacStatus, Silent
  <2>3. QED
    BY <2>1, <2>2
<1>7. QED
  BY <1>5, <1>6 DEF EndpointHealthFaultsNamed

-----------------------------------------------------------------------------
(***************************************************************************)
(* The Web API.                                                            *)
(***************************************************************************)
\* What the service says, in its parts.
LEMMA ServiceShape ==
  ASSUME api \in Services
  PROVE  /\ api.token \in BOOLEAN /\ api.ping \in BOOLEAN /\ api.account \in BOOLEAN
         /\ api.scope \in BOOLEAN /\ api.devices \in Seq(Listed)
         /\ ~api.account => api.devices = <<>> /\ api.allowed = {} /\ ~api.scope
<1>1. PICK n \in 0 .. MaxDevices + 1 : api.devices \in [1 .. n -> Listed]
  BY DEF Services
<1>2. api.devices \in Seq(Listed)
  BY <1>1, AuthAssumption
<1>3. QED
  BY <1>2 DEF Services

\* The devices kept are the first of the list, each without its further states.
LEMMA KeptShape ==
  ASSUME api \in Services
  PROVE  /\ Len(KeptDevices) <= MaxDevices
         /\ \A i \in DOMAIN KeptDevices :
               api.scope /\ i \in DOMAIN api.devices /\ KeptDevices[i] = Summary(api.devices[i])
         /\ api.scope => \A i \in DOMAIN api.devices : i <= MaxDevices => i \in DOMAIN KeptDevices
<1> DEFINE n == IF Len(api.devices) > MaxDevices THEN MaxDevices ELSE Len(api.devices)
<1>1. api.devices \in Seq(Listed) /\ api.scope \in BOOLEAN
  BY ServiceShape
<1>2. n \in Nat /\ n <= Len(api.devices) /\ n <= MaxDevices /\ (n = Len(api.devices) \/ n = MaxDevices)
  BY <1>1, AuthAssumption
<1>3. DOMAIN api.devices = 1 .. Len(api.devices) /\ Len(api.devices) \in Nat
  BY <1>1
<1>4. Kept = 1 .. n
  BY DEF Kept
<1> HIDE DEF n
<1>5. CASE api.scope
  <2>1. KeptDevices = [i \in 1 .. n |-> Summary(api.devices[i])]
    BY <1>4, <1>5 DEF KeptDevices
  <2>2. DOMAIN KeptDevices = 1 .. n /\ \A i \in 1 .. n : KeptDevices[i] = Summary(api.devices[i])
    BY <2>1
  <2>3. KeptDevices \in Seq({Summary(api.devices[i]) : i \in 1 .. n})
    BY <1>2, <2>1
  <2>4. Len(KeptDevices) = n
    BY <1>2, <2>2, <2>3
  <2>5. QED
    BY <1>2, <1>3, <1>5, <2>2, <2>4
<1>6. CASE ~api.scope
  <2>1. KeptDevices = <<>> /\ Len(<<>>) = 0 /\ DOMAIN <<>> = {}
    BY <1>6 DEF KeptDevices
  <2>2. QED
    BY <1>6, <2>1, AuthAssumption
<1>7. QED
  BY <1>1, <1>5, <1>6

\* The first match is among the devices kept.
LEMMA MatchIsFirst ==
  ASSUME NEW d \in Match
  PROVE  \E i \in DOMAIN auth.devices :
            /\ d = auth.devices[i] /\ <<d.name, target>> \in Includes
            /\ \A j \in DOMAIN auth.devices :
                  <<auth.devices[j].name, target>> \in Includes => i <= j
BY DEF Match

\* What the answers of the Web API come to.
AuthShape == [ping : BOOLEAN, account : BOOLEAN, devices : {<<>>, KeptDevices}, denied : SUBSET PolicyPaths]

\* An answer, or a lost one, changes one field of what is known.
LEMMA AuthStep ==
  ASSUME ContextInv, AuthInv, AuthPolicyNext
  PROVE  AuthInv'
<1>a. /\ pc \in {"start", "account", "devices", "judge", "paths", "done"}
      /\ api \in Services /\ target \in Device
      /\ auth \in AuthShape
      /\ paths \subseteq PolicyPaths
      /\ pc = "start" \/ ~api.token => auth = Unasked
      /\ pc \in {"account", "judge"} => ~auth.account /\ auth.devices = <<>> /\ auth.denied = {}
      /\ pc \in {"devices", "paths"} => auth.account
      /\ api.token /\ pc # "start" => (auth.ping => api.ping)
      /\ auth.account => api.account
      /\ ~lost =>
          /\ ~auth.ping => ~api.ping
          /\ api.token /\ pc \notin {"start", "account"} => auth.account = api.account
          /\ auth.account /\ pc \in {"paths", "done"} => auth.devices = KeptDevices
          /\ auth.denied \cap api.allowed = {}
      /\ pc = "paths" \/ paths = {}
      /\ auth.account /\ pc \in {"paths", "done"} =>
            PolicyPaths \ (api.allowed \cup paths) \subseteq auth.denied
      /\ pc \notin {"start", "done"} => api.token
      /\ lost \in BOOLEAN
  BY DEF AuthInv, ContextInv, AuthShape
<1>b. api.token \in BOOLEAN /\ api.ping \in BOOLEAN /\ api.account \in BOOLEAN
  BY <1>a, ServiceShape
<1>c. UNCHANGED api => KeptDevices' = KeptDevices /\ AuthShape' = AuthShape
  BY DEF KeptDevices, Kept, Summary, AuthShape
<1>d. /\ auth.ping \in BOOLEAN /\ auth.account \in BOOLEAN
      /\ auth.devices \in {<<>>, KeptDevices} /\ auth.denied \subseteq PolicyPaths
  BY <1>a DEF AuthShape
<1>e. \A b \in BOOLEAN :
        /\ [auth EXCEPT !.ping = b] \in AuthShape
        /\ [auth EXCEPT !.ping = b].ping = b
        /\ [auth EXCEPT !.ping = b].account = auth.account
        /\ [auth EXCEPT !.ping = b].devices = auth.devices
        /\ [auth EXCEPT !.ping = b].denied = auth.denied
        /\ [auth EXCEPT !.account = b] \in AuthShape
        /\ [auth EXCEPT !.account = b].ping = auth.ping
        /\ [auth EXCEPT !.account = b].account = b
        /\ [auth EXCEPT !.account = b].devices = auth.devices
        /\ [auth EXCEPT !.account = b].denied = auth.denied
  BY <1>a DEF AuthShape
<1>f. /\ [auth EXCEPT !.devices = KeptDevices] \in AuthShape
      /\ [auth EXCEPT !.devices = KeptDevices].ping = auth.ping
      /\ [auth EXCEPT !.devices = KeptDevices].account = auth.account
      /\ [auth EXCEPT !.devices = KeptDevices].devices = KeptDevices
      /\ [auth EXCEPT !.devices = KeptDevices].denied = auth.denied
  BY <1>a DEF AuthShape
<1>g. \A p \in PolicyPaths :
        /\ [auth EXCEPT !.denied = @ \cup {p}] \in AuthShape
        /\ [auth EXCEPT !.denied = @ \cup {p}].ping = auth.ping
        /\ [auth EXCEPT !.denied = @ \cup {p}].account = auth.account
        /\ [auth EXCEPT !.denied = @ \cup {p}].devices = auth.devices
        /\ [auth EXCEPT !.denied = @ \cup {p}].denied = auth.denied \cup {p}
  BY <1>a DEF AuthShape
<1>1. CASE NoToken
  <2>1. /\ pc = "start" /\ ~api.token /\ pc' = "done" /\ causes' = {}
        /\ UNCHANGED <<api, target, auth, paths, lost>>
    BY <1>1 DEF NoToken, Report, authVars
  <2>2. auth' = Unasked /\ ~auth'.account /\ auth'.denied = {} /\ auth'.ping
    BY <1>a, <2>1 DEF Unasked
  <2>3. QED
    BY <1>a, <1>b, <1>c, <2>1, <2>2 DEF AuthInv, AuthShape, Reported, Services
<1>2. CASE Ping
  <2>1. PICK missed \in BOOLEAN :
          /\ auth' = [auth EXCEPT !.ping = api.ping /\ ~missed]
          /\ Goto("account", missed)
    BY <1>2 DEF Ping
  <2>2. /\ pc = "start" /\ api.token /\ pc' = "account"
        /\ lost' = (lost \/ missed) /\ UNCHANGED <<api, target, paths>>
    BY <1>2, <2>1 DEF Ping, Goto
  <2>3. ~auth.account /\ auth.devices = <<>> /\ auth.denied = {}
    BY <1>a, <2>2 DEF Unasked
  <2>4. (api.ping /\ ~missed) \in BOOLEAN
    OBVIOUS
  <2>5. /\ auth' \in AuthShape /\ auth'.ping = (api.ping /\ ~missed) /\ auth'.account = auth.account
        /\ auth'.devices = auth.devices /\ auth'.denied = auth.denied
    BY <1>e, <2>1, <2>4
  <2>6. QED
    BY <1>a, <1>b, <1>c, <1>d, <2>2, <2>3, <2>5 DEF AuthInv, AuthShape, Reported, Services
<1>3. CASE Account
  <2>1. PICK missed \in BOOLEAN :
          /\ auth' = [auth EXCEPT !.account = api.account /\ ~missed]
          /\ Goto(IF auth'.account THEN "devices" ELSE "judge", missed)
    BY <1>3 DEF Account
  <2>2. /\ pc = "account" /\ pc' = IF auth'.account THEN "devices" ELSE "judge"
        /\ lost' = (lost \/ missed) /\ UNCHANGED <<api, target, paths>>
    BY <1>3, <2>1 DEF Account, Goto
  <2>4. (api.account /\ ~missed) \in BOOLEAN
    OBVIOUS
  <2>5. /\ auth' \in AuthShape /\ auth'.account = (api.account /\ ~missed) /\ auth'.ping = auth.ping
        /\ auth'.devices = auth.devices /\ auth'.denied = auth.denied
    BY <1>e, <2>1, <2>4
  <2>6. QED
    BY <1>a, <1>b, <1>c, <1>d, <2>2, <2>5 DEF AuthInv, AuthShape, Reported, Services
<1>4. CASE Devices
  <2>1. PICK missed \in BOOLEAN :
          /\ auth' = IF missed THEN auth ELSE [auth EXCEPT !.devices = KeptDevices]
          /\ Goto("paths", missed)
    BY <1>4 DEF Devices, KeptDevices
  <2>2. /\ pc = "devices" /\ pc' = "paths" /\ paths' = PolicyPaths
        /\ lost' = (lost \/ missed) /\ UNCHANGED <<api, target>>
    BY <1>4, <2>1 DEF Devices, Goto
  <2>3. /\ auth' \in AuthShape /\ auth'.account = auth.account /\ auth'.ping = auth.ping
        /\ auth'.denied = auth.denied /\ (~missed => auth'.devices = KeptDevices)
    BY <1>a, <1>f, <2>1
  <2>4. QED
    BY <1>a, <1>b, <1>c, <1>d, <2>2, <2>3 DEF AuthInv, AuthShape, Reported, Services
<1>5. CASE PolicyCheck
  <2>1. PICK p \in paths, missed \in BOOLEAN :
          /\ paths' = paths \ {p}
          /\ auth' = IF p \in api.allowed /\ ~missed THEN auth
                     ELSE [auth EXCEPT !.denied = @ \cup {p}]
          /\ Goto(pc, missed)
    BY <1>5 DEF PolicyCheck
  <2>2. /\ pc = "paths" /\ pc' = pc
        /\ lost' = (lost \/ missed) /\ UNCHANGED <<api, target>>
    BY <1>5, <2>1 DEF PolicyCheck, Goto
  <2>3. /\ auth' \in AuthShape /\ auth'.account = auth.account /\ auth'.ping = auth.ping
        /\ auth'.devices = auth.devices
        /\ auth'.denied = IF p \in api.allowed /\ ~missed THEN auth.denied ELSE auth.denied \cup {p}
    BY <1>a, <1>g, <2>1
  <2>4. QED
    BY <1>a, <1>b, <1>c, <1>d, <2>1, <2>2, <2>3 DEF AuthInv, AuthShape, Reported, Services
<1>6. CASE AuthReports
  <2>1. /\ pc \in {"judge", "paths"} /\ paths = {} /\ pc' = "done" /\ causes' = fromAuth
        /\ UNCHANGED <<api, target, auth, paths, lost>>
    BY <1>6, <1>a DEF AuthReports, Report, authVars
  <2>2. fromAuth' = fromAuth
    BY <2>1 DEF fromAuth, Match
  <2>3. QED
    BY <1>a, <1>b, <1>c, <1>d, <2>1, <2>2 DEF AuthInv, AuthShape, Reported, Services
<1>7. QED
  BY <1>1, <1>2, <1>3, <1>4, <1>5, <1>6 DEF AuthPolicyNext

\* The kinds of the causes, and what each rests on.
LEMMA AuthKinds ==
  ASSUME AuthInv, Reported, NEW c \in causes
  PROVE  /\ api.token
         /\ \/ c = Cause("webapi", {}, 80) /\ ~auth.ping
            \/ c = Cause("token", {}, 88) /\ ~auth.account
            \/ \E d \in Match : c = Cause("offline", {d.name}, 72) /\ ~d.online
            \/ \E p \in auth.denied : c = Cause("policy", {p}, 60)
<1>1. api.token /\ c \in fromAuth
  BY DEF AuthInv
<1>2. QED
  BY <1>1 DEF fromAuth

\* What a cause claims is what the service says, the refusals if nothing was lost.
LEMMA AuthReal ==
  ASSUME AuthInv, Reported
  PROVE  AuthCausesReal
<1>a. /\ api \in Services
      /\ ~lost => /\ ~auth.ping => ~api.ping
                  /\ api.token => auth.account = api.account
                  /\ auth.denied \cap api.allowed = {}
      /\ auth.devices \in {<<>>, KeptDevices}
  BY DEF AuthInv, Reported
<1> SUFFICES ASSUME NEW c \in causes
             PROVE  CASE c.kind = "webapi" -> ~lost => ~api.ping
                      [] c.kind = "token" -> ~lost => ~api.account
                      [] c.kind = "policy" -> ~lost => c.about \cap api.allowed = {}
                      [] c.kind = "offline" ->
                            api.scope /\ \E i \in DOMAIN api.devices :
                                /\ c.about = {api.devices[i].name} /\ api.devices[i].state # "online"
                                /\ \A j \in 1 .. i - 1 : api.devices[j].name # target
  BY DEF AuthCausesReal
<1>1. CASE c = Cause("webapi", {}, 80) /\ ~auth.ping
  BY <1>1, <1>a DEF Cause
<1>2. CASE c = Cause("token", {}, 88) /\ ~auth.account
  BY <1>2, <1>a, AuthKinds DEF Cause
<1>3. CASE \E p \in auth.denied : c = Cause("policy", {p}, 60)
  BY <1>3, <1>a DEF Cause
<1>4. CASE \E d \in Match : c = Cause("offline", {d.name}, 72) /\ ~d.online
  <2>1. PICK d \in Match : c = Cause("offline", {d.name}, 72) /\ ~d.online
    BY <1>4
  <2>2. PICK i \in DOMAIN auth.devices :
            /\ d = auth.devices[i]
            /\ \A j \in DOMAIN auth.devices :
                  <<auth.devices[j].name, target>> \in Includes => i <= j
    BY MatchIsFirst
  <2>3. auth.devices = KeptDevices
    BY <1>a, <2>2
  <2>4. api.scope /\ i \in DOMAIN api.devices /\ d = Summary(api.devices[i])
    BY <1>a, <2>2, <2>3, KeptShape
  <2>5. d.name = api.devices[i].name /\ api.devices[i].state # "online"
    BY <2>1, <2>4 DEF Summary
  <2>6. ASSUME NEW j \in 1 .. i - 1, api.devices[j].name = target
        PROVE  FALSE
    <3>1. DOMAIN KeptDevices = Kept /\ i \in Int
      BY <2>4, <1>a, ServiceShape DEF KeptDevices
    <3>2. j \in DOMAIN KeptDevices
      BY <2>2, <2>3, <2>6, <3>1, <1>a, ServiceShape, AuthAssumption DEF Kept
    <3>3. KeptDevices[j] = Summary(api.devices[j])
      BY <1>a, <3>2, KeptShape
    <3>4. KeptDevices[j].name = target
      BY <2>6, <3>3 DEF Summary
    <3>5. <<target, target>> \in Includes
      BY AuthAssumption DEF AuthInv
    <3>6. QED
      BY <2>2, <2>3, <2>6, <3>1, <3>2, <3>4, <3>5
  <2>7. c.kind = "offline" /\ c.about = {d.name}
    BY <2>1 DEF Cause
  <2>8. QED
    BY <2>4, <2>5, <2>6, <2>7
<1>5. QED
  BY <1>1, <1>2, <1>3, <1>4, AuthKinds

\* A refused token or path, an unreachable service, a target not online are named.
LEMMA AuthNamed ==
  ASSUME AuthInv, Reported
  PROVE  AuthFaultsNamed
<1>a. /\ api \in Services
      /\ auth.ping => api.ping \/ ~api.token
      /\ auth.account => api.account
      /\ ~lost => /\ api.token => auth.account = api.account
                  /\ auth.account => auth.devices = KeptDevices
      /\ auth.account => PolicyPaths \ api.allowed \subseteq auth.denied
      /\ auth.ping \in BOOLEAN /\ auth.account \in BOOLEAN
      /\ causes = IF api.token THEN fromAuth ELSE {}
  BY DEF AuthInv, Reported
<1> DEFINE kinds == {c.kind : c \in causes}
<1> SUFFICES ASSUME api.token
             PROVE  /\ ~api.ping => "webapi" \in kinds
                    /\ ~api.account => "token" \in kinds
                    /\ "token" \notin kinds => \A p \in PolicyPaths \ api.allowed :
                          \E c \in causes : c.kind = "policy" /\ p \in c.about
                    /\ api.scope /\ ~lost /\ (\E i \in DOMAIN api.devices :
                            /\ i <= MaxDevices /\ api.devices[i].name = target
                            /\ api.devices[i].state # "online"
                            /\ \A j \in 1 .. i - 1 : <<api.devices[j].name, target>> \notin Includes)
                        => "offline" \in kinds
  BY DEF AuthFaultsNamed
<1>1. causes = fromAuth
  BY <1>a
<1>2. ~auth.ping => Cause("webapi", {}, 80) \in causes
  BY <1>1 DEF fromAuth
<1>3. ~auth.account => Cause("token", {}, 88) \in causes
  BY <1>1 DEF fromAuth
<1>4. \A kind, about, score : Cause(kind, about, score) \in causes => kind \in kinds
  <2> SUFFICES ASSUME NEW kind, NEW about, NEW score, Cause(kind, about, score) \in causes
               PROVE  kind \in kinds
    OBVIOUS
  <2>1. Cause(kind, about, score).kind = kind
    BY DEF Cause
  <2>2. QED
    BY <2>1
<1>5. ASSUME "token" \notin kinds, NEW p \in PolicyPaths \ api.allowed
      PROVE  \E c \in causes : c.kind = "policy" /\ p \in c.about
  <2>1. auth.account
    BY <1>a, <1>3, <1>4, <1>5
  <2>2. p \in auth.denied
    BY <1>a, <2>1
  <2>3. Cause("policy", {p}, 60) \in causes
    BY <1>1, <2>2 DEF fromAuth
  <2>4. QED
    BY <2>3 DEF Cause
<1>6. ASSUME api.scope, ~lost, NEW i \in DOMAIN api.devices,
             i <= MaxDevices, api.devices[i].name = target, api.devices[i].state # "online",
             \A j \in 1 .. i - 1 : <<api.devices[j].name, target>> \notin Includes
      PROVE  "offline" \in kinds
  <2>1. api.devices \in Seq(Listed) /\ api.account
    BY <1>a, <1>6, ServiceShape
  <2>2. auth.devices = KeptDevices
    BY <1>a, <1>6, <2>1
  <2>3. i \in DOMAIN KeptDevices /\ KeptDevices[i] = Summary(api.devices[i])
    BY <1>a, <1>6, KeptShape
  <2>4. KeptDevices[i].name = target /\ ~KeptDevices[i].online
    <3>1. Summary(api.devices[i]).name = target
      BY <1>6 DEF Summary
    <3>2. Summary(api.devices[i]).online = (api.devices[i].state = "online")
      BY DEF Summary
    <3>3. QED
      BY <1>6, <2>3, <3>1, <3>2
  <2>5. <<target, target>> \in Includes
    BY AuthAssumption DEF AuthInv
  <2>6. ASSUME NEW k \in DOMAIN KeptDevices, <<KeptDevices[k].name, target>> \in Includes
        PROVE  i <= k
    <3>1. k \in DOMAIN api.devices /\ KeptDevices[k] = Summary(api.devices[k])
      BY <1>a, KeptShape
    <3>2. k \in 1 .. Len(api.devices) /\ i \in 1 .. Len(api.devices) /\ Len(api.devices) \in Nat
      BY <2>1, <3>1
    <3>3. <<api.devices[k].name, target>> \in Includes
      BY <2>6, <3>1 DEF Summary
    <3>4. QED
      BY <1>6, <3>2, <3>3
  <2>7. KeptDevices[i] \in Match
    BY <2>2, <2>3, <2>4, <2>5, <2>6 DEF Match
  <2>8. Cause("offline", {target}, 72) \in causes
    BY <1>1, <2>4, <2>7 DEF fromAuth
  <2>9. QED
    BY <1>4, <2>8
<1> HIDE DEF kinds
<1>7. QED
  BY <1>a, <1>2, <1>3, <1>4, <1>5, <1>6

-----------------------------------------------------------------------------
(***************************************************************************)
(* The probes together.                                                    *)
(***************************************************************************)
\* A step of a probe leaves the context alone and concludes at its end only.
Moves ==
    /\ pc # "done" /\ UNCHANGED <<branch, ctx>> /\ lost' \in BOOLEAN
    /\ pc' # "done" => causes' = causes

\* Going on with the probe, and reporting, are such steps.
LEMMA GotoMoves ==
  ASSUME lost \in BOOLEAN, pc # "done", NEW next, NEW missed \in BOOLEAN, Goto(next, missed)
  PROVE  Moves
BY DEF Goto, Moves

\* A report ends the probe, so it may conclude.
LEMMA ReportMoves ==
  ASSUME lost \in BOOLEAN, pc # "done", NEW cs, NEW ns, Report(cs, ns)
  PROVE  Moves
BY DEF Report, Moves

\* The actions of the connectivity probe are such steps.
LEMMA ConnectivityMoves ==
  ASSUME ContextInv, ConnectivityInv, ConnectivityNext
  PROVE  Moves
<1>1. lost \in BOOLEAN /\ (pc = "done" => due = {})
  BY DEF ContextInv, ConnectivityInv, DueNow
<1>2. pc # "done"
  BY <1>1 DEF ConnectivityNext, DnsProbes, CheckAnswers, CheckTimesOut, BatchReturns,
      TcpProbes, HttpsProbes, ConnectivityReports
<1>3. \/ \E next, missed : missed \in BOOLEAN /\ Goto(next, missed)
      \/ \E cs, ns : Report(cs, ns)
  BY DEF ConnectivityNext, DnsProbes, CheckAnswers, CheckTimesOut, BatchReturns,
      TcpProbes, HttpsProbes, ConnectivityReports
<1>4. QED
  BY <1>1, <1>2, <1>3, GotoMoves, ReportMoves

\* So are those of the endpoint probe.
LEMMA HealthMoves ==
  ASSUME ContextInv, EndpointHealthInv, EndpointHealthNext
  PROVE  Moves
<1>1. lost \in BOOLEAN /\ (pc = "done" => asked = {})
  BY DEF ContextInv, EndpointHealthInv
<1>2. pc # "done"
  BY <1>1 DEF EndpointHealthNext, HealthCommands, ServicesAnswer, ServicesSilent, WrapperAnswers,
      ProcessesAnswer, InstallAnswers, HealthCommandLost, HealthReports
<1>3. \/ \E next, missed : missed \in BOOLEAN /\ Goto(next, missed)
      \/ \E cs, ns : Report(cs, ns)
  BY DEF EndpointHealthNext, HealthCommands, ServicesAnswer, ServicesSilent, WrapperAnswers,
      ProcessesAnswer, InstallAnswers, HealthCommandLost, HealthReports
<1>4. QED
  BY <1>1, <1>2, <1>3, GotoMoves, ReportMoves

\* So are those of the Web API probe.
LEMMA AuthMoves ==
  ASSUME ContextInv, AuthInv, AuthPolicyNext
  PROVE  Moves
<1>1. lost \in BOOLEAN
  BY DEF ContextInv
<1>2. pc # "done"
  BY DEF AuthPolicyNext, NoToken, Ping, Account, Devices, PolicyCheck, AuthReports
<1>3. \/ \E next, missed : missed \in BOOLEAN /\ Goto(next, missed)
      \/ \E cs, ns : Report(cs, ns)
  BY DEF AuthPolicyNext, NoToken, Ping, Account, Devices, PolicyCheck, AuthReports
<1>4. QED
  BY <1>1, <1>2, <1>3, GotoMoves, ReportMoves

\* So are those of the log probe.
LEMMA LogMoves ==
  ASSUME ContextInv, LogInv, LogEvidenceNext
  PROVE  Moves
<1>1. lost \in BOOLEAN
  BY DEF ContextInv
<1>2. pc # "done"
  BY DEF LogEvidenceNext, HarvestPower, LiveCapture, CaptureEmpty, FindFiles, FindFilesLost,
      UnifiedLog, NothingFound, ReadFile, RankFiles, LogReports
<1>3. \/ \E next, missed : missed \in BOOLEAN /\ Goto(next, missed)
      \/ \E cs, ns : Report(cs, ns)
  BY DEF LogEvidenceNext, HarvestPower, LiveCapture, CaptureEmpty, FindFiles, FindFilesLost,
      UnifiedLog, NothingFound, ReadFile, RankFiles, LogReports
<1>4. QED
  BY <1>1, <1>2, <1>3, GotoMoves, ReportMoves

\* Every probe starts with nothing asked and nothing found.
LEMMA ConnectivityStarts ==
  ASSUME ContextInit("connectivity"), ConnectivityInit
  PROVE  ConnectivityInv
BY DEF ContextInit, ConnectivityInit, ConnectivityInv, AskedSoFar, Reported

\* The endpoint probe starts with no command asked.
LEMMA HealthStarts ==
  ASSUME ContextInit("endpoint-health"), EndpointHealthInit
  PROVE  EndpointHealthInv
BY DEF ContextInit, EndpointHealthInit, EndpointHealthInv, Reported, Nothing

\* The Web API probe starts with no request made.
LEMMA AuthStarts ==
  ASSUME ContextInit("auth-policy"), AuthPolicyInit
  PROVE  AuthInv
BY DEF ContextInit, AuthPolicyInit, AuthInv, Reported, Unasked

\* The log probe starts with nothing read, and a tally of nothing.
LEMMA LogStarts ==
  ASSUME ContextInit("log-intelligence"), LogEvidenceInit
  PROVE  LogInv
<1>1. /\ pc = "start" /\ host \in Hosts /\ power = <<>> /\ files = <<>>
      /\ counts = <<>> /\ read = <<>> /\ top = <<>>
  BY DEF ContextInit, LogEvidenceInit
<1>2. /\ <<>> \in Seq(Texts \cup {<<>>}) /\ Len(<<>>) = 0 /\ <<>> \in Seq(Seq(Block))
      /\ <<>> \in Seq(Block) /\ DOMAIN <<>> = {}
  OBVIOUS
<1>3. \A s \in Signature : LinesOf(s) = 0
  BY <1>1, LinesOfRead, LinesOfMore
<1>4. Tallied
  BY <1>1, <1>2, <1>3 DEF Tallied
<1>5. QED
  BY <1>1, <1>2, <1>4, LogAssumption DEF LogInv, Reported

\* And keeps what it has when nothing happens.
LEMMA ConnectivityStays ==
  ASSUME ConnectivityInv, UNCHANGED <<probeVars, connVars>>
  PROVE  ConnectivityInv'
<1>1. UNCHANGED <<up, trusted, tlsExit, due, good, untrusted, ctx, pc, lost, causes>>
  BY DEF probeVars, connVars
<1>2. Endpoint' = Endpoint /\ Resolved' = Resolved
  BY <1>1 DEF Endpoint, Resolved
<1>3. /\ Checks(Endpoint)' = Checks(Endpoint) /\ WebChecks(Endpoint)' = WebChecks(Endpoint)
      /\ Networks' = Networks /\ Handshakes(up)' = Handshakes(up)
  BY <1>1, <1>2 DEF Checks, WebChecks, DnsChecks, TcpChecks, Networks, Handshakes
<1>4. \A c : (Succeeds(c)' <=> Succeeds(c)) /\ (TlsValidationFails(c)' <=> TlsValidationFails(c))
  BY <1>1 DEF Succeeds, TlsValidationFails, Remote
<1>5. AskedSoFar' = AskedSoFar /\ DueNow' = DueNow
  BY <1>1, <1>2 DEF AskedSoFar, DueNow, DnsChecks, TcpChecks, WebChecks
<1>6. fromConnectivity' = fromConnectivity
  BY <1>1, <1>2 DEF fromConnectivity, Required, Headline, WebTargets
<1>7. {c \in Checks(Endpoint) : Succeeds(c)}' = {c \in Checks(Endpoint) : Succeeds(c)}
  BY <1>3, <1>4
<1>8. {c \in WebChecks(Endpoint) : TlsValidationFails(c)}' = {c \in WebChecks(Endpoint) : TlsValidationFails(c)}
  BY <1>3, <1>4
<1>9. QED
  BY <1>1, <1>3, <1>4, <1>5, <1>6, <1>7, <1>8 DEF ConnectivityInv, Reported

\* The endpoint probe keeps its invariant when it does nothing.
LEMMA HealthStays ==
  ASSUME EndpointHealthInv, UNCHANGED <<probeVars, healthVars>>
  PROVE  EndpointHealthInv'
BY DEF probeVars, healthVars, EndpointHealthInv, Agents, Command, Silent, ServiceTold, MacStatus,
   Reported, fromEndpointHealth, Windows, Nothing

\* The Web API probe keeps its invariant when it does nothing.
LEMMA AuthStays ==
  ASSUME AuthInv, UNCHANGED <<probeVars, authVars>>
  PROVE  AuthInv'
<1>1. UNCHANGED <<api, target, auth, paths, pc, lost, causes>>
  BY DEF probeVars, authVars
<1>2. Services' = Services /\ KeptDevices' = KeptDevices /\ fromAuth' = fromAuth
  BY <1>1 DEF Services, KeptDevices, Kept, Summary, fromAuth, Match
<1>3. QED
  BY <1>1, <1>2 DEF AuthInv, Reported, Unasked

\* The log probe keeps its invariant, the tally included, when it does nothing.
LEMMA LogStays ==
  ASSUME LogInv, UNCHANGED <<probeVars, logVars>>
  PROVE  LogInv'
<1>1. Tallies(counts, Lines(read)) /\ read \in Seq(Seq(Block))
  BY TalliedIs DEF LogInv
<1>2. (read \in Seq(Seq(Block)) /\ Tallies(counts, Lines(read)) => Tallied)'
  BY TalliedIs, PTL
<1>3. Tallied'
  BY <1>1, <1>2 DEF logVars
<1>4. fromLogs' = fromLogs /\ Drops(host.events)' = Drops(host.events)
  BY DropsStay DEF fromLogs, probeVars, logVars, standbyExplainsDrops, SignatureScore, ReconnectNoise
<1>5. Hosts' = Hosts
  BY DEF Hosts
<1>6. QED
  BY <1>3, <1>4, <1>5 DEF LogInv, probeVars, logVars, Reported

\* Scores of all causes, and the types of what a probe keeps.
LEMMA ConnectivityScores ==
  ASSUME ContextInv, ConnectivityInv, NEW c \in causes
  PROVE  c.score \in 1 .. 92
<1>1. Reported
  BY DEF ContextInv
<1>2. c \in fromConnectivity
  BY <1>1 DEF ConnectivityInv
<1>3. QED
  BY <1>2 DEF fromConnectivity, CauseIfAny, Cause

\* Causes of the endpoint probe score below 100.
LEMMA HealthScores ==
  ASSUME ContextInv, EndpointHealthInv, NEW c \in causes
  PROVE  c.score \in 1 .. 92
<1>1. Reported
  BY DEF ContextInv
<1>2. c \in fromEndpointHealth
  BY <1>1 DEF EndpointHealthInv
<1>3. QED
  BY <1>2 DEF fromEndpointHealth, Cause

\* Causes of the Web API probe do.
LEMMA AuthScores ==
  ASSUME ContextInv, AuthInv, NEW c \in causes
  PROVE  c.score \in 1 .. 92
<1>1. Reported
  BY DEF ContextInv
<1>2. c.score \in {80, 88, 72, 60}
  BY <1>1, AuthKinds DEF Cause
<1>3. QED
  BY <1>2

\* Causes of the log probe do, whatever the logarithms are.
LEMMA LogCauseScores ==
  ASSUME ContextInv, LogInv, NEW c \in causes
  PROVE  c.score \in 1 .. 92
<1>1. Reported
  BY DEF ContextInv
<1>2. CASE Blamed /\ c = Cause("signature", {top[1][1]}, SignatureScore(top[1][1], top[1][2]))
  <2> DEFINE score == SignatureScore(top[1][1], top[1][2])
  <2>1. top[1][1] \in Signature /\ top[1][2] \in Nat /\ top[1][2] > 0
    BY <1>1, <1>2, Dominant DEF Blamed
  <2>2. score \in 1 .. 90
    BY <2>1, LogScores
  <2>3. c.score = score
    BY <1>2 DEF Cause
  <2> HIDE DEF score
  <2>4. QED
    BY <2>2, <2>3
<1>3. CASE standbyExplainsDrops /\ c = Cause("standby", {}, StandbyScore(power[1]))
  <2> DEFINE score == StandbyScore(power[1])
  <2>1. power[1] \in Nat
    BY <1>3, DropsType
  <2>2. score \in 70 .. 92
    BY <2>1, StandbyScores
  <2>3. c.score = score
    BY <1>3 DEF Cause
  <2> HIDE DEF score
  <2>4. QED
    BY <2>2, <2>3
<1>4. QED
  BY <1>1, <1>2, <1>3, LogKinds

\* What EvidenceInv says beyond the types follows from this, which is inductive.
Core ==
    /\ ContextInv /\ found \in FoundType
    /\ branch \in {"connectivity", "endpoint-health", "auth-policy", "log-intelligence"}
    /\ IF branch = "connectivity" THEN ConnectivityInv ELSE NoNetwork
    /\ IF branch = "endpoint-health" THEN EndpointHealthInv ELSE NoAgent
    /\ IF branch = "auth-policy" THEN AuthInv ELSE NoService
    /\ IF branch = "log-intelligence" THEN LogInv ELSE NoLogs

\* The types that TypeOK adds follow from the probes' own invariants.
LEMMA CoreTyped ==
  ASSUME Core
  PROVE  TypeOK
<1>1. ctx \in Contexts /\ lost \in BOOLEAN /\ found \in FoundType
  BY DEF Core, ContextInv
<1>2. ASSUME NEW c \in causes PROVE c.score \in 1 .. 92
  <2>1. CASE branch = "connectivity"
    BY <2>1, ConnectivityScores DEF Core
  <2>2. CASE branch = "endpoint-health"
    BY <2>2, HealthScores DEF Core
  <2>3. CASE branch = "auth-policy"
    BY <2>3, AuthScores DEF Core
  <2>4. CASE branch = "log-intelligence"
    BY <2>4, LogCauseScores DEF Core
  <2>5. QED
    BY <2>1, <2>2, <2>3, <2>4 DEF Core
<1>3. due \subseteq Checks(Endpoint) /\ good \subseteq up /\ untrusted \subseteq WebChecks(Endpoint)
  <2>1. CASE branch = "connectivity"
    <3>1. ConnectivityInv
      BY <2>1 DEF Core
    <3>2. due \subseteq Checks(Endpoint)
      BY <3>1, DueIsAsked DEF ConnectivityInv
    <3>3. QED
      BY <3>1, <3>2 DEF ConnectivityInv, Succeeds
  <2>2. CASE branch # "connectivity"
    BY <2>2 DEF Core, NoNetwork
  <2>3. QED
    BY <2>1, <2>2
<1>4. asked \subseteq Command
  BY DEF Core, EndpointHealthInv, NoAgent
<1>5. paths \subseteq PolicyPaths /\ auth.denied \subseteq PolicyPaths /\ Len(auth.devices) <= MaxDevices
  <2>1. CASE branch = "auth-policy"
    <3>1. AuthInv
      BY <2>1 DEF Core
    <3>2. /\ paths \subseteq PolicyPaths /\ auth.denied \subseteq PolicyPaths
          /\ auth.devices \in {<<>>, KeptDevices} /\ api \in Services
      BY <3>1 DEF AuthInv
    <3>3. Len(<<>>) = 0 /\ MaxDevices \in Nat
      BY AuthAssumption
    <3>4. Len(KeptDevices) <= MaxDevices
      BY <3>2, KeptShape
    <3>5. QED
      BY <3>2, <3>3, <3>4
  <2>2. CASE branch # "auth-policy"
    <3>1. auth.devices = <<>> /\ auth.denied = {} /\ paths = {}
      <4>1. auth = Unasked /\ paths = {}
        BY <2>2 DEF Core, NoService
      <4>2. Unasked.devices = <<>> /\ Unasked.denied = {}
        BY DEF Unasked
      <4>3. QED
        BY <4>1, <4>2
    <3>2. Len(<<>>) = 0 /\ MaxDevices \in Nat
      BY AuthAssumption
    <3>3. QED
      BY <3>1, <3>2
  <2>3. QED
    BY <2>1, <2>2
<1>6. /\ Len(files) <= MaxFiles /\ Len(top) <= TopSignatures
      /\ \A i \in DOMAIN counts : counts[i] \in Signature \X (Nat \ {0})
  <2>0. Len(<<>>) = 0 /\ MaxFiles \in Nat /\ TopSignatures \in Nat
    BY LogAssumption
  <2>1. CASE branch = "log-intelligence"
    <3>1. LogInv
      BY <2>1 DEF Core
    <3>2. counts \in Seq(Block) /\ Len(files) <= MaxFiles /\ top \in {<<>>, Ranked(counts)}
      BY <3>1 DEF LogInv, Tallied
    <3>3. \A i \in DOMAIN counts : counts[i] \in Block
      BY <3>2
    <3>4. Len(Ranked(counts)) <= TopSignatures
      BY <3>2, RankedFirst
    <3>5. Len(top) <= TopSignatures
      BY <2>0, <3>2, <3>4
    <3>6. QED
      BY <3>2, <3>3, <3>5 DEF Block
  <2>2. CASE branch # "log-intelligence"
    <3>1. files = <<>> /\ top = <<>> /\ counts = <<>>
      BY <2>2 DEF Core, NoLogs
    <3>2. DOMAIN <<>> = {}
      OBVIOUS
    <3>3. QED
      BY <2>0, <3>1, <3>2
  <2>3. QED
    BY <2>1, <2>2
<1>7. QED
  BY <1>1, <1>2, <1>3, <1>4, <1>5, <1>6 DEF TypeOK, FoundType

\* So Core says what EvidenceInv says.
LEMMA CoreIs ==
  Core <=> EvidenceInv
<1>1. Core => EvidenceInv
  BY CoreTyped DEF Core, EvidenceInv
<1>2. EvidenceInv => Core
  BY DEF Core, EvidenceInv, TypeOK, FoundType
<1>3. QED
  BY <1>1, <1>2

\* Each probe starts in its invariant, the others untouched.
LEMMA CoreStarts ==
  ASSUME Init
  PROVE  Core
<1>a. \A b : ContextInit(b) => ContextInv /\ branch = b
  BY DEF ContextInit, ContextInv, Reported
<1>b. Nothing \in FoundType
  BY DEF Nothing, FoundType
<1>c. NoAgent => found \in FoundType
  BY <1>b DEF NoAgent
<1>1. CASE ContextInit("connectivity") /\ ConnectivityInit /\ NoAgent /\ NoService /\ NoLogs
  BY <1>1, <1>a, <1>c, ConnectivityStarts DEF Core
<1>2. CASE ContextInit("endpoint-health") /\ EndpointHealthInit /\ NoNetwork /\ NoService /\ NoLogs
  BY <1>2, <1>a, <1>b, HealthStarts DEF Core, EndpointHealthInit
<1>3. CASE ContextInit("auth-policy") /\ AuthPolicyInit /\ NoNetwork /\ NoAgent /\ NoLogs
  BY <1>3, <1>a, <1>c, AuthStarts DEF Core
<1>4. CASE ContextInit("log-intelligence") /\ LogEvidenceInit /\ NoNetwork /\ NoAgent /\ NoService
  BY <1>4, <1>a, <1>c, LogStarts DEF Core
<1>5. QED
  BY <1>1, <1>2, <1>3, <1>4 DEF Init

\* Probes that are not run keep their values.
LEMMA OthersStay ==
  /\ NoNetwork /\ UNCHANGED connVars => NoNetwork'
  /\ NoAgent /\ UNCHANGED healthVars => NoAgent'
  /\ NoService /\ UNCHANGED authVars => NoService'
  /\ NoLogs /\ UNCHANGED logVars => NoLogs'
BY DEF NoNetwork, NoAgent, NoService, NoLogs, connVars, healthVars, authVars, logVars, Nothing, Unasked

\* Every step keeps the invariant of its probe.
LEMMA CoreStep ==
  ASSUME Core, [Next]_vars
  PROVE  Core'
<1>a. ContextInv /\ found \in FoundType
  BY DEF Core
<1>b. Moves => ContextInv'
  BY <1>a DEF Moves, ContextInv, Reported
<1>c. UNCHANGED healthVars => found' \in FoundType
  BY <1>a DEF healthVars, FoundType
<1>1. ASSUME branch = "connectivity", ConnectivityNext, UNCHANGED <<healthVars, authVars, logVars>>
      PROVE  Core'
  <2>1. Moves /\ ConnectivityInv'
    BY <1>1, <1>a, ConnectivityMoves, ConnectivityStep DEF Core
  <2>2. branch' = branch /\ ContextInv'
    BY <1>b, <2>1 DEF Moves
  <2>3. NoAgent' /\ NoService' /\ NoLogs' /\ found' \in FoundType
    BY <1>1, <1>c, OthersStay DEF Core
  <2>4. QED
    BY <1>1, <2>1, <2>2, <2>3 DEF Core
<1>2. ASSUME branch = "endpoint-health", EndpointHealthNext, UNCHANGED <<connVars, authVars, logVars>>
      PROVE  Core'
  <2>1. Moves /\ EndpointHealthInv' /\ found' \in FoundType
    BY <1>2, <1>a, HealthMoves, HealthStep DEF Core
  <2>2. branch' = branch /\ ContextInv'
    BY <1>b, <2>1 DEF Moves
  <2>3. NoNetwork' /\ NoService' /\ NoLogs'
    BY <1>2, OthersStay DEF Core
  <2>4. QED
    BY <1>2, <2>1, <2>2, <2>3 DEF Core
<1>3. ASSUME branch = "auth-policy", AuthPolicyNext, UNCHANGED <<connVars, healthVars, logVars>>
      PROVE  Core'
  <2>1. Moves /\ AuthInv'
    BY <1>3, <1>a, AuthMoves, AuthStep DEF Core
  <2>2. branch' = branch /\ ContextInv'
    BY <1>b, <2>1 DEF Moves
  <2>3. NoNetwork' /\ NoAgent' /\ NoLogs' /\ found' \in FoundType
    BY <1>3, <1>c, OthersStay DEF Core
  <2>4. QED
    BY <1>3, <2>1, <2>2, <2>3 DEF Core
<1>4. ASSUME branch = "log-intelligence", LogEvidenceNext, UNCHANGED <<connVars, healthVars, authVars>>
      PROVE  Core'
  <2>1. Moves /\ LogInv'
    BY <1>4, <1>a, LogMoves, LogStep DEF Core
  <2>2. branch' = branch /\ ContextInv'
    BY <1>b, <2>1 DEF Moves
  <2>3. NoNetwork' /\ NoAgent' /\ NoService' /\ found' \in FoundType
    BY <1>4, <1>c, OthersStay DEF Core
  <2>4. QED
    BY <1>4, <2>1, <2>2, <2>3 DEF Core
<1>5. ASSUME UNCHANGED vars PROVE Core'
  <2>1. UNCHANGED <<probeVars, connVars, healthVars, authVars, logVars>>
    BY <1>5 DEF vars
  <2>2. ContextInv' /\ branch' = branch
    BY <1>a, <2>1 DEF ContextInv, Reported, probeVars
  <2>3. /\ ConnectivityInv => ConnectivityInv'
        /\ EndpointHealthInv => EndpointHealthInv'
        /\ AuthInv => AuthInv'
        /\ LogInv => LogInv'
    BY <2>1, ConnectivityStays, HealthStays, AuthStays, LogStays
  <2>4. /\ NoNetwork => NoNetwork'
        /\ NoAgent => NoAgent'
        /\ NoService => NoService'
        /\ NoLogs => NoLogs'
    BY <2>1, OthersStay
  <2>5. found' \in FoundType
    BY <1>c, <2>1
  <2>6. QED
    BY <2>2, <2>3, <2>4, <2>5 DEF Core
<1>6. QED
  BY <1>1, <1>2, <1>3, <1>4, <1>5 DEF Next

\* The probes keep what EvidenceInv says, types included, whatever a host is
\* like and whichever commands of runConnectivityProbe, runEndpointHealthProbe,
\* runAuthPolicyProbe and runLogProbe are lost.
THEOREM EvidenceInvariant == Spec => []EvidenceInv
<1>1. Init => EvidenceInv
  BY CoreStarts, CoreIs
<1>2. EvidenceInv /\ [Next]_vars => Core'
  BY CoreStep, CoreIs
<1>3. (Core <=> EvidenceInv)'
  BY CoreIs, PTL
<1>4. EvidenceInv /\ [Next]_vars => EvidenceInv'
  BY <1>2, <1>3
<1>5. QED
  BY <1>1, <1>4, PTL DEF Spec

\* What a root cause of specialistTools.ts claims is so on the host: what it
\* says was found, always; that something is missing or refused, as long as
\* every command has answered. For every profile, host, account and log.
THEOREM CausesHold == Spec => []CausesAreReal
<1>1. EvidenceInv => CausesAreReal
  <2> SUFFICES ASSUME Core, Reported
               PROVE  CASE branch = "connectivity" -> ~lost => ConnectivityCausesReal
                        [] branch = "endpoint-health" -> EndpointHealthCausesReal
                        [] branch = "auth-policy" -> AuthCausesReal
                        [] branch = "log-intelligence" -> ~lost => LogCausesReal
    BY CoreIs DEF CausesAreReal
  <2>1. CASE branch = "connectivity"
    BY <2>1, ConnectivityReal DEF Core
  <2>2. CASE branch = "endpoint-health"
    BY <2>2, HealthReal DEF Core
  <2>3. CASE branch = "auth-policy"
    BY <2>3, AuthReal DEF Core
  <2>4. CASE branch = "log-intelligence"
    BY <2>4, LogReal DEF Core
  <2>5. QED
    BY <2>1, <2>2, <2>3, <2>4 DEF Core
<1>2. QED
  BY <1>1, EvidenceInvariant, PTL

\* Required endpoints that do not work, unless a remote TLS failure hides them,
\* an agent that is missing or down, a refused token or path, a target that is
\* not online and a recurring fault of the log are named.
THEOREM FaultsFound == Spec => []FaultsAreNamed
<1>1. EvidenceInv => FaultsAreNamed
  <2> SUFFICES ASSUME Core, Reported
               PROVE  CASE branch = "connectivity" -> ConnectivityFaultsNamed
                        [] branch = "endpoint-health" -> EndpointHealthFaultsNamed
                        [] branch = "auth-policy" -> AuthFaultsNamed
                        [] branch = "log-intelligence" -> LogFaultsNamed
    BY CoreIs DEF FaultsAreNamed
  <2>1. CASE branch = "connectivity"
    BY <2>1, ConnectivityNamed DEF Core
  <2>2. CASE branch = "endpoint-health"
    BY <2>2, HealthNamed DEF Core, ContextInv
  <2>3. CASE branch = "auth-policy"
    BY <2>3, AuthNamed DEF Core
  <2>4. CASE branch = "log-intelligence"
    BY <2>4, LogNamed DEF Core
  <2>5. QED
    BY <2>1, <2>2, <2>3, <2>4 DEF Core
<1>2. QED
  BY <1>1, EvidenceInvariant, PTL

\* rankSignatures puts first what weighs most among all the lines of all the
\* texts, for every log and every number of files.
THEOREM HeaviestBlamed == Spec => []BlamesTheHeaviest
<1>1. EvidenceInv => BlamesTheHeaviest
  <2> SUFFICES ASSUME Core, branch = "log-intelligence", NEW c \in causes, NEW s \in c.about
               PROVE  /\ CategoryOf(s) # "benign"
                      /\ \A t \in Signature : LinesOf(s) * WeightOf(s) >= LinesOf(t) * WeightOf(t)
    BY CoreIs DEF BlamesTheHeaviest
  <2>1. LogInv /\ Reported
    BY DEF Core, ContextInv
  <2>2. QED
    BY <2>1, LogHeaviest
<1>2. QED
  BY <1>1, EvidenceInvariant, PTL

\* Drops through standby are named and lead over the noise of reconnecting,
\* whatever its volume and whatever the logarithms of the scores are.
THEOREM StandbyIsNamed == Spec => []StandbyLeads
<1>1. EvidenceInv => StandbyLeads
  <2> SUFFICES ASSUME Core, Reported, branch = "log-intelligence", source # "none", standbyExplainsDrops
               PROVE  \E c \in causes : /\ c.kind = "standby"
                                        /\ \A d \in causes \ {c} : \A s \in d.about :
                                              "reconnect" \in Matches[s] => d.score < c.score
    BY CoreIs DEF StandbyLeads
  <2>1. LogInv
    BY DEF Core
  <2>2. QED
    BY <2>1, LogStandby
<1>2. QED
  BY <1>1, EvidenceInvariant, PTL
=============================================================================

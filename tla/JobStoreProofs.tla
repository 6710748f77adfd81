--------------------------- MODULE JobStoreProofs ---------------------------
(***************************************************************************)
(* Theorems about JobStore, for any calls, jobs and retention limit, with  *)
(* or without the Prompt assumption and whoever may time out.              *)
(***************************************************************************)
EXTENDS JobStore, SequenceTheorems, TLAPS

\* unshift puts the record first and moves the others up by one.
LEMMA UnshiftShape ==
  ASSUME NEW S, NEW js \in Seq(S), NEW r \in S
  PROVE  /\ Unshift(js, r) \in Seq(S)
         /\ Len(Unshift(js, r)) = Len(js) + 1
         /\ Unshift(js, r)[1] = r
         /\ \A i \in 1..Len(js) : Unshift(js, r)[i + 1] = js[i]
<1>1. <<r>> \in Seq(S) /\ Len(<<r>>) = 1
  OBVIOUS
<1>2. /\ <<r>> \o js \in Seq(S)
      /\ Len(<<r>> \o js) = 1 + Len(js)
      /\ \A i \in 1 .. 1 + Len(js) :
           (<<r>> \o js)[i] = IF i <= 1 THEN <<r>>[i] ELSE js[i - 1]
  BY <1>1, ConcatProperties
<1>3. QED
  BY <1>2, LenProperties DEF Unshift

\* slice(0, MAX) keeps a prefix, and the list is full if anything was dropped.
LEMMA KeptShape ==
  ASSUME NEW S, NEW js \in Seq(S)
  PROVE  /\ Kept(js) \in Seq(S)
         /\ Len(Kept(js)) \in 0..Len(js)
         /\ Len(Kept(js)) <= MaxRetained
         /\ \A i \in 1..Len(Kept(js)) : Kept(js)[i] = js[i]
         /\ Len(js) > MaxRetained => Len(Kept(js)) = MaxRetained
         /\ Len(js) <= MaxRetained => Kept(js) = js
<1>1. Len(js) \in Nat /\ MaxRetained \in Nat \ {0}
  BY LenProperties, RetainedAssumption
<1>2. CASE Len(js) <= MaxRetained
  BY <1>1, <1>2 DEF Kept
<1>3. CASE Len(js) > MaxRetained
  <2>1. \A i \in 1..MaxRetained : js[i] \in S
    BY <1>1, <1>3, ElementOfSeq
  <2>2. /\ SubSeq(js, 1, MaxRetained) \in Seq(S)
        /\ Len(SubSeq(js, 1, MaxRetained)) = MaxRetained
        /\ \A i \in 1..MaxRetained : SubSeq(js, 1, MaxRetained)[i] = js[i]
    <3>1. /\ SubSeq(js, 1, MaxRetained) \in Seq(S)
          /\ Len(SubSeq(js, 1, MaxRetained))
               = IF 1 <= MaxRetained THEN MaxRetained - 1 + 1 ELSE 0
          /\ \A i \in 1 .. MaxRetained - 1 + 1 :
               SubSeq(js, 1, MaxRetained)[i] = js[1 + i - 1]
      BY <1>1, <2>1, SubSeqProperties
    <3>2. QED
      BY <1>1, <3>1
  <2>3. QED
    BY <1>1, <1>3, <2>2 DEF Kept
<1>4. QED
  BY <1>1, <1>2, <1>3

\* findIndex finds the job when it is listed.
LEMMA IndexOfListed ==
  ASSUME NEW js, NEW j, Has(js, j)
  PROVE  IndexOf(js, j) \in DOMAIN js /\ js[IndexOf(js, j)].id = j
BY DEF Has, IndexOf

\* Slicing keeps the ids unique.
LEMMA KeptUnique ==
  ASSUME NEW S, NEW js \in Seq(S), UniqueIds(js)
  PROVE  UniqueIds(Kept(js))
<1>1. /\ DOMAIN js = 1..Len(js)
      /\ DOMAIN Kept(js) = 1..Len(Kept(js))
      /\ Len(js) \in Nat
      /\ Len(Kept(js)) \in 0..Len(js)
      /\ \A i \in 1..Len(Kept(js)) : Kept(js)[i] = js[i]
  BY KeptShape, LenProperties
<1>2. QED
  BY <1>1 DEF UniqueIds

\* An id that slice(MAX) evicts is not among those slice(0, MAX) keeps.
LEMMA EvictedNotKept ==
  ASSUME NEW S, NEW js \in Seq(S), UniqueIds(js), NEW j \in Evicted(js)
  PROVE  ~Has(Kept(js), j)
<1>1. /\ DOMAIN js = 1..Len(js) /\ Len(js) \in Nat
      /\ DOMAIN Kept(js) = 1..Len(Kept(js)) /\ Len(Kept(js)) \in 0..Len(js)
      /\ Len(Kept(js)) <= MaxRetained
      /\ \A i \in 1..Len(Kept(js)) : Kept(js)[i] = js[i]
      /\ MaxRetained \in Nat
  BY KeptShape, LenProperties, RetainedAssumption
<1>2. PICK i \in (MaxRetained + 1)..Len(js) : js[i].id = j
  BY DEF Evicted
<1>3. ASSUME NEW k \in 1..Len(Kept(js)), Kept(js)[k].id = j PROVE FALSE
  <2>1. k \in 1..Len(js) /\ js[k].id = js[i].id /\ i \in 1..Len(js)
    BY <1>1, <1>2, <1>3
  <2>2. k = i
    BY <1>1, <2>1 DEF UniqueIds
  <2>3. QED
    BY <1>1, <1>2, <2>2
<1>4. QED
  BY <1>1, <1>3 DEF Has
-----------------------------------------------------------------------------
\* What a call makes of a list of records is a list of records.
LEMMA AppliedShape ==
  ASSUME NEW js \in Seq(Rec), NEW c \in Call, ~Refused(js, c)
  PROVE  /\ Applied(js, c) \in Seq(Rec)
         /\ c \in AddCall => Applied(js, c) = Unshift(js, [id |-> JobOf[c], by |-> {c}])
         /\ c \notin AddCall =>
              /\ Len(Applied(js, c)) = Len(js)
              /\ \A i \in 1..Len(js) :
                   /\ Applied(js, c)[i].id = js[i].id
                   /\ Applied(js, c)[i].by =
                        IF i = IndexOf(js, JobOf[c]) THEN js[i].by \cup {c} ELSE js[i].by
<1>1. JobOf[c] \in Job
  BY CallAssumption
<1>2. CASE c \in AddCall
  <2>1. [id |-> JobOf[c], by |-> {c}] \in Rec
    BY <1>1 DEF Rec
  <2>2. QED
    BY <1>2, <2>1, UnshiftShape DEF Applied
<1>3. CASE c \notin AddCall
  <2> DEFINE k == IndexOf(js, JobOf[c])
             r == [js[k] EXCEPT !.by = @ \cup {c}]
  <2>1. k \in 1..Len(js)
    BY <1>3, IndexOfListed, LenProperties DEF Refused
  <2>2. js[k] \in Rec
    BY <2>1, ElementOfSeq
  <2>3. /\ r \in Rec
        /\ r.id = js[k].id
        /\ r.by = js[k].by \cup {c}
    BY <2>2 DEF Rec
  <2>4. Applied(js, c) = [js EXCEPT ![k] = r]
    BY <1>3 DEF Applied
  <2> HIDE DEF k, r
  <2>5. /\ [js EXCEPT ![k] = r] \in Seq(Rec)
        /\ Len([js EXCEPT ![k] = r]) = Len(js)
        /\ \A i \in 1 .. Len(js) : [js EXCEPT ![k] = r][i] = IF i = k THEN r ELSE js[i]
    BY <2>1, <2>3, ExceptSeq
  <2>6. \A i \in 1..Len(js) :
          /\ Applied(js, c)[i].id = js[i].id
          /\ Applied(js, c)[i].by = IF i = k THEN js[i].by \cup {c} ELSE js[i].by
    BY <2>3, <2>4, <2>5
  <2>7. QED
    BY <1>3, <2>4, <2>5, <2>6 DEF k
<1>4. QED
  BY <1>2, <1>3
\* Every variable keeps its type: in particular, what is written to a file and
\* what is read back is always a list of job records.
THEOREM TypeCorrect == Spec => []TypeOK
<1> USE StoreAssumption, CallAssumption
<1>1. Init => TypeOK
  <2>1. Empty \in Content /\ << >> \in Seq(Rec)
    BY EmptySeq DEF Empty, Content
  <2> DEFINE nil == << >>
  <2>2. Init => jobs = [c \in Call |-> nil]
    BY DEF Init
  <2>3. nil \in Seq(Rec)
    BY <2>1
  <2> HIDE DEF nil
  <2>4. Init => jobs \in [Call -> Seq(Rec)]
    BY <2>2, <2>3
  <2>5. Init => content \in [Call -> Content]
    BY <2>1 DEF Init
  <2>6. QED
    BY <2>4, <2>5 DEF Init, TypeOK, InFlight
<1>2. TypeOK /\ [Next]_vars => TypeOK'
  <2> SUFFICES ASSUME TypeOK, [Next]_vars PROVE TypeOK'
    OBVIOUS
  <2>l. LoadJobs \in Seq(Rec)
    BY EmptySeq DEF LoadJobs, TypeOK, Content
  <2> USE DEF TypeOK, InFlight, Critical, Goto
  <2>1. ASSUME NEW c \in Call, Begin(c) PROVE TypeOK'
    BY <2>1 DEF Begin
  <2>2. ASSUME NEW c \in Call, TakeLock(c) PROVE TypeOK'
    BY <2>2 DEF TakeLock
  <2>3. ASSUME NEW c \in Call, DeadlinePasses(c) PROVE TypeOK'
    BY <2>3 DEF DeadlinePasses
  <2>4. ASSUME NEW c \in Call, ReclaimRmdir(c) PROVE TypeOK'
    BY <2>4 DEF ReclaimRmdir
  <2>5. ASSUME NEW c \in Call, ReclaimMkdir(c) PROVE TypeOK'
    BY <2>5 DEF ReclaimMkdir
  <2>6. ASSUME NEW c \in Call, Load(c) PROVE TypeOK'
    <3>1. Applied(LoadJobs, c) \in Seq(Rec)
      BY <2>l, <2>6, AppliedShape DEF Load
    <3>2. QED
      BY <2>6, <3>1 DEF Load
  <2>7. ASSUME NEW c \in Call, NotFound(c) PROVE TypeOK'
    BY <2>7 DEF NotFound
  <2>8. ASSUME NEW c \in Call, OpenTmp(c) PROVE TypeOK'
    <3>1. Empty \in Content
      BY EmptySeq DEF Empty, Content
    <3>2. QED
      BY <2>8, <3>1 DEF OpenTmp
  <2>9. ASSUME NEW c \in Call, WriteTmp(c) PROVE TypeOK'
    <3>1. Json(Kept(jobs[c])) \in Content /\ Garbled \in Content
      BY KeptShape, EmptySeq DEF Json, Garbled, Content
    <3>2. PICK new \in {Json(Kept(jobs[c])), Garbled} :
            content' = [content EXCEPT ![fd[c]] = new]
      BY <2>9 DEF WriteTmp
    <3>3. QED
      BY <2>9, <3>1, <3>2, ZenonT(40) DEF WriteTmp
  <2>10. ASSUME NEW c \in Call, RenameTmp(c) PROVE TypeOK'
    BY <2>10 DEF RenameTmp
  <2>11. ASSUME NEW c \in Call, RenameFails(c) PROVE TypeOK'
    BY <2>11 DEF RenameFails
  <2>12. ASSUME NEW c \in Call, UnlinkLogs(c) PROVE TypeOK'
    BY <2>12 DEF UnlinkLogs
  <2>13. ASSUME NEW c \in Call, Release(c) PROVE TypeOK'
    BY <2>13, EmptySeq DEF Release
  <2>14. ASSUME NEW c \in Call, OpenLog(c) PROVE TypeOK'
    BY <2>14 DEF OpenLog
  <2>15. ASSUME NEW c \in Call, Crash(c) PROVE TypeOK'
    BY <2>15 DEF Crash
  <2>16. CASE EnsureDataDir
    BY <2>16 DEF EnsureDataDir
  <2>17. CASE UNCHANGED vars
    BY <2>17 DEF vars
  <2>18. QED
    BY <2>1, <2>2, <2>3, <2>4, <2>5, <2>6, <2>7, <2>8, <2>9, <2>10, <2>11,
       <2>12, <2>13, <2>14, <2>15, <2>16, <2>17 DEF Next, Step
<1>3. QED
  BY <1>1, <1>2, PTL DEF Spec
-----------------------------------------------------------------------------
\* What a reader would load changes only with jobs.json.
LEMMA SameFileSameJobs ==
  ASSUME file' = file, file # NoCall => content'[file] = content[file]
  PROVE  LoadJobs' = LoadJobs
BY DEF LoadJobs

\* A call that has not finished is about a job nobody has listed, if it adds it.
LEMMA AddedJobIsNew ==
  ASSUME NEW c \in AddCall, OriginInv, outcome[c] = "none"
  PROVE  ~Has(LoadJobs, JobOf[c])
BY CallAssumption DEF OriginInv, Has

\* Neither merging a patch nor inserting a new job duplicates an id, and
\* slicing does not either.
LEMMA AppliedUnique ==
  ASSUME NEW js \in Seq(Rec), NEW c \in Call, ~Refused(js, c), UniqueIds(js),
         c \in AddCall => ~Has(js, JobOf[c])
  PROVE  UniqueIds(Applied(js, c))
<1>1. Len(js) \in Nat /\ DOMAIN js = 1..Len(js)
  BY LenProperties
<1>2. Applied(js, c) \in Seq(Rec) /\ DOMAIN Applied(js, c) = 1..Len(Applied(js, c))
  BY AppliedShape, LenProperties
<1>3. CASE c \in AddCall
  <2> DEFINE r == [id |-> JobOf[c], by |-> {c}]
             new == Unshift(js, r)
  <2>1. r \in Rec /\ r.id = JobOf[c]
    BY CallAssumption DEF Rec
  <2> HIDE DEF r
  <2>2. /\ Len(new) = Len(js) + 1
        /\ new[1] = r
        /\ \A i \in 1..Len(js) : new[i + 1] = js[i]
    BY <2>1, UnshiftShape
  <2>3. \A i \in 1..Len(js) : js[i].id # JobOf[c]
    BY <1>1, <1>3 DEF Has
  <2>4. ASSUME NEW i \in 2..Len(new) PROVE i - 1 \in 1..Len(js) /\ new[i] = js[i - 1]
    <3>1. i - 1 \in 1..Len(js) /\ (i - 1) + 1 = i
      BY <1>1, <2>2
    <3>2. QED
      BY <2>2, <3>1
  <2>5. Applied(js, c) = new
    BY <1>3, AppliedShape DEF r
  <2> HIDE DEF new
  <2>6. ASSUME NEW i \in 1..Len(new), NEW k \in 1..Len(new), new[i].id = new[k].id
        PROVE  i = k
    <3>1. CASE i = 1 /\ k = 1
      BY <3>1
    <3>2. CASE i # 1 /\ k # 1
      <4>1. i \in 2..Len(new) /\ k \in 2..Len(new)
        BY <1>1, <2>2, <3>2
      <4>2. i - 1 = k - 1
        BY <1>1, <2>4, <2>6, <4>1 DEF UniqueIds
      <4>3. QED
        BY <4>2
    <3>3. CASE i = 1 /\ k # 1
      <4>1. k \in 2..Len(new)
        BY <1>1, <2>2, <3>3
      <4>2. QED
        BY <2>1, <2>2, <2>3, <2>4, <2>6, <3>3, <4>1
    <3>4. CASE i # 1 /\ k = 1
      <4>1. i \in 2..Len(new)
        BY <1>1, <2>2, <3>4
      <4>2. QED
        BY <2>1, <2>2, <2>3, <2>4, <2>6, <3>4, <4>1
    <3>5. QED
      BY <3>1, <3>2, <3>3, <3>4
  <2>7. QED
    BY <1>2, <2>5, <2>6 DEF UniqueIds
<1>4. CASE c \notin AddCall
  <2>1. /\ Len(Applied(js, c)) = Len(js)
        /\ \A i \in 1..Len(js) : Applied(js, c)[i].id = js[i].id
    BY <1>4, AppliedShape
  <2>2. QED
    BY <1>1, <1>2, <2>1 DEF UniqueIds
<1>5. QED
  BY <1>3, <1>4

\* What one committed call does to the list: its own mark is in it, every other
\* record only gains marks, and a record is dropped only from a full list.
LEMMA CommitKeeps ==
  ASSUME NEW js \in Seq(Rec), NEW c \in Call, ~Refused(js, c), UniqueIds(js),
         c \in AddCall => ~Has(js, JobOf[c]),
         NEW new, new = Kept(Applied(js, c))
  PROVE  /\ \A i \in DOMAIN new : new[i].id = JobOf[c] => c \in new[i].by
         /\ c \in AddCall => Has(new, JobOf[c])
         /\ \A i \in DOMAIN new :
              \/ c \in AddCall /\ new[i].id = JobOf[c]
              \/ \E k \in DOMAIN js : js[k].id = new[i].id /\ js[k].by \subseteq new[i].by
         /\ \A k \in DOMAIN js : Has(new, js[k].id) \/ Len(new) = MaxRetained
         /\ Len(js) = MaxRetained => Len(new) = MaxRetained
<1> DEFINE app == Applied(js, c)
<1>1. /\ app \in Seq(Rec)
      /\ DOMAIN app = 1..Len(app)
      /\ Len(app) \in Nat
      /\ DOMAIN js = 1..Len(js)
      /\ Len(js) \in Nat
  BY AppliedShape, LenProperties
<1>2. /\ Len(new) \in 0..Len(app)
      /\ DOMAIN new = 1..Len(new)
      /\ \A i \in 1..Len(new) : new[i] = app[i]
      /\ Len(app) > MaxRetained => Len(new) = MaxRetained
      /\ Len(app) <= MaxRetained => new = app
  <2>1. Kept(app) \in Seq(Rec)
    BY <1>1, KeptShape
  <2>2. QED
    BY <1>1, <2>1, KeptShape, LenProperties
<1>3. MaxRetained \in Nat \ {0}
  BY RetainedAssumption
<1> HIDE DEF app
<1>n. /\ Len(app) \in Nat /\ Len(js) \in Nat
      /\ Len(app) > MaxRetained => Len(new) = MaxRetained
      /\ Len(app) <= MaxRetained => Len(new) = Len(app)
  BY <1>1, <1>2
<1>4. CASE c \in AddCall
  <2> DEFINE r == [id |-> JobOf[c], by |-> {c}]
  <2>1. r \in Rec /\ r.id = JobOf[c] /\ r.by = {c}
    BY CallAssumption DEF Rec
  <2>2. app = Unshift(js, r)
    BY <1>4, AppliedShape DEF app
  <2> HIDE DEF r
  <2>3. /\ Len(app) = Len(js) + 1
        /\ app[1] = r
        /\ \A i \in 1..Len(js) : app[i + 1] = js[i]
    <3>1. /\ Len(Unshift(js, r)) = Len(js) + 1
          /\ Unshift(js, r)[1] = r
          /\ \A i \in 1..Len(js) : Unshift(js, r)[i + 1] = js[i]
      BY <2>1, UnshiftShape
    <3>2. QED
      BY <2>2, <3>1
  <2>4. 1 \in 1..Len(new) /\ new[1] = r
    <3>1. 1 \in 1..Len(new)
      BY <1>n, <1>3, <2>3
    <3>2. QED
      BY <1>2, <2>3, <3>1, Zenon
  <2>5. Has(new, JobOf[c])
    BY <1>2, <2>1, <2>4 DEF Has
  <2>6. ASSUME NEW i \in DOMAIN new, i # 1
        PROVE  i - 1 \in DOMAIN js /\ new[i] = js[i - 1]
    <3>1. i - 1 \in 1..Len(js) /\ (i - 1) + 1 = i
      BY <1>1, <1>2, <2>3, <2>6
    <3>2. app[(i - 1) + 1] = js[i - 1]
      BY <2>3, <3>1
    <3>3. QED
      BY <1>1, <1>2, <3>1, <3>2
  <2>7. \A i \in DOMAIN js : js[i].id # JobOf[c]
    BY <1>4 DEF Has
  <2>8. ASSUME NEW k \in DOMAIN js PROVE Has(new, js[k].id) \/ Len(new) = MaxRetained
    <3>1. CASE Len(app) <= MaxRetained
      <4>1. k + 1 \in DOMAIN new /\ new[k + 1] = js[k]
        BY <1>1, <1>2, <2>3, <3>1
      <4>2. QED
        BY <4>1 DEF Has
    <3>2. CASE Len(app) > MaxRetained
      BY <1>2, <3>2
    <3>3. QED
      BY <1>n, <1>3, <3>1, <3>2
  <2>9. Len(js) = MaxRetained => Len(new) = MaxRetained
    BY <1>n, <1>3, <2>3
  <2>10. QED
    BY <1>4, <2>1, <2>4, <2>5, <2>6, <2>7, <2>8, <2>9
<1>5. CASE c \notin AddCall
  <2>1. /\ Len(app) = Len(js)
        /\ \A i \in 1..Len(js) :
             /\ app[i].id = js[i].id
             /\ app[i].by = IF i = IndexOf(js, JobOf[c]) THEN js[i].by \cup {c} ELSE js[i].by
    BY <1>5, AppliedShape DEF app
  <2>2. /\ IndexOf(js, JobOf[c]) \in DOMAIN js
        /\ js[IndexOf(js, JobOf[c])].id = JobOf[c]
    BY <1>5, IndexOfListed DEF Refused
  <2>3. ASSUME NEW i \in DOMAIN new, new[i].id = JobOf[c] PROVE c \in new[i].by
    <3>1. i \in 1..Len(js) /\ new[i] = app[i]
      BY <1>1, <1>2, <2>1
    <3>2. js[i].id = JobOf[c]
      BY <2>1, <2>3, <3>1
    <3>3. i = IndexOf(js, JobOf[c])
      BY <1>1, <2>2, <3>1, <3>2 DEF UniqueIds
    <3>4. QED
      BY <2>1, <3>1, <3>3
  <2>4. ASSUME NEW i \in DOMAIN new
        PROVE  i \in DOMAIN js /\ js[i].id = new[i].id /\ js[i].by \subseteq new[i].by
    <3>1. i \in 1..Len(js) /\ new[i] = app[i]
      BY <1>1, <1>2, <2>1
    <3>2. QED
      BY <1>1, <2>1, <3>1
  <2>5. ASSUME NEW k \in DOMAIN js PROVE Has(new, js[k].id) \/ Len(new) = MaxRetained
    <3>1. CASE Len(app) <= MaxRetained
      <4>1. k \in DOMAIN new /\ new[k].id = js[k].id
        BY <1>1, <1>2, <2>1, <3>1
      <4>2. QED
        BY <4>1 DEF Has
    <3>2. CASE Len(app) > MaxRetained
      BY <1>2, <3>2
    <3>3. QED
      BY <1>n, <1>3, <3>1, <3>2
  <2>6. Len(js) = MaxRetained => Len(new) = MaxRetained
    BY <1>n, <1>3, <2>1
  <2>7. QED
    BY <1>5, <2>3, <2>4, <2>5, <2>6
<1>6. QED
  BY <1>4, <1>5
-----------------------------------------------------------------------------
\* As long as the list and the set of successful calls stay, so do the
\* invariants that relate them.
LEMMA SameAcknowledged ==
  ASSUME OriginInv, Durable, LoadJobs' = LoadJobs,
         \A d \in Call : outcome'[d] = "ok" <=> outcome[d] = "ok"
  PROVE  OriginInv' /\ Durable'
<1>1. \A d \in AddCall : outcome'[d] = "ok" <=> outcome[d] = "ok"
  BY CallAssumption
<1>2. UniqueIds(LoadJobs)'
  BY DEF OriginInv, UniqueIds
<1>3. OriginInv'
  BY <1>1, <1>2 DEF OriginInv
<1>4. Durable'
  BY DEF Durable, Has
<1>5. QED
  BY <1>3, <1>4

\* The step that matters: jobs.json is replaced by what the one call inside made
\* of it.
LEMMA CommitAcknowledged ==
  ASSUME TypeOK, OriginInv, Durable, NEW c \in Call, outcome[c] = "none",
         ~Refused(LoadJobs, c), LoadJobs' = Kept(Applied(LoadJobs, c)),
         outcome' = [outcome EXCEPT ![c] = "ok"]
  PROVE  OriginInv' /\ Durable'
<1> DEFINE js == LoadJobs
           new == Kept(Applied(js, c))
<1>0. js \in Seq(Rec)
  BY EmptySeq DEF LoadJobs, TypeOK, Content
<1>1. c \in AddCall => ~Has(js, JobOf[c])
  BY AddedJobIsNew
<1>2. UniqueIds(js)
  BY DEF OriginInv
<1>3. UniqueIds(new)
  <2>1. Applied(js, c) \in Seq(Rec) /\ UniqueIds(Applied(js, c))
    BY <1>0, <1>1, <1>2, AppliedShape, AppliedUnique
  <2>2. QED
    BY <2>1, KeptUnique
<1>4. /\ \A i \in DOMAIN new : new[i].id = JobOf[c] => c \in new[i].by
      /\ c \in AddCall => Has(new, JobOf[c])
      /\ \A i \in DOMAIN new :
           \/ c \in AddCall /\ new[i].id = JobOf[c]
           \/ \E k \in DOMAIN js : js[k].id = new[i].id /\ js[k].by \subseteq new[i].by
      /\ \A k \in DOMAIN js : Has(new, js[k].id) \/ Len(new) = MaxRetained
      /\ Len(js) = MaxRetained => Len(new) = MaxRetained
  BY <1>0, <1>1, <1>2, CommitKeeps
<1>5. /\ outcome'[c] = "ok"
      /\ \A d \in Call : d # c => outcome'[d] = outcome[d]
      /\ AddCall \subseteq Call
  BY CallAssumption DEF TypeOK
<1>6. LoadJobs' = new
  OBVIOUS
<1> HIDE DEF new, js
<1>7. ASSUME NEW j, \E a \in AddCall : JobOf[a] = j /\ outcome[a] = "ok"
      PROVE  \E a \in AddCall : JobOf[a] = j /\ outcome'[a] = "ok"
  BY <1>5, <1>7
<1>8. OriginInv'
  <2>1. ASSUME NEW i \in DOMAIN new
        PROVE  \E a \in AddCall : JobOf[a] = new[i].id /\ outcome'[a] = "ok"
    <3>1. CASE c \in AddCall /\ new[i].id = JobOf[c]
      BY <1>5, <3>1
    <3>2. CASE \E k \in DOMAIN js : js[k].id = new[i].id
      BY <1>7, <3>2 DEF OriginInv, js
    <3>3. QED
      BY <1>4, <3>1, <3>2
  <2>2. ASSUME NEW d \in Call, outcome'[d] = "ok"
        PROVE  \E a \in AddCall : JobOf[a] = JobOf[d] /\ outcome'[a] = "ok"
    <3>1. CASE d # c
      BY <1>5, <1>7, <2>2, <3>1 DEF OriginInv
    <3>2. CASE d = c /\ c \in AddCall
      BY <1>5, <3>2
    <3>3. CASE d = c /\ c \notin AddCall
      <4>1. Has(js, JobOf[c])
        BY <3>3 DEF Refused, js
      <4>2. QED
        BY <1>7, <3>3, <4>1 DEF Has, OriginInv, js
    <3>4. QED
      BY <3>1, <3>2, <3>3
  <2>3. UniqueIds(LoadJobs)'
    BY <1>3, <1>6 DEF UniqueIds
  <2>4. QED
    BY <1>6, <2>1, <2>2, <2>3 DEF OriginInv
<1>9. Durable'
  <2>1. ASSUME NEW d \in Call, outcome'[d] = "ok",
               NEW i \in DOMAIN new, new[i].id = JobOf[d]
        PROVE  d \in new[i].by
    <3>1. CASE d = c
      BY <1>4, <2>1, <3>1
    <3>2. CASE d # c /\ c \in AddCall /\ new[i].id = JobOf[c]
      <4>1. PICK a \in AddCall : JobOf[a] = JobOf[d] /\ outcome[a] = "ok"
        BY <1>5, <2>1, <3>2 DEF OriginInv
      <4>2. a = c
        BY <2>1, <3>2, <4>1, CallAssumption
      <4>3. QED
        BY <4>1, <4>2
    <3>3. CASE d # c /\ \E k \in DOMAIN js :
                 js[k].id = new[i].id /\ js[k].by \subseteq new[i].by
      BY <1>5, <2>1, <3>3 DEF Durable, js
    <3>4. QED
      BY <1>4, <3>1, <3>2, <3>3
  <2>2. ASSUME NEW d \in AddCall, outcome'[d] = "ok", ~Has(new, JobOf[d])
        PROVE  Len(new) = MaxRetained
    <3>1. d # c /\ outcome[d] = "ok" /\ d \in Call
      BY <1>4, <1>5, <2>2
    <3>2. CASE Has(js, JobOf[d])
      BY <1>4, <2>2, <3>2 DEF Has
    <3>3. CASE ~Has(js, JobOf[d])
      BY <1>4, <2>2, <3>1, <3>3 DEF Durable, js
    <3>4. QED
      BY <3>2, <3>3
  <2>3. \A d \in Call : outcome'[d] = "ok" =>
          /\ \A i \in DOMAIN new : new[i].id = JobOf[d] => d \in new[i].by
          /\ d \in AddCall /\ ~Has(new, JobOf[d]) => Len(new) = MaxRetained
    BY <2>1, <2>2
  <2>4. QED
    BY <1>6, <2>3 DEF Durable, Has
<1>10. QED
  BY <1>8, <1>9
-----------------------------------------------------------------------------
\* No step mends a broken lock, so what is assumed of the next state holds now.
LEMMA BreachStays ==
  ASSUME TypeOK, [Next]_vars, ~breached'
  PROVE  ~breached
BY DEF Next, Step, vars, Begin, TakeLock, DeadlinePasses, ReclaimRmdir, ReclaimMkdir,
       Load, NotFound, OpenTmp, WriteTmp, RenameTmp, RenameFails, UnlinkLogs,
       Release, OpenLog, Crash, EnsureDataDir

\* Every step keeps the inductive invariant.
LEMMA StoreInvStep ==
  ASSUME TypeOK, StoreInv, [Next]_vars
  PROVE  StoreInv'
<1> SUFFICES ASSUME ~breached'
             PROVE  /\ LockInv' /\ FreshInv' /\ HolderInv' /\ FileInv'
                    /\ OutcomeInv' /\ OriginInv' /\ Durable'
  BY DEF StoreInv
<1>0. /\ LockInv /\ FreshInv /\ HolderInv /\ FileInv
      /\ OutcomeInv /\ OriginInv /\ Durable
  BY BreachStays DEF StoreInv
<1> USE StoreAssumption, CallAssumption DEF Unopened
<1> DEFINE Preserved == /\ LockInv' /\ FreshInv' /\ HolderInv' /\ FileInv'
                    /\ OutcomeInv' /\ OriginInv' /\ Durable'
<1>1. ASSUME NEW c \in Call, Begin(c) PROVE Preserved
  <2>1. LoadJobs' = LoadJobs
    BY <1>1, SameFileSameJobs DEF Begin
  <2>2. OriginInv' /\ Durable'
    BY <1>0, <1>1, <2>1, SameAcknowledged DEF Begin, OutcomeInv, Goto, TypeOK
  <2>3. LockInv' /\ FreshInv' /\ FileInv' /\ OutcomeInv'
    BY <1>0, <1>1 DEF Begin, Goto, LockInv, FreshInv, FileInv, OutcomeInv, Intact, Critical, InFlight, TypeOK
  <2>4. HolderInv'
    BY <1>0, <1>1, <2>1 DEF Begin, Goto, HolderInv, LockInv, Critical, InFlight, TypeOK, Refused, Has, UniqueIds
  <2>5. QED
    BY <2>2, <2>3, <2>4
<1>2. ASSUME NEW c \in Call, TakeLock(c) PROVE Preserved
  <2>1. LoadJobs' = LoadJobs
    BY <1>2, SameFileSameJobs DEF TakeLock
  <2>2. OriginInv' /\ Durable'
    BY <1>0, <1>2, <2>1, SameAcknowledged DEF TakeLock, OutcomeInv, Goto, TypeOK
  <2>3. LockInv' /\ FreshInv' /\ FileInv' /\ OutcomeInv'
    BY <1>0, <1>2 DEF TakeLock, Goto, LockInv, FreshInv, FileInv, OutcomeInv, Intact, Critical, InFlight, TypeOK
  <2>4. HolderInv'
    BY <1>0, <1>2, <2>1 DEF TakeLock, Goto, HolderInv, LockInv, Critical, InFlight, TypeOK, Refused, Has, UniqueIds
  <2>5. QED
    BY <2>2, <2>3, <2>4
<1>3. ASSUME NEW c \in Call, Release(c) PROVE Preserved
  <2>1. LoadJobs' = LoadJobs
    BY <1>3, SameFileSameJobs DEF Release
  <2>2. OriginInv' /\ Durable'
    BY <1>0, <1>3, <2>1, SameAcknowledged DEF Release, OutcomeInv, Goto, TypeOK
  <2>3. LockInv' /\ FreshInv' /\ FileInv' /\ OutcomeInv'
    BY <1>0, <1>3 DEF Release, Goto, LockInv, FreshInv, FileInv, OutcomeInv, Intact, Critical, InFlight, TypeOK
  <2>4. HolderInv'
    BY <1>0, <1>3, <2>1 DEF Release, Goto, HolderInv, LockInv, Critical, InFlight, TypeOK, Refused, Has, UniqueIds
  <2>5. QED
    BY <2>2, <2>3, <2>4
<1>4. ASSUME NEW c \in Call, NotFound(c) PROVE Preserved
  <2>1. LoadJobs' = LoadJobs
    BY <1>4, SameFileSameJobs DEF NotFound
  <2>2. OriginInv' /\ Durable'
    BY <1>0, <1>4, <2>1, SameAcknowledged DEF NotFound, OutcomeInv, Goto, TypeOK
  <2>3. LockInv' /\ FreshInv' /\ FileInv' /\ OutcomeInv'
    BY <1>0, <1>4 DEF NotFound, Goto, LockInv, FreshInv, FileInv, OutcomeInv, Intact, Critical, InFlight, TypeOK
  <2>4. HolderInv'
    BY <1>0, <1>4, <2>1 DEF NotFound, Goto, HolderInv, LockInv, Critical, InFlight, TypeOK, Refused, Has, UniqueIds
  <2>5. QED
    BY <2>2, <2>3, <2>4
<1>5. ASSUME NEW c \in Call, OpenLog(c) PROVE Preserved
  <2>1. LoadJobs' = LoadJobs
    BY <1>5, SameFileSameJobs DEF OpenLog
  <2>2. OriginInv' /\ Durable'
    BY <1>0, <1>5, <2>1, SameAcknowledged DEF OpenLog, OutcomeInv, Goto, TypeOK
  <2>3. LockInv' /\ FreshInv' /\ FileInv' /\ OutcomeInv'
    BY <1>0, <1>5 DEF OpenLog, Goto, LockInv, FreshInv, FileInv, OutcomeInv, Intact, Critical, InFlight, TypeOK
  <2>4. HolderInv'
    BY <1>0, <1>5, <2>1 DEF OpenLog, Goto, HolderInv, LockInv, Critical, InFlight, TypeOK, Refused, Has, UniqueIds
  <2>5. QED
    BY <2>2, <2>3, <2>4
<1>6. ASSUME NEW c \in Call, Crash(c) PROVE Preserved
  <2>1. LoadJobs' = LoadJobs
    BY <1>6, SameFileSameJobs DEF Crash
  <2>2. OriginInv' /\ Durable'
    BY <1>0, <1>6, <2>1, SameAcknowledged DEF Crash, OutcomeInv, Goto, TypeOK
  <2>3. LockInv' /\ FreshInv' /\ FileInv' /\ OutcomeInv'
    BY <1>0, <1>6 DEF Crash, Goto, LockInv, FreshInv, FileInv, OutcomeInv, Intact, Critical, InFlight, TypeOK
  <2>4. HolderInv'
    BY <1>0, <1>6, <2>1 DEF Crash, Goto, HolderInv, LockInv, Critical, InFlight, TypeOK, Refused, Has, UniqueIds
  <2>5. QED
    BY <2>2, <2>3, <2>4
<1>7. ASSUME NEW c \in Call, UnlinkLogs(c) PROVE Preserved
  <2>1. LoadJobs' = LoadJobs
    BY <1>7, SameFileSameJobs DEF UnlinkLogs
  <2>2. OriginInv' /\ Durable'
    BY <1>0, <1>7, <2>1, SameAcknowledged DEF UnlinkLogs, OutcomeInv, Goto, TypeOK
  <2>3. LockInv' /\ FreshInv' /\ FileInv' /\ OutcomeInv'
    BY <1>0, <1>7 DEF UnlinkLogs, Goto, LockInv, FreshInv, FileInv, OutcomeInv, Intact, Critical, InFlight, TypeOK
  <2>4. HolderInv'
    BY <1>0, <1>7, <2>1 DEF UnlinkLogs, Goto, HolderInv, LockInv, Critical, InFlight, TypeOK, Refused, Has, UniqueIds
  <2>5. QED
    BY <2>2, <2>3, <2>4
<1>8. ASSUME NEW c \in Call, Load(c) PROVE Preserved
  <2>1. LoadJobs' = LoadJobs
    BY <1>8, SameFileSameJobs DEF Load
  <2>2. OriginInv' /\ Durable'
    BY <1>0, <1>8, <2>1, SameAcknowledged DEF Load, OutcomeInv, Goto, TypeOK
  <2>3. LockInv' /\ FreshInv' /\ FileInv' /\ OutcomeInv'
    BY <1>0, <1>8 DEF Load, Goto, LockInv, FreshInv, FileInv, OutcomeInv, Intact, Critical, InFlight, TypeOK
  <2>4. HolderInv'
    <3>1. \A d \in Call : d # c => pc[d] \notin Critical /\ pc'[d] = pc[d]
      BY <1>0, <1>8 DEF Load, Goto, LockInv, Critical, TypeOK
    <3>2. /\ pc'[c] = "open" /\ ~Refused(LoadJobs, c)
          /\ jobs'[c] = Applied(LoadJobs, c)
      BY <1>8 DEF Load, Goto, TypeOK
    <3>3. QED
      BY <2>1, <3>1, <3>2 DEF HolderInv, Critical, Refused, Has, Applied
  <2>5. QED
    BY <2>2, <2>3, <2>4
<1>9. ASSUME NEW c \in Call, OpenTmp(c) PROVE Preserved
  <2> DEFINE inode == IF tmp = NoCall THEN c ELSE tmp
  <2>1. /\ inode \in Call /\ inode # file /\ inode # NoCall
        /\ tmp' = inode /\ file' = file /\ fd' = [fd EXCEPT ![c] = inode]
        /\ content' = [content EXCEPT ![inode] = Empty]
    BY <1>0, <1>9 DEF OpenTmp, Goto, FreshInv, FileInv, TypeOK
  <2> HIDE DEF inode
  <2>2. LoadJobs' = LoadJobs
    BY <2>1, SameFileSameJobs DEF TypeOK
  <2>3. OriginInv' /\ Durable'
    BY <1>0, <1>9, <2>2, SameAcknowledged DEF OpenTmp
  <2>4. LockInv' /\ OutcomeInv'
    BY <1>0, <1>9 DEF OpenTmp, Goto, LockInv, OutcomeInv, Critical, InFlight, TypeOK
  <2>5. FreshInv'
    <3>1. inode = c \/ inode = tmp
      BY DEF inode
    <3>2. QED
      BY <1>0, <1>9, <2>1, <3>1 DEF OpenTmp, Goto, FreshInv, TypeOK
  <2>6. FileInv'
    BY <1>0, <2>1 DEF FileInv, Intact, TypeOK
  <2>7. HolderInv'
    <3>1. \A d \in Call : d # c => pc[d] \notin Critical /\ pc'[d] = pc[d]
      BY <1>0, <1>9 DEF OpenTmp, Goto, LockInv, Critical, TypeOK
    <3>2. pc[c] = "open" /\ pc'[c] = "write" /\ jobs' = jobs /\ fd'[c] = tmp' /\ content'[tmp'] = Empty
      BY <1>9, <2>1 DEF OpenTmp, Goto, TypeOK
    <3>3. QED
      BY <1>0, <2>1, <2>2, <3>1, <3>2 DEF HolderInv, Critical, Refused, Has, UniqueIds
  <2>8. QED
    BY <2>3, <2>4, <2>5, <2>6, <2>7
<1>10. ASSUME NEW c \in Call, WriteTmp(c) PROVE Preserved
  <2>1. tmp # NoCall /\ fd[c] = tmp /\ content[tmp] = Empty /\ tmp # file /\ tmp \in Call
    BY <1>0, <1>10 DEF WriteTmp, Goto, HolderInv, FileInv, TypeOK
  <2>2. content' = [content EXCEPT ![tmp] = Json(Kept(jobs[c]))]
    BY <1>10, <2>1 DEF WriteTmp
  <2>3. LoadJobs' = LoadJobs
    BY <1>10, <2>1, <2>2, SameFileSameJobs DEF WriteTmp, TypeOK
  <2>4. OriginInv' /\ Durable'
    BY <1>0, <1>10, <2>3, SameAcknowledged DEF WriteTmp
  <2>5. LockInv' /\ OutcomeInv' /\ FreshInv'
    BY <1>0, <1>10 DEF WriteTmp, Goto, LockInv, OutcomeInv, FreshInv, Critical, InFlight, TypeOK
  <2>6. FileInv'
    BY <1>0, <1>10, <2>1, <2>2 DEF WriteTmp, FileInv, Intact, TypeOK
  <2>7. HolderInv'
    <3>1. \A d \in Call : d # c => pc[d] \notin Critical /\ pc'[d] = pc[d]
      BY <1>0, <1>10 DEF WriteTmp, Goto, LockInv, Critical, TypeOK
    <3>2. /\ pc[c] = "write" /\ pc'[c] = "rename" /\ jobs' = jobs /\ tmp' = tmp
          /\ content'[tmp] = Json(Kept(jobs[c]))
      BY <1>10, <2>1, <2>2 DEF WriteTmp, Goto, TypeOK
    <3>3. ~Refused(LoadJobs', c) /\ jobs'[c] = Applied(LoadJobs', c)
      BY <1>0, <2>3, <3>2 DEF HolderInv
    <3>4. content'[tmp'] = Json(Kept(jobs'[c]))
      BY <3>2
    <3>5. QED
      BY <2>1, <3>1, <3>2, <3>3, <3>4 DEF HolderInv, Critical
  <2>8. QED
    BY <2>4, <2>5, <2>6, <2>7
<1>11. ASSUME NEW c \in Call, RenameTmp(c) PROVE Preserved
  <2>1. /\ pc[c] = "rename" /\ outcome[c] = "none" /\ tmp # NoCall
        /\ content[tmp] = Json(Kept(jobs[c]))
        /\ ~Refused(LoadJobs, c) /\ jobs[c] = Applied(LoadJobs, c)
        /\ file' = tmp /\ tmp' = NoCall /\ content' = content /\ jobs' = jobs
        /\ outcome' = [outcome EXCEPT ![c] = "ok"]
    BY <1>0, <1>11 DEF RenameTmp, Goto, HolderInv, OutcomeInv, TypeOK
  <2>2. LoadJobs' = Kept(jobs[c])
    BY <2>1 DEF LoadJobs, Json
  <2>3. OriginInv' /\ Durable'
    BY <1>0, <2>1, <2>2, CommitAcknowledged
  <2>4. LockInv' /\ OutcomeInv' /\ FreshInv'
    BY <1>0, <1>11 DEF RenameTmp, Goto, LockInv, OutcomeInv, FreshInv, Critical, InFlight, TypeOK
  <2>5. FileInv'
    BY <2>1 DEF FileInv, Intact, Json
  <2>6. HolderInv'
    <3>1. \A d \in Call : d # c => pc[d] \notin Critical /\ pc'[d] = pc[d]
      BY <1>0, <1>11 DEF RenameTmp, Goto, LockInv, Critical, TypeOK
    <3>2. pc'[c] = "unlink"
      BY <1>11 DEF RenameTmp, Goto, TypeOK
    <3>3. UniqueIds(jobs[c])
      <4>1. LoadJobs \in Seq(Rec)
        BY EmptySeq DEF LoadJobs, TypeOK, Content
      <4>2. c \in AddCall => ~Has(LoadJobs, JobOf[c])
        BY <1>0, <2>1, AddedJobIsNew
      <4>3. UniqueIds(LoadJobs)
        BY <1>0 DEF OriginInv
      <4>4. QED
        BY <2>1, <4>1, <4>2, <4>3, AppliedUnique
    <3>4. QED
      BY <2>1, <2>2, <3>1, <3>2, <3>3 DEF HolderInv, Critical, Kept, UniqueIds
  <2>7. QED
    BY <2>3, <2>4, <2>5, <2>6
<1>12. ASSUME NEW c \in Call, RenameFails(c) PROVE FALSE
  BY <1>0, <1>12 DEF RenameFails, Goto, HolderInv
<1>13. ASSUME NEW c \in Call, DeadlinePasses(c) PROVE Preserved
  <2>1. LoadJobs' = LoadJobs
    BY <1>13, SameFileSameJobs DEF DeadlinePasses
  <2>2. OriginInv' /\ Durable'
    BY <1>0, <1>13, <2>1, SameAcknowledged DEF DeadlinePasses, OutcomeInv, Goto, TypeOK
  <2>3. LockInv' /\ FreshInv' /\ FileInv' /\ OutcomeInv'
    BY <1>0, <1>13 DEF DeadlinePasses, Goto, LockInv, FreshInv, FileInv, OutcomeInv, Intact, Critical, InFlight, TypeOK
  <2>4. HolderInv'
    BY <1>0, <1>13, <2>1 DEF DeadlinePasses, Goto, HolderInv, LockInv, Critical, InFlight, TypeOK, Refused, Has, UniqueIds
  <2>5. QED
    BY <2>2, <2>3, <2>4
<1>14. ASSUME NEW c \in Call, ReclaimRmdir(c) PROVE Preserved
  <2>1. LoadJobs' = LoadJobs
    BY <1>14, SameFileSameJobs DEF ReclaimRmdir
  <2>2. OriginInv' /\ Durable'
    BY <1>0, <1>14, <2>1, SameAcknowledged DEF ReclaimRmdir, OutcomeInv, Goto, TypeOK
  <2>f. lock = NoCall \/ pc[lock] = "crashed"
    BY <1>14 DEF ReclaimRmdir
  <2>3. LockInv' /\ FreshInv' /\ FileInv' /\ OutcomeInv'
    BY <1>0, <1>14, <2>f DEF ReclaimRmdir, Goto, LockInv, FreshInv, FileInv, OutcomeInv, Intact, Critical, InFlight, TypeOK
  <2>4. HolderInv'
    BY <1>0, <1>14, <2>1 DEF ReclaimRmdir, Goto, HolderInv, LockInv, Critical, InFlight, TypeOK, Refused, Has, UniqueIds
  <2>5. QED
    BY <2>2, <2>3, <2>4
<1>15. ASSUME NEW c \in Call, ReclaimMkdir(c) PROVE Preserved
  <2>1. LoadJobs' = LoadJobs
    BY <1>15, SameFileSameJobs DEF ReclaimMkdir
  <2>2. OriginInv' /\ Durable'
    BY <1>0, <1>15, <2>1, SameAcknowledged DEF ReclaimMkdir, OutcomeInv, Goto, TypeOK
  <2>f. home /\ lock = NoCall /\ lock' = c
    BY <1>15 DEF ReclaimMkdir
  <2>3. LockInv' /\ FreshInv' /\ FileInv' /\ OutcomeInv'
    BY <1>0, <1>15, <2>f DEF ReclaimMkdir, Goto, LockInv, FreshInv, FileInv, OutcomeInv, Intact, Critical, InFlight, TypeOK
  <2>4. HolderInv'
    BY <1>0, <1>15, <2>1 DEF ReclaimMkdir, Goto, HolderInv, LockInv, Critical, InFlight, TypeOK, Refused, Has, UniqueIds
  <2>5. QED
    BY <2>2, <2>3, <2>4
<1>e. CASE EnsureDataDir
  <2>1. LoadJobs' = LoadJobs
    BY <1>e, SameFileSameJobs DEF EnsureDataDir
  <2>2. OriginInv' /\ Durable'
    BY <1>0, <1>e, <2>1, SameAcknowledged DEF EnsureDataDir
  <2>3. LockInv' /\ FreshInv' /\ FileInv' /\ OutcomeInv' /\ HolderInv'
    BY <1>0, <1>e, <2>1 DEF EnsureDataDir, LockInv, FreshInv, FileInv, OutcomeInv,
                            HolderInv, Intact, Refused, Has, UniqueIds
  <2>4. QED
    BY <2>2, <2>3
<1>16. CASE UNCHANGED vars
  <2>1. LoadJobs' = LoadJobs
    BY <1>16, SameFileSameJobs DEF vars
  <2>2. OriginInv' /\ Durable'
    BY <1>0, <1>16, <2>1, SameAcknowledged DEF vars
  <2>3. LockInv' /\ FreshInv' /\ FileInv' /\ OutcomeInv' /\ HolderInv'
    BY <1>0, <1>16, <2>1 DEF vars, LockInv, FreshInv, FileInv, OutcomeInv, HolderInv,
                             Intact, Refused, Has, UniqueIds
  <2>4. QED
    BY <2>2, <2>3
<1>17. QED
  BY <1>1, <1>2, <1>3, <1>4, <1>5, <1>6, <1>7, <1>8, <1>9, <1>10, <1>11, <1>12,
     <1>13, <1>14, <1>15, <1>e, <1>16 DEF Next, Step

\* The inductive invariant holds: until the lock is broken, whoever is inside owns
\* the lock and the temporary file and still has what jobs.json holds, also when the
\* lock and the file are those a dead process has left.
THEOREM StoreInvariant == Spec => []StoreInv
<1>1. Init => StoreInv
  BY StoreAssumption DEF Init, StoreInv, LockInv, FreshInv, HolderInv, FileInv, OutcomeInv,
        OriginInv, Durable, Intact, LoadJobs, UniqueIds, Critical, Unopened
<1>2. TypeOK /\ StoreInv /\ [Next]_vars => StoreInv'
  BY StoreInvStep
<1>3. QED
  BY <1>1, <1>2, TypeCorrect, PTL DEF Spec

\* withLock excludes until the lock is broken, however many processes there are,
\* wherever they are killed and however often the lock of a dead one is reclaimed.
THEOREM LockExcludes == Spec => []MutualExclusion
<1>1. StoreInv => MutualExclusion
  BY DEF StoreInv, LockInv, MutualExclusion, Exclusive
<1>2. QED
  BY <1>1, StoreInvariant, PTL

\* jobs.json is never half-written.
THEOREM NeverTorn == Spec => []JobsFileIntact
<1>1. StoreInv => JobsFileIntact
  BY DEF StoreInv, FileInv, JobsFileIntact
<1>2. QED
  BY <1>1, StoreInvariant, PTL

\* No acknowledged addJob or updateJob is lost, except to the retention limit.
THEOREM UpdatesSurvive == Spec => []NoLostUpdate
<1>1. StoreInv => NoLostUpdate
  BY DEF StoreInv, NoLostUpdate
<1>2. QED
  BY <1>1, StoreInvariant, PTL

\* saveJobs removes the log of no listed job while the lock is respected.
THEOREM LogsOfListedJobsStay == Spec => OnlyEvictedLogsGo
<1>1. ASSUME TypeOK, StoreInv, [Next]_vars
      PROVE  [~breached => \A j \in logs \ logs' : ~Has(LoadJobs, j)]_vars
  <2> SUFFICES ASSUME ~breached, NEW j \in logs, j \notin logs'
               PROVE  ~Has(LoadJobs, j)
    OBVIOUS
  <2>1. ASSUME NEW c \in Call, UnlinkLogs(c) PROVE ~Has(LoadJobs, j)
    <3>1. LoadJobs = Kept(jobs[c]) /\ UniqueIds(jobs[c]) /\ jobs[c] \in Seq(Rec)
      BY <1>1, <2>1 DEF UnlinkLogs, Goto, StoreInv, HolderInv, TypeOK
    <3>2. j \in Evicted(jobs[c])
      BY <2>1 DEF UnlinkLogs
    <3>3. QED
      BY <3>1, <3>2, EvictedNotKept
  <2>2. ASSUME NEW c \in Call, ~UnlinkLogs(c), Begin(c) \/ Step(c) \/ OpenLog(c) \/ Crash(c)
        PROVE  logs \subseteq logs'
    BY <2>2 DEF Step, Begin, TakeLock, DeadlinePasses, ReclaimRmdir, ReclaimMkdir, Load, NotFound,
            OpenTmp, WriteTmp, RenameTmp, RenameFails, Release, OpenLog, Crash
  <2>3. CASE EnsureDataDir \/ UNCHANGED vars
    BY <2>3 DEF EnsureDataDir, vars
  <2>4. QED
    BY <1>1, <2>1, <2>2, <2>3 DEF Next
<1>2. QED
  BY <1>1, TypeCorrect, StoreInvariant, PTL DEF OnlyEvictedLogsGo, Spec

\* The instance speaks of the same list operations.
LEMMA SameOperators ==
  ASSUME NEW js, NEW c
  PROVE  /\ Store!Refused(js, c) <=> Refused(js, c)
         /\ Store!Applied(js, c) = Applied(js, c)
         /\ Store!Kept(js) = Kept(js)
BY DEF Store!Refused, Store!Has, Refused, Has, Store!Applied, Applied, Store!Unshift, Unshift,
       Store!IndexOf, IndexOf, Store!Kept, Kept

\* addJob and updateJob are atomic in the sense of AtomicStore: the rename is the
\* moment a call takes effect, and every other step leaves the table alone.
THEOREM Atomic == Spec => Linearizable
<1>1. Init => Store!Init
  BY StoreAssumption DEF Init, Store!Init, LoadJobs
<1>2. ASSUME TypeOK, StoreInv, [Next]_vars PROVE [Store!Next]_(Store!vars)
  <2> USE DEF Store!vars, Goto
  <2>1. CASE breached
    <3>1. breached'
      BY <1>2, <2>1 DEF Next, Step, vars, Begin, TakeLock, DeadlinePasses, ReclaimRmdir,
           ReclaimMkdir, Load, NotFound, OpenTmp, WriteTmp, RenameTmp, RenameFails,
           UnlinkLogs, Release, OpenLog, Crash, EnsureDataDir
    <3>2. QED
      BY <2>1, <3>1 DEF Store!Next
  <2>2. CASE ~breached
    <3>0. LockInv /\ FreshInv /\ HolderInv /\ FileInv /\ OutcomeInv
      BY <1>2, <2>2 DEF StoreInv
    <3>1. ASSUME NEW c \in Call,
                 \/ Begin(c) \/ TakeLock(c) \/ Load(c) \/ UnlinkLogs(c)
                 \/ Release(c) \/ OpenLog(c) \/ Crash(c)
          PROVE  UNCHANGED Store!vars
      <4>1. /\ file' = file /\ content' = content /\ outcome' = outcome
            /\ breached' = breached
        BY <3>1 DEF Begin, TakeLock, Load, UnlinkLogs, Release, OpenLog, Crash
      <4>2. QED
        BY <4>1, SameFileSameJobs
    <3>2. ASSUME NEW c \in Call, OpenTmp(c) \/ WriteTmp(c) PROVE UNCHANGED Store!vars
      <4>1. /\ file' = file /\ outcome' = outcome /\ breached' = breached
            /\ file # NoCall => content'[file] = content[file]
        BY <1>2, <3>0, <3>2 DEF OpenTmp, WriteTmp, HolderInv, FileInv, FreshInv, Unopened, TypeOK
      <4>2. QED
        BY <4>1, SameFileSameJobs
    <3>3. ASSUME NEW c \in Call, NotFound(c) PROVE Store!Refuse(c)
      <4>1. LoadJobs' = LoadJobs
        BY <3>3, SameFileSameJobs DEF NotFound
      <4>2. outcome[c] = "none"
        BY <3>0, <3>3 DEF NotFound, OutcomeInv, Unopened, Goto
      <4>3. outcome' = [outcome EXCEPT ![c] = "notfound"] /\ breached' = breached
        BY <3>3 DEF NotFound
      <4>4. [d \in Call |-> IF outcome'[d] = "error" THEN "none" ELSE outcome'[d]]
              = [[d \in Call |-> IF outcome[d] = "error" THEN "none" ELSE outcome[d]]
                   EXCEPT ![c] = "notfound"]
        BY <1>2, <4>3 DEF TypeOK
      <4>5. [d \in Call |-> IF outcome[d] = "error" THEN "none" ELSE outcome[d]][c] = "none"
        BY <4>2
      <4>6. Store!Refused(LoadJobs, c) /\ (~breached)' = (~breached)
        BY <3>3, <4>3, SameOperators DEF NotFound
      <4>7. QED
        BY <4>1, <4>4, <4>5, <4>6, Zenon DEF Store!Refuse
    <3>4. ASSUME NEW c \in Call, RenameTmp(c) PROVE Store!Commit(c)
      <4>1. /\ outcome[c] = "none" /\ ~Refused(LoadJobs, c)
            /\ content[tmp] = Json(Kept(Applied(LoadJobs, c))) /\ tmp # NoCall
        BY <3>0, <3>4 DEF RenameTmp, HolderInv, OutcomeInv, Unopened
      <4>2. LoadJobs' = Kept(Applied(LoadJobs, c))
        BY <3>4, <4>1 DEF RenameTmp, LoadJobs, Json
      <4>3. outcome' = [outcome EXCEPT ![c] = "ok"] /\ breached' = breached
        BY <3>4 DEF RenameTmp
      <4>4. [d \in Call |-> IF outcome'[d] = "error" THEN "none" ELSE outcome'[d]]
              = [[d \in Call |-> IF outcome[d] = "error" THEN "none" ELSE outcome[d]]
                   EXCEPT ![c] = "ok"]
        BY <1>2, <4>3 DEF TypeOK
      <4>5. [d \in Call |-> IF outcome[d] = "error" THEN "none" ELSE outcome[d]][c] = "none"
        BY <4>1
      <4>6. /\ (~breached)' = (~breached)
            /\ ~Store!Refused(LoadJobs, c)
            /\ LoadJobs' = Store!Kept(Store!Applied(LoadJobs, c))
        BY <4>1, <4>2, <4>3, SameOperators
      <4>7. QED
        BY <4>4, <4>5, <4>6, Zenon DEF Store!Commit
    <3>5. ASSUME NEW c \in Call, DeadlinePasses(c) \/ ReclaimRmdir(c) \/ ReclaimMkdir(c)
          PROVE  Store!Distrust \/ UNCHANGED Store!vars
      <4>1. /\ LoadJobs' = LoadJobs /\ outcome' = outcome
            /\ breached' \in BOOLEAN
        BY <1>2, <2>2, <3>5, SameFileSameJobs DEF DeadlinePasses, ReclaimRmdir, ReclaimMkdir, TypeOK
      <4>2. CASE breached'
        BY <2>2, <4>1, <4>2 DEF Store!Distrust
      <4>3. CASE ~breached'
        BY <2>2, <4>1, <4>3
      <4>4. QED
        BY <4>1, <4>2, <4>3
    <3>6. ASSUME NEW c \in Call, RenameFails(c) PROVE FALSE
      BY <3>0, <3>6 DEF RenameFails, HolderInv
    <3>7. CASE EnsureDataDir \/ UNCHANGED vars
      <4>1. LoadJobs' = LoadJobs
        BY <3>7, SameFileSameJobs DEF EnsureDataDir, vars
      <4>2. QED
        BY <3>7, <4>1 DEF EnsureDataDir, vars
    <3>8. QED
      BY <1>2, <3>1, <3>2, <3>3, <3>4, <3>5, <3>6, <3>7 DEF Next, Step, Store!Next
  <2>3. QED
    BY <1>2, <2>1, <2>2 DEF TypeOK
<1>3. QED
  BY <1>1, <1>2, TypeCorrect, StoreInvariant, PTL DEF Spec, Linearizable, Store!Spec
=============================================================================

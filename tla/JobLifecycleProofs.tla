------------------------- MODULE JobLifecycleProofs -------------------------
(***************************************************************************)
(* Theorems about JobLifecycle, for any number of jobs, of cancel commands *)
(* and of retained jobs, with or without crashes.                          *)
(***************************************************************************)
EXTENDS JobLifecycle, SequenceTheorems, TLAPS

\* unshift puts the record first and moves the others up by one.
LEMMA UnshiftShape ==
  ASSUME NEW S, NEW js \in Seq(S), NEW r \in S
  PROVE  /\ Unshift(js, r) \in Seq(S)
         /\ Len(Unshift(js, r)) = Len(js) + 1
         /\ Unshift(js, r)[1] = r
         /\ \A i \in 1..Len(js) : Unshift(js, r)[i + 1] = js[i]
<1>1. <<r>> \in Seq(S) /\ Len(<<r>>) = 1
  OBVIOUS
<1>2. /\ <<r>> \o js \in Seq(S)
      /\ Len(<<r>> \o js) = 1 + Len(js)
      /\ \A i \in 1 .. 1 + Len(js) :
           (<<r>> \o js)[i] = IF i <= 1 THEN <<r>>[i] ELSE js[i - 1]
  BY <1>1, ConcatProperties
<1>3. QED
  BY <1>2, LenProperties DEF Unshift

\* slice(0, MAX) keeps a prefix, and the list is full if anything was dropped.
LEMMA KeptShape ==
  ASSUME NEW S, NEW js \in Seq(S)
  PROVE  /\ Kept(js) \in Seq(S)
         /\ Len(Kept(js)) \in 0..Len(js)
         /\ Len(Kept(js)) <= MaxRetained
         /\ \A i \in 1..Len(Kept(js)) : Kept(js)[i] = js[i]
         /\ Len(js) > MaxRetained => Len(Kept(js)) = MaxRetained
         /\ Len(js) <= MaxRetained => Kept(js) = js
<1>1. Len(js) \in Nat /\ MaxRetained \in Nat \ {0}
  BY LenProperties, RetainedAssumption
<1>2. CASE Len(js) <= MaxRetained
  BY <1>1, <1>2 DEF Kept
<1>3. CASE Len(js) > MaxRetained
  <2>1. \A i \in 1..MaxRetained : js[i] \in S
    BY <1>1, <1>3, ElementOfSeq
  <2>2. /\ SubSeq(js, 1, MaxRetained) \in Seq(S)
        /\ Len(SubSeq(js, 1, MaxRetained)) = MaxRetained
        /\ \A i \in 1..MaxRetained : SubSeq(js, 1, MaxRetained)[i] = js[i]
    <3>1. /\ SubSeq(js, 1, MaxRetained) \in Seq(S)
          /\ Len(SubSeq(js, 1, MaxRetained))
               = IF 1 <= MaxRetained THEN MaxRetained - 1 + 1 ELSE 0
          /\ \A i \in 1 .. MaxRetained - 1 + 1 :
               SubSeq(js, 1, MaxRetained)[i] = js[1 + i - 1]
      BY <1>1, <2>1, SubSeqProperties
    <3>2. QED
      BY <1>1, <3>1
  <2>3. QED
    BY <1>1, <1>3, <2>2 DEF Kept
<1>4. QED
  BY <1>1, <1>2, <1>3

\* findIndex finds the job when it is listed.
LEMMA IndexOfListed ==
  ASSUME NEW js, NEW j, Has(js, j)
  PROVE  IndexOf(js, j) \in DOMAIN js /\ js[IndexOf(js, j)].id = j
BY DEF Has, IndexOf
-----------------------------------------------------------------------------
\* The index findIndex returns is the only one with that id.
LEMMA IndexUnique ==
  ASSUME NEW js, UniqueIds(js), NEW i \in DOMAIN js
  PROVE  Has(js, js[i].id) /\ IndexOf(js, js[i].id) = i
BY IndexOfListed DEF UniqueIds, Has

\* updateJob with a patch that sets the status of a job.
LEMMA StatusPatch ==
  ASSUME NEW j, NEW s \in Status, table \in Seq(Rec), TableInv, Has(table, j), SetStatus(j, s)
  PROVE  /\ table' \in Seq(Rec)
         /\ Len(table') = Len(table)
         /\ \A i \in 1..Len(table) :
              /\ table'[i].id = table[i].id
              /\ table'[i].pid = table[i].pid
              /\ table'[i].status = IF table[i].id = j THEN s ELSE table[i].status
<1> DEFINE k == IndexOf(table, j)
           r == [table[k] EXCEPT !.status = s]
<1>1. k \in 1..Len(table) /\ table[k].id = j
  BY IndexOfListed, LenProperties
<1>2. table[k] \in Rec
  BY <1>1, ElementOfSeq
<1>3. r \in Rec /\ r.id = table[k].id /\ r.pid = table[k].pid /\ r.status = s
  BY <1>2 DEF Rec
<1>4. table' = Kept([table EXCEPT ![k] = r])
  BY DEF SetStatus
<1>5. \A i \in 1..Len(table) : table[i].id = j <=> i = k
  BY <1>1, LenProperties DEF TableInv, UniqueIds
<1> HIDE DEF k, r
<1>6. /\ [table EXCEPT ![k] = r] \in Seq(Rec)
      /\ Len([table EXCEPT ![k] = r]) = Len(table)
      /\ \A i \in 1..Len(table) :
           [table EXCEPT ![k] = r][i] = IF i = k THEN r ELSE table[i]
  BY <1>1, <1>3, ExceptSeq
<1>7. table' = [table EXCEPT ![k] = r]
  BY <1>4, <1>6 DEF Kept, TableInv
<1>8. QED
  BY <1>1, <1>3, <1>5, <1>6, <1>7

\* updateJob with the pid of a job.
LEMMA PidPatch ==
  ASSUME NEW j, table \in Seq(Rec), TableInv, Has(table, j), SetPid(j)
  PROVE  /\ table' \in Seq(Rec)
         /\ Len(table') = Len(table)
         /\ \A i \in 1..Len(table) :
              /\ table'[i].id = table[i].id
              /\ table'[i].status = table[i].status
              /\ table'[i].pid = IF table[i].id = j THEN "set" ELSE table[i].pid
<1> DEFINE k == IndexOf(table, j)
           r == [table[k] EXCEPT !.pid = "set"]
<1>1. k \in 1..Len(table) /\ table[k].id = j
  BY IndexOfListed, LenProperties
<1>2. table[k] \in Rec
  BY <1>1, ElementOfSeq
<1>3. r \in Rec /\ r.id = table[k].id /\ r.status = table[k].status /\ r.pid = "set"
  BY <1>2 DEF Rec
<1>4. table' = Kept([table EXCEPT ![k] = r])
  BY DEF SetPid
<1>5. \A i \in 1..Len(table) : table[i].id = j <=> i = k
  BY <1>1, LenProperties DEF TableInv, UniqueIds
<1> HIDE DEF k, r
<1>6. /\ [table EXCEPT ![k] = r] \in Seq(Rec)
      /\ Len([table EXCEPT ![k] = r]) = Len(table)
      /\ \A i \in 1..Len(table) :
           [table EXCEPT ![k] = r][i] = IF i = k THEN r ELSE table[i]
  BY <1>1, <1>3, ExceptSeq
<1>7. table' = [table EXCEPT ![k] = r]
  BY <1>4, <1>6 DEF Kept, TableInv
<1>8. QED
  BY <1>1, <1>3, <1>5, <1>6, <1>7

\* addJob: the new record first, the others after it, the last one dropped if the
\* list was full.
LEMMA AddShape ==
  ASSUME NEW j \in Job, table \in Seq(Rec), TableInv, AddJob(j)
  PROVE  /\ table' \in Seq(Rec)
         /\ Len(table') = IF Len(table) = MaxRetained THEN MaxRetained ELSE Len(table) + 1
         /\ table'[1] = [id |-> j, status |-> "queued", pid |-> "unset"]
         /\ \A i \in 2..Len(table') : i - 1 \in 1..Len(table) /\ table'[i] = table[i - 1]
         /\ \A i \in 1..Len(table) : i + 1 \in 1..Len(table') \/ Len(table') = MaxRetained
<1> DEFINE r == [id |-> j, status |-> "queued", pid |-> "unset"]
           u == Unshift(table, r)
<1>1. r \in Rec
  BY DEF Rec, Status
<1> HIDE DEF r
<1>2. /\ u \in Seq(Rec) /\ Len(u) = Len(table) + 1 /\ u[1] = r
      /\ \A i \in 1..Len(table) : u[i + 1] = table[i]
  BY <1>1, UnshiftShape
<1>3. table' = Kept(u)
  BY DEF AddJob, r
<1> HIDE DEF u
<1>4. /\ table' \in Seq(Rec)
      /\ Len(table') \in 0..Len(u) /\ Len(table') <= MaxRetained
      /\ \A i \in 1..Len(table') : table'[i] = u[i]
      /\ Len(u) > MaxRetained => Len(table') = MaxRetained
      /\ Len(u) <= MaxRetained => table' = u
  BY <1>2, <1>3, KeptShape
<1>5. Len(table) \in Nat /\ Len(table) <= MaxRetained /\ MaxRetained \in Nat \ {0}
  BY LenProperties, RetainedAssumption DEF TableInv
<1>6. Len(table') = IF Len(table) = MaxRetained THEN MaxRetained ELSE Len(table) + 1
  BY <1>2, <1>4, <1>5
<1>7. \A i \in 2..Len(table') : i - 1 \in 1..Len(table) /\ table'[i] = table[i - 1]
  <2>1. SUFFICES ASSUME NEW i \in 2..Len(table')
                 PROVE  i - 1 \in 1..Len(table) /\ table'[i] = table[i - 1]
    OBVIOUS
  <2>2. i - 1 \in 1..Len(table) /\ (i - 1) + 1 = i
    BY <1>5, <1>6, <2>1
  <2>3. u[(i - 1) + 1] = table[i - 1]
    BY <1>2, <2>2
  <2>4. QED
    BY <1>4, <1>5, <1>6, <2>2, <2>3
<1>8. table'[1] = r
  BY <1>2, <1>4, <1>5, <1>6
<1>9. \A i \in 1..Len(table) : i + 1 \in 1..Len(table') \/ Len(table') = MaxRetained
  BY <1>5, <1>6
<1>10. QED
  BY <1>4, <1>6, <1>7, <1>8, <1>9 DEF r
-----------------------------------------------------------------------------
\* Three kinds of steps: those that leave the list alone, those that patch one
\* record and those that add one.
Touches(j) ==
  \/ Has(table, j) /\ (SetPid(j) \/ \E s \in Status : SetStatus(j, s))
  \/ AddJob(j)

\* The list stays a list of records, with unique ids and within its limit, when a
\* job that is not listed is added or any record is patched.
LEMMA TableStep ==
  ASSUME NEW j \in Job, table \in Seq(Rec), TableInv, Touches(j),
         AddJob(j) => ~Has(table, j)
  PROVE  table' \in Seq(Rec) /\ TableInv'
<1>1. /\ Len(table) \in Nat /\ DOMAIN table = 1..Len(table) /\ MaxRetained \in Nat \ {0}
      /\ UniqueIds(table) /\ Len(table) <= MaxRetained
  BY LenProperties, RetainedAssumption DEF TableInv
<1>2. CASE Has(table, j) /\ SetPid(j)
  <2>1. table' \in Seq(Rec) /\ Len(table') = Len(table)
        /\ \A i \in 1..Len(table) : table'[i].id = table[i].id
    BY <1>2, PidPatch
  <2>2. DOMAIN table' = 1..Len(table)
    BY <2>1, LenProperties
  <2>3. QED
    BY <1>1, <2>1, <2>2 DEF TableInv, UniqueIds
<1>3. CASE Has(table, j) /\ \E s \in Status : SetStatus(j, s)
  <2>1. table' \in Seq(Rec) /\ Len(table') = Len(table)
        /\ \A i \in 1..Len(table) : table'[i].id = table[i].id
    BY <1>3, StatusPatch
  <2>2. DOMAIN table' = 1..Len(table)
    BY <2>1, LenProperties
  <2>3. QED
    BY <1>1, <2>1, <2>2 DEF TableInv, UniqueIds
<1>4. CASE AddJob(j)
  <2>1. /\ table' \in Seq(Rec)
        /\ Len(table') = IF Len(table) = MaxRetained THEN MaxRetained ELSE Len(table) + 1
        /\ table'[1] = [id |-> j, status |-> "queued", pid |-> "unset"]
        /\ \A i \in 2..Len(table') : i - 1 \in 1..Len(table) /\ table'[i] = table[i - 1]
    BY <1>4, AddShape
  <2>0. table'[1].id = j
    BY <2>1
  <2>2. DOMAIN table' = 1..Len(table') /\ Len(table') \in Nat
    BY <2>1, LenProperties
  <2>3. \A i \in 1..Len(table) : table[i].id # j
    BY <1>1, <1>4 DEF Has
  <2>4. ASSUME NEW i \in 1..Len(table'), NEW k \in 1..Len(table'), table'[i].id = table'[k].id
        PROVE  i = k
    <3>1. CASE i = 1 \/ k = 1
      BY <2>1, <2>0, <2>2, <2>3, <2>4, <3>1, SMTT(30)
    <3>2. CASE i # 1 /\ k # 1
      <4>1. i \in 2..Len(table') /\ k \in 2..Len(table')
        BY <2>2, <3>2
      <4>2. table[i - 1].id = table[k - 1].id /\ i - 1 \in 1..Len(table) /\ k - 1 \in 1..Len(table)
        BY <2>1, <2>4, <4>1
      <4>3. i - 1 = k - 1
        BY <1>1, <4>2 DEF UniqueIds
      <4>4. QED
        BY <2>2, <4>3
    <3>3. QED
      BY <3>1, <3>2
  <2>5. Len(table') <= MaxRetained
    <3>1. Len(table') = IF Len(table) = MaxRetained THEN MaxRetained ELSE Len(table) + 1
      BY <2>1
    <3>2. Len(table) \in Nat /\ Len(table) <= MaxRetained /\ MaxRetained \in Nat
      BY <1>1
    <3>3. QED
      BY <3>1, <3>2
  <2>6. UniqueIds(table')
    BY <2>2, <2>4 DEF UniqueIds
  <2>7. QED
    BY <2>1, <2>5, <2>6 DEF TableInv
<1>5. QED
  BY <1>2, <1>3, <1>4 DEF Touches

\* A job that enqueue has not added yet is not listed.
LEMMA NewNotListed ==
  ASSUME NEW j \in Job, RecordInv, cli[j] = "new"
  PROVE  ~Has(table, j)
BY DEF RecordInv, Has

\* Steps that leave the list alone.
LEMMA QuietStep ==
  ASSUME TypeOK, LifeInv, UNCHANGED table,
         NEW j \in Job,
         \/ SetLastJob(j) \/ Spawn(j) \/ WaitSees(j) \/ WaitExpires(j)
         \/ GetJob(j) \/ RunAgent(j) \/ CliCrashes(j) \/ WorkerCrashes(j)
  PROVE  OrderInv' /\ RecordInv' /\ CancelInv'
<1>a. /\ cli \in [Job -> {"new", "added", "saved", "spawned", "waiting", "returned", "dead"}]
      /\ worker \in [Job -> {"none", "exited", "dead", "killed", "crashed"} \cup Alive]
      /\ cancel \in [Cancel -> {"idle", "seen", "killed", "warned", "done", "doubtful", "dead"}]
      /\ seen \in [Cancel -> [id : Job \cup {NoJob}, pid : {"unset", "set"}]]
      /\ lastJob \in Job \cup {NoJob} /\ NoJob \notin Job
      /\ OrderInv /\ RecordInv /\ CancelInv
  BY LifecycleAssumption DEF TypeOK, LifeInv
<1>d. /\ DOMAIN table = 1..Len(table) /\ Len(table) \in Nat
      /\ \A i \in 1..Len(table) : table[i] \in Rec
  BY LenProperties, ElementOfSeq DEF TypeOK
<1>i. \A i \in DOMAIN table : table[i].id \in Job
  BY <1>d DEF Rec
<1>1. CASE SetLastJob(j)
  <2>1. OrderInv'
    BY <1>a, <1>i, <1>1 DEF SetLastJob, Cli, OrderInv, Alive
  <2>2. RecordInv'
    BY <1>a, <1>i, <1>1 DEF SetLastJob, Cli, RecordInv
  <2>3. CancelInv'
    BY <1>a, <1>i, <1>1 DEF SetLastJob, Cli, CancelInv
  <2>4. QED
    BY <2>1, <2>2, <2>3
<1>2. CASE Spawn(j)
  <2>1. OrderInv'
    BY <1>a, <1>i, <1>2 DEF Spawn, Cli, OrderInv, Alive
  <2>2. RecordInv'
    BY <1>a, <1>i, <1>2 DEF Spawn, Cli, RecordInv, OrderInv
  <2>3. CancelInv'
    BY <1>a, <1>i, <1>2 DEF Spawn, Cli, CancelInv, OrderInv
  <2>4. QED
    BY <2>1, <2>2, <2>3
<1>3. CASE WaitSees(j)
  <2>1. OrderInv'
    BY <1>a, <1>i, <1>3 DEF WaitSees, Cli, OrderInv, Alive
  <2>2. RecordInv'
    BY <1>a, <1>i, <1>3 DEF WaitSees, Cli, RecordInv
  <2>3. CancelInv'
    BY <1>a, <1>i, <1>3 DEF WaitSees, Cli, CancelInv
  <2>4. QED
    BY <2>1, <2>2, <2>3
<1>4. CASE WaitExpires(j)
  <2>1. OrderInv'
    BY <1>a, <1>i, <1>4 DEF WaitExpires, Cli, OrderInv, Alive
  <2>2. RecordInv'
    BY <1>a, <1>i, <1>4, ZenonT(40) DEF WaitExpires, Cli, RecordInv
  <2>3. CancelInv'
    BY <1>a, <1>i, <1>4 DEF WaitExpires, Cli, CancelInv
  <2>4. QED
    BY <2>1, <2>2, <2>3
<1>5. CASE GetJob(j)
  <2>1. OrderInv'
    BY <1>a, <1>i, <1>5 DEF GetJob, Worker, OrderInv, Alive
  <2>2. RecordInv'
    BY <1>a, <1>i, <1>5 DEF GetJob, Worker, RecordInv, Alive
  <2>3. CancelInv'
    BY <1>a, <1>i, <1>5 DEF GetJob, Worker, CancelInv, Alive
  <2>4. QED
    BY <2>1, <2>2, <2>3
<1>6. CASE RunAgent(j)
  <2>1. OrderInv'
    BY <1>a, <1>i, <1>6 DEF RunAgent, Worker, OrderInv, Alive
  <2>2. RecordInv'
    BY <1>a, <1>i, <1>6 DEF RunAgent, Worker, RecordInv
  <2>3. CancelInv'
    BY <1>a, <1>i, <1>6 DEF RunAgent, Worker, CancelInv, Alive
  <2>4. QED
    BY <2>1, <2>2, <2>3
<1>7. CASE CliCrashes(j)
  <2>1. OrderInv'
    BY <1>a, <1>i, <1>7 DEF CliCrashes, OrderInv, Alive
  <2>2. RecordInv'
    BY <1>a, <1>i, <1>7 DEF CliCrashes, RecordInv
  <2>3. CancelInv'
    BY <1>a, <1>i, <1>7 DEF CliCrashes, CancelInv
  <2>4. QED
    BY <2>1, <2>2, <2>3
<1>8. CASE WorkerCrashes(j)
  <2>1. OrderInv'
    BY <1>a, <1>i, <1>8 DEF WorkerCrashes, OrderInv, Alive
  <2>2. RecordInv'
    BY <1>a, <1>i, <1>8 DEF WorkerCrashes, RecordInv, Alive
  <2>3. CancelInv'
    BY <1>a, <1>i, <1>8 DEF WorkerCrashes, CancelInv, Alive
  <2>4. QED
    BY <2>1, <2>2, <2>3
<1>9. QED
  BY <1>1, <1>2, <1>3, <1>4, <1>5, <1>6, <1>7, <1>8

\* Whatever killProcessTree answers, it ends the worker whose pid was read or leaves
\* it alone, and it ends a living one if it answers ok.
LEMMA KillShape ==
  ASSUME TypeOK, CancelInv, NEW k \in Cancel, CancelKills(k) \/ CancelWarns(k)
  PROVE  /\ UNCHANGED <<table, lastJob, cli, shown, seen>>
         /\ cancel[k] = "seen"
         /\ \E to \in {"killed", "warned"} :
              /\ cancel' = [cancel EXCEPT ![k] = to]
              /\ to = "killed" /\ seen[k].pid = "set" => worker'[seen[k].id] \notin Alive
         /\ \/ UNCHANGED worker
            \/ /\ seen[k].id \in Job /\ worker[seen[k].id] \in Alive
               /\ worker' = [worker EXCEPT ![seen[k].id] = "killed"]
<1>a. /\ worker \in [Job -> {"none", "exited", "dead", "killed", "crashed"} \cup Alive]
      /\ seen[k].pid = "set" => seen[k].id \in Job
  BY DEF TypeOK, CancelInv
<1>1. ASSUME NEW j \in Job, KillWorker(j)
      PROVE  /\ worker'[j] \notin Alive
             /\ \/ UNCHANGED worker
                \/ worker[j] \in Alive /\ worker' = [worker EXCEPT ![j] = "killed"]
  <2>1. CASE worker[j] \in Alive
    <3>1. worker' = [worker EXCEPT ![j] = "killed"]
      BY <1>1, <2>1 DEF KillWorker
    <3>2. QED
      BY <1>a, <2>1, <3>1 DEF Alive
  <2>2. CASE worker[j] \notin Alive
    <3>1. worker' = worker
      BY <1>a, <1>1, <2>2 DEF KillWorker
    <3>2. QED
      BY <2>2, <3>1
  <2>3. QED
    BY <2>1, <2>2
<1>2. CASE CancelKills(k)
  BY <1>a, <1>1, <1>2 DEF CancelKills, CancelStep
<1>3. CASE CancelWarns(k)
  BY <1>a, <1>1, <1>3 DEF CancelWarns, CancelStep
<1>4. QED
  BY <1>2, <1>3

\* The same of a cancel command.
LEMMA QuietCancel ==
  ASSUME TypeOK, LifeInv, NEW k \in Cancel,
         CancelKills(k) \/ CancelWarns(k) \/ CancelCrashes(k)
  PROVE  OrderInv' /\ RecordInv' /\ CancelInv'
<1>a. /\ cli \in [Job -> {"new", "added", "saved", "spawned", "waiting", "returned", "dead"}]
      /\ worker \in [Job -> {"none", "exited", "dead", "killed", "crashed"} \cup Alive]
      /\ cancel \in [Cancel -> {"idle", "seen", "killed", "warned", "done", "doubtful", "dead"}]
      /\ seen \in [Cancel -> [id : Job \cup {NoJob}, pid : {"unset", "set"}]]
      /\ lastJob \in Job \cup {NoJob} /\ NoJob \notin Job
      /\ OrderInv /\ RecordInv /\ CancelInv
  BY LifecycleAssumption DEF TypeOK, LifeInv
<1>d. /\ DOMAIN table = 1..Len(table) /\ Len(table) \in Nat
      /\ \A i \in 1..Len(table) : table[i] \in Rec
  BY LenProperties, ElementOfSeq DEF TypeOK
<1>i. \A i \in DOMAIN table : table[i].id \in Job
  BY <1>d DEF Rec
<1>1. CASE CancelKills(k) \/ CancelWarns(k)
  <2>1. /\ UNCHANGED <<table, lastJob, cli, shown, seen>> /\ cancel[k] = "seen"
        /\ \/ UNCHANGED worker
           \/ /\ seen[k].id \in Job /\ worker[seen[k].id] \in Alive
              /\ worker' = [worker EXCEPT ![seen[k].id] = "killed"]
    BY <1>a, <1>1, KillShape
  <2>2. PICK to \in {"killed", "warned"} :
              /\ cancel' = [cancel EXCEPT ![k] = to]
              /\ to = "killed" /\ seen[k].pid = "set" => worker'[seen[k].id] \notin Alive
    BY <1>a, <1>1, KillShape
  <2>3. OrderInv'
    BY <1>a, <1>i, <2>1 DEF OrderInv, Alive
  <2>4. RecordInv'
    BY <1>a, <1>i, <2>1, <2>2 DEF RecordInv, Alive
  <2>5. CancelInv'
    BY <1>a, <1>i, <2>1, <2>2 DEF CancelInv, Alive
  <2>6. QED
    BY <2>3, <2>4, <2>5
<1>2. CASE CancelCrashes(k)
  <2>1. OrderInv'
    BY <1>a, <1>i, <1>2 DEF CancelCrashes, OrderInv, Alive
  <2>2. RecordInv'
    BY <1>a, <1>i, <1>2 DEF CancelCrashes, RecordInv
  <2>3. CancelInv'
    BY <1>a, <1>i, <1>2 DEF CancelCrashes, CancelInv
  <2>4. QED
    BY <2>1, <2>2, <2>3
<1>3. QED
  BY <1>1, <1>2

\* Reading the record to cancel.  The pid it finds, if any, is that of a worker
\* that was spawned.
LEMMA CancelReadsStep ==
  ASSUME TypeOK, LifeInv, NEW j \in Job, NEW k \in Cancel, CancelReads(k, j)
  PROVE  OrderInv' /\ RecordInv' /\ CancelInv'
<1>a. /\ cli \in [Job -> {"new", "added", "saved", "spawned", "waiting", "returned", "dead"}]
      /\ worker \in [Job -> {"none", "exited", "dead", "killed", "crashed"} \cup Alive]
      /\ cancel \in [Cancel -> {"idle", "seen", "killed", "warned", "done", "doubtful", "dead"}]
      /\ seen \in [Cancel -> [id : Job \cup {NoJob}, pid : {"unset", "set"}]]
      /\ lastJob \in Job \cup {NoJob} /\ NoJob \notin Job
      /\ OrderInv /\ RecordInv /\ CancelInv
  BY LifecycleAssumption DEF TypeOK, LifeInv
<1>d. /\ DOMAIN table = 1..Len(table) /\ Len(table) \in Nat
      /\ \A i \in 1..Len(table) : table[i] \in Rec
  BY LenProperties, ElementOfSeq DEF TypeOK
<1>i. \A i \in DOMAIN table : table[i].id \in Job
  BY <1>d DEF Rec
<1>1. CASE Has(table, j) /\ StatusOf(j) \in {"queued", "running"}
  <2> DEFINE r == table[IndexOf(table, j)]
  <2>1. r \in Rec /\ r.id = j /\ (r.pid = "set" => worker[j] # "none")
    BY <1>a, <1>d, <1>1, IndexOfListed DEF RecordInv
  <2>2. /\ cancel' = [cancel EXCEPT ![k] = "seen"]
        /\ seen' = [seen EXCEPT ![k] = [id |-> j, pid |-> r.pid]]
        /\ UNCHANGED <<table, lastJob, cli, shown, worker>>
    BY <1>1 DEF CancelReads, CancelStep
  <2> HIDE DEF r
  <2>3. OrderInv'
    BY <1>a, <2>2 DEF OrderInv
  <2>4. RecordInv'
    BY <1>a, <1>i, <2>2 DEF RecordInv
  <2>5. CancelInv'
    BY <1>a, <2>1, <2>2 DEF CancelInv
  <2>6. QED
    BY <2>3, <2>4, <2>5
<1>2. CASE ~(Has(table, j) /\ StatusOf(j) \in {"queued", "running"})
  <2>1. /\ cancel[k] = "idle"
        /\ cancel' = [cancel EXCEPT ![k] = "done"]
        /\ UNCHANGED <<table, lastJob, cli, shown, worker, seen>>
    BY <1>2 DEF CancelReads, CancelStep
  <2>2. seen[k].pid = "unset"
    BY <1>a, <2>1 DEF CancelInv
  <2>3. OrderInv'
    BY <1>a, <2>1 DEF OrderInv
  <2>4. RecordInv'
    BY <1>a, <1>i, <2>1, <2>2 DEF RecordInv
  <2>5. CancelInv'
    BY <1>a, <2>1, <2>2 DEF CancelInv
  <2>6. QED
    BY <2>3, <2>4, <2>5
<1>3. QED
  BY <1>1, <1>2
\* A patch changes neither the ids nor who is listed.
LEMMA PatchFrame ==
  ASSUME TypeOK, TableInv, NEW j, Has(table, j),
         SetPid(j) \/ \E s \in Status : SetStatus(j, s)
  PROVE  /\ DOMAIN table' = DOMAIN table /\ Len(table') = Len(table)
         /\ \A i \in DOMAIN table : table'[i].id = table[i].id
         /\ \A x : Has(table', x) <=> Has(table, x)
<1>1. /\ table' \in Seq(Rec) /\ Len(table') = Len(table)
      /\ \A i \in 1..Len(table) : table'[i].id = table[i].id
  BY StatusPatch, PidPatch DEF TypeOK
<1>2. DOMAIN table = 1..Len(table) /\ DOMAIN table' = 1..Len(table)
  BY <1>1, LenProperties DEF TypeOK
<1>3. QED
  BY <1>1, <1>2 DEF Has

\* updateJob(jobId, { pid }) of the enqueuer.
LEMMA RecordPidStep ==
  ASSUME TypeOK, LifeInv, NEW j \in Job, RecordPid(j)
  PROVE  OrderInv' /\ RecordInv' /\ CancelInv'
<1>a. /\ cli \in [Job -> {"new", "added", "saved", "spawned", "waiting", "returned", "dead"}]
      /\ worker \in [Job -> {"none", "exited", "dead", "killed", "crashed"} \cup Alive]
      /\ cancel \in [Cancel -> {"idle", "seen", "killed", "warned", "done", "doubtful", "dead"}]
      /\ seen \in [Cancel -> [id : Job \cup {NoJob}, pid : {"unset", "set"}]]
      /\ lastJob \in Job \cup {NoJob} /\ NoJob \notin Job
      /\ OrderInv /\ RecordInv /\ CancelInv
  BY LifecycleAssumption DEF TypeOK, LifeInv
<1>d. /\ DOMAIN table = 1..Len(table) /\ Len(table) \in Nat
      /\ \A i \in 1..Len(table) : table[i] \in Rec
  BY LenProperties, ElementOfSeq DEF TypeOK
<1>i. \A i \in DOMAIN table : table[i].id \in Job
  BY <1>d DEF Rec
<1>1. /\ cli[j] = "spawned"
      /\ cli' = [cli EXCEPT ![j] = "waiting"] \/ cli' = [cli EXCEPT ![j] = "returned"]
      /\ UNCHANGED <<lastJob, worker, cancel, seen>>
  BY DEF RecordPid, Cli
<1>2. worker[j] # "none"
  BY <1>a, <1>1 DEF OrderInv
<1>3. CancelInv'
  BY <1>a, <1>1 DEF CancelInv
<1>4. CASE Has(table, j)
  <2>1. SetPid(j) /\ TableInv
    BY <1>4 DEF RecordPid, LifeInv
  <2>2. /\ DOMAIN table' = DOMAIN table /\ Len(table') = Len(table)
        /\ \A i \in DOMAIN table : table'[i].id = table[i].id
        /\ \A x : Has(table', x) <=> Has(table, x)
    BY <1>4, <2>1, PatchFrame
  <2>3. \A i \in DOMAIN table :
          /\ table'[i].status = table[i].status
          /\ table'[i].pid = IF table[i].id = j THEN "set" ELSE table[i].pid
    <3>1. \A i \in 1..Len(table) :
            /\ table'[i].status = table[i].status
            /\ table'[i].pid = IF table[i].id = j THEN "set" ELSE table[i].pid
      BY <1>4, <2>1, PidPatch DEF TypeOK
    <3>2. QED
      BY <1>d, <3>1
  <2>4. OrderInv'
    BY <1>a, <1>1, <1>2, <2>2 DEF OrderInv
  <2>5. RecordInv'
    BY <1>a, <1>i, <1>1, <1>2, <2>2, <2>3 DEF RecordInv
  <2>6. QED
    BY <1>3, <2>4, <2>5
<1>5. CASE ~Has(table, j)
  <2>1. UNCHANGED table
    BY <1>5 DEF RecordPid
  <2>2. OrderInv'
    BY <1>a, <1>1, <1>2, <2>1 DEF OrderInv
  <2>3. RecordInv'
    BY <1>a, <1>i, <1>1, <2>1 DEF RecordInv
  <2>4. QED
    BY <1>3, <2>2, <2>3
<1>6. QED
  BY <1>4, <1>5

\* The updateJob calls of the worker: from says where it is, to where it goes
\* when its job is listed, gone when it is not.
LEMMA WorkerWrites ==
  ASSUME TypeOK, LifeInv, NEW j \in Job,
         NEW from \in Alive, NEW to, NEW s \in Status, NEW gone \in {"dead", "erred"},
         to = "running" \/ (to = "exited" /\ s \in Terminal),
         Worker(j, from, IF Has(table, j) THEN to ELSE gone),
         IF Has(table, j) THEN SetStatus(j, s) ELSE UNCHANGED table,
         UNCHANGED <<lastJob, cli, shown, cancel, seen>>
  PROVE  OrderInv' /\ RecordInv' /\ CancelInv'
<1>a. /\ cli \in [Job -> {"new", "added", "saved", "spawned", "waiting", "returned", "dead"}]
      /\ worker \in [Job -> {"none", "exited", "dead", "killed", "crashed"} \cup Alive]
      /\ cancel \in [Cancel -> {"idle", "seen", "killed", "warned", "done", "doubtful", "dead"}]
      /\ seen \in [Cancel -> [id : Job \cup {NoJob}, pid : {"unset", "set"}]]
      /\ lastJob \in Job \cup {NoJob} /\ NoJob \notin Job
      /\ OrderInv /\ RecordInv /\ CancelInv
  BY LifecycleAssumption DEF TypeOK, LifeInv
<1>d. /\ DOMAIN table = 1..Len(table) /\ Len(table) \in Nat
      /\ \A i \in 1..Len(table) : table[i] \in Rec
  BY LenProperties, ElementOfSeq DEF TypeOK
<1>i. \A i \in DOMAIN table : table[i].id \in Job
  BY <1>d DEF Rec
<1>1. worker[j] \in Alive /\ cli[j] # "new"
  BY <1>a DEF Worker, OrderInv, Alive
<1>2. CASE Has(table, j)
  <2>1. SetStatus(j, s) /\ TableInv /\ worker' = [worker EXCEPT ![j] = to]
    BY <1>2 DEF LifeInv, Worker
  <2>2. /\ DOMAIN table' = DOMAIN table /\ Len(table') = Len(table)
        /\ \A i \in DOMAIN table : table'[i].id = table[i].id
        /\ \A x : Has(table', x) <=> Has(table, x)
    BY <1>2, <2>1, PatchFrame
  <2>3. \A i \in DOMAIN table :
          /\ table'[i].pid = table[i].pid
          /\ table'[i].status = IF table[i].id = j THEN s ELSE table[i].status
    <3>1. \A i \in 1..Len(table) :
            /\ table'[i].pid = table[i].pid
            /\ table'[i].status = IF table[i].id = j THEN s ELSE table[i].status
      BY <1>2, <2>1, StatusPatch, ZenonT(40) DEF TypeOK
    <3>2. QED
      BY <1>d, <3>1
  <2>4. OrderInv'
    BY <1>a, <1>1, <2>1, <2>2 DEF OrderInv, Alive
  <2>5. CancelInv'
    BY <1>a, <1>1, <2>1, <2>2 DEF CancelInv
  <2>6. \A k \in Cancel : cancel[k] = "done" /\ seen[k].pid = "set" => seen[k].id # j
    BY <1>a, <1>1 DEF CancelInv
  <2>7. RecordInv'
    BY <1>a, <1>i, <1>1, <2>1, <2>2, <2>3, <2>6 DEF RecordInv
  <2>8. QED
    BY <2>4, <2>5, <2>7
<1>3. CASE ~Has(table, j)
  <2>1. UNCHANGED table /\ worker' = [worker EXCEPT ![j] = gone]
    BY <1>3 DEF Worker
  <2>2. OrderInv'
    BY <1>a, <1>1, <1>3, <2>1 DEF OrderInv, Alive
  <2>3. RecordInv'
    BY <1>a, <1>i, <1>1, <1>3, <2>1 DEF RecordInv
  <2>4. CancelInv'
    BY <1>a, <1>1, <2>1 DEF CancelInv, Alive
  <2>5. QED
    BY <2>2, <2>3, <2>4
<1>4. QED
  BY <1>2, <1>3
\* updateJob(jobId, { status: "cancelled" }) of a cancel command.
LEMMA CancelWritesStep ==
  ASSUME TypeOK, LifeInv, NEW k \in Cancel, CancelWrites(k)
  PROVE  OrderInv' /\ RecordInv' /\ CancelInv'
<1>a. /\ cli \in [Job -> {"new", "added", "saved", "spawned", "waiting", "returned", "dead"}]
      /\ worker \in [Job -> {"none", "exited", "dead", "killed", "crashed"} \cup Alive]
      /\ cancel \in [Cancel -> {"idle", "seen", "killed", "warned", "done", "doubtful", "dead"}]
      /\ seen \in [Cancel -> [id : Job \cup {NoJob}, pid : {"unset", "set"}]]
      /\ lastJob \in Job \cup {NoJob} /\ NoJob \notin Job
      /\ OrderInv /\ RecordInv /\ CancelInv
  BY LifecycleAssumption DEF TypeOK, LifeInv
<1>d. /\ DOMAIN table = 1..Len(table) /\ Len(table) \in Nat
      /\ \A i \in 1..Len(table) : table[i] \in Rec
  BY LenProperties, ElementOfSeq DEF TypeOK
<1>i. \A i \in DOMAIN table : table[i].id \in Job
  BY <1>d DEF Rec
<1> DEFINE j == seen[k].id
<1>1. /\ \/ cancel[k] = "killed" /\ cancel' = [cancel EXCEPT ![k] = "done"]
         \/ cancel[k] = "warned" /\ cancel' = [cancel EXCEPT ![k] = "doubtful"]
      /\ UNCHANGED <<lastJob, cli, shown, worker, seen>>
      /\ IF Has(table, j) THEN SetStatus(j, "cancelled") ELSE UNCHANGED table
  BY DEF CancelWrites, CancelStep
<1> HIDE DEF j
<1>2. CancelInv'
  BY <1>a, <1>1 DEF CancelInv
<1>3. CASE Has(table, j)
  <2>1. SetStatus(j, "cancelled") /\ TableInv /\ "cancelled" \in Status /\ "cancelled" \in Terminal
    BY <1>1, <1>3 DEF LifeInv, Status, Terminal
  <2>2. /\ DOMAIN table' = DOMAIN table /\ Len(table') = Len(table)
        /\ \A i \in DOMAIN table : table'[i].id = table[i].id
        /\ \A x : Has(table', x) <=> Has(table, x)
    BY <1>3, <2>1, PatchFrame
  <2>3. \A i \in DOMAIN table :
          /\ table'[i].pid = table[i].pid
          /\ table'[i].status = IF table[i].id = j THEN "cancelled" ELSE table[i].status
    <3>1. \A i \in 1..Len(table) :
            /\ table'[i].pid = table[i].pid
            /\ table'[i].status = IF table[i].id = j THEN "cancelled" ELSE table[i].status
      BY <1>3, <2>1, StatusPatch, ZenonT(40) DEF TypeOK
    <3>2. QED
      BY <1>d, <3>1
  <2>4. OrderInv'
    BY <1>a, <1>1, <2>2 DEF OrderInv
  <2>5. RecordInv'
    BY <1>a, <1>i, <1>1, <2>1, <2>2, <2>3 DEF RecordInv, j
  <2>6. QED
    BY <1>2, <2>4, <2>5
<1>4. CASE ~Has(table, j)
  <2>1. UNCHANGED table
    BY <1>1, <1>4
  <2>2. OrderInv'
    BY <1>a, <1>1, <2>1 DEF OrderInv
  <2>3. \A i \in DOMAIN table : table[i].id # j
    BY <1>4 DEF Has
  <2>4. RecordInv'
    BY <1>a, <1>i, <1>1, <2>1, <2>3 DEF RecordInv, j
  <2>5. QED
    BY <1>2, <2>2, <2>4
<1>5. QED
  BY <1>3, <1>4

\* addJob of a job nobody has heard of.
LEMMA AddJobStep ==
  ASSUME TypeOK, LifeInv, NEW j \in Job, AddJob(j)
  PROVE  OrderInv' /\ RecordInv' /\ CancelInv'
<1>a. /\ cli \in [Job -> {"new", "added", "saved", "spawned", "waiting", "returned", "dead"}]
      /\ worker \in [Job -> {"none", "exited", "dead", "killed", "crashed"} \cup Alive]
      /\ cancel \in [Cancel -> {"idle", "seen", "killed", "warned", "done", "doubtful", "dead"}]
      /\ seen \in [Cancel -> [id : Job \cup {NoJob}, pid : {"unset", "set"}]]
      /\ lastJob \in Job \cup {NoJob} /\ NoJob \notin Job
      /\ OrderInv /\ RecordInv /\ CancelInv
  BY LifecycleAssumption DEF TypeOK, LifeInv
<1>d. /\ DOMAIN table = 1..Len(table) /\ Len(table) \in Nat
      /\ \A i \in 1..Len(table) : table[i] \in Rec
  BY LenProperties, ElementOfSeq DEF TypeOK
<1>i. \A i \in DOMAIN table : table[i].id \in Job
  BY <1>d DEF Rec
<1>1. /\ cli[j] = "new" /\ cli' = [cli EXCEPT ![j] = "added"]
      /\ UNCHANGED <<lastJob, shown, worker, cancel, seen>>
  BY DEF AddJob, Cli
<1>2. worker[j] = "none"
  BY <1>a, <1>1 DEF OrderInv
<1>3. /\ table' \in Seq(Rec)
      /\ Len(table') = IF Len(table) = MaxRetained THEN MaxRetained ELSE Len(table) + 1
      /\ table'[1] = [id |-> j, status |-> "queued", pid |-> "unset"]
      /\ \A i \in 2..Len(table') : i - 1 \in 1..Len(table) /\ table'[i] = table[i - 1]
      /\ \A i \in 1..Len(table) : i + 1 \in 1..Len(table') \/ Len(table') = MaxRetained
  BY AddShape DEF TypeOK, LifeInv
<1>4. table'[1].id = j /\ table'[1].pid = "unset"
  BY <1>3
<1>5. DOMAIN table' = 1..Len(table') /\ Len(table') \in Nat
  BY <1>3, LenProperties
<1>6. Len(table') >= 1
  <2>1. Len(table') = IF Len(table) = MaxRetained THEN MaxRetained ELSE Len(table) + 1
    BY <1>3
  <2>2. Len(table) \in Nat
    BY <1>d
  <2>3. QED
    BY <2>1, <2>2, RetainedAssumption
<1>7. \A i \in DOMAIN table' : i # 1 => i - 1 \in DOMAIN table /\ table'[i] = table[i - 1]
  <2>1. SUFFICES ASSUME NEW i \in 1..Len(table'), i # 1
                 PROVE  i - 1 \in DOMAIN table /\ table'[i] = table[i - 1]
    BY <1>5
  <2>2. i \in 2..Len(table')
    BY <1>5, <2>1
  <2>3. QED
    BY <1>3, <1>d, <2>2
<1>8. Len(table) = MaxRetained => Len(table') = MaxRetained
  BY <1>3
<1>9. ASSUME NEW x, Has(table, x), ~Has(table', x)
      PROVE  Len(table') = MaxRetained
  <2>1. PICK i \in 1..Len(table) : table[i].id = x
    BY <1>d, <1>9 DEF Has
  <2>2. CASE i + 1 \in 1..Len(table')
    <3>1. i + 1 \in 2..Len(table') /\ (i + 1) - 1 = i
      BY <1>d, <2>2
    <3>2. table'[i + 1] = table[i]
      BY <1>3, <3>1
    <3>3. QED
      BY <1>5, <1>9, <2>1, <2>2, <3>2 DEF Has
  <2>3. QED
    BY <1>3, <2>2
<1>10. ASSUME NEW x, Has(table', x), x # j
       PROVE  Has(table, x)
  BY <1>4, <1>7, <1>10 DEF Has
<1>11. Has(table', j)
  BY <1>4, <1>5, <1>6 DEF Has
<1>12. OrderInv'
  BY <1>a, <1>1, <1>2, <1>8, <1>9, <1>10, <1>11 DEF OrderInv
<1>13. CancelInv'
  BY <1>a, <1>1 DEF CancelInv
<1>14. RecordInv'
  <2>1. \A k \in Cancel : seen[k].pid = "set" => seen[k].id # j
    BY <1>a, <1>2 DEF CancelInv
  <2>2. QED
    BY <1>a, <1>i, <1>1, <1>2, <1>4, <1>7, <2>1 DEF RecordInv
<1>15. QED
  BY <1>12, <1>13, <1>14

\* Every step keeps the types.
LEMMA TypesStep ==
  ASSUME TypeOK, LifeInv, [Next]_vars
  PROVE  TypeOK'
<1> USE DEF TypeOK, Alive, Status, Terminal
<1>1. ASSUME NEW j, j \in Job, Has(table, j) PROVE StatusOf(j) \in Status
  <2>1. IndexOf(table, j) \in 1..Len(table)
    BY <1>1, IndexOfListed, LenProperties
  <2>2. table[IndexOf(table, j)] \in Rec
    BY <2>1, ElementOfSeq
  <2>3. QED
    BY <2>2 DEF StatusOf, Rec
<1>2. ASSUME NEW j, Has(table, j), SetPid(j) \/ \E s \in Status : SetStatus(j, s)
      PROVE  table' \in Seq(Rec)
  BY <1>2, PidPatch, StatusPatch DEF LifeInv
<1>3. ASSUME NEW j \in Job, SetLastJob(j) PROVE TypeOK'
  BY <1>3 DEF SetLastJob, Cli
<1>4. ASSUME NEW j \in Job, Spawn(j) PROVE TypeOK'
  BY <1>4 DEF Spawn, Cli
<1>5. ASSUME NEW j \in Job, WaitExpires(j) PROVE TypeOK'
  BY <1>1, <1>5 DEF WaitExpires, Cli
<1>6. ASSUME NEW j \in Job, WaitSees(j) PROVE TypeOK'
  BY <1>1, <1>6 DEF WaitSees, Cli
<1>7. ASSUME NEW j \in Job, GetJob(j) PROVE TypeOK'
  BY <1>7 DEF GetJob, Worker
<1>8. ASSUME NEW j \in Job, RunAgent(j) PROVE TypeOK'
  BY <1>8 DEF RunAgent, Worker
<1>9. ASSUME NEW j \in Job, CliCrashes(j) PROVE TypeOK'
  BY <1>9 DEF CliCrashes
<1>10. ASSUME NEW j \in Job, WorkerCrashes(j) PROVE TypeOK'
  BY <1>10 DEF WorkerCrashes
<1>11. ASSUME NEW j \in Job, AddJob(j) PROVE TypeOK'
  <2>1. table' \in Seq(Rec)
    BY <1>11, AddShape DEF LifeInv
  <2>2. QED
    BY <1>11, <2>1 DEF AddJob, Cli
<1>12. ASSUME NEW j \in Job, RecordPid(j) PROVE TypeOK'
  <2>1. table' \in Seq(Rec)
    BY <1>12, <1>2 DEF RecordPid
  <2>2. QED
    BY <1>12, <2>1 DEF RecordPid, Cli
<1>13. ASSUME NEW j \in Job, MarkRunning(j) PROVE TypeOK'
  <2>1. table' \in Seq(Rec)
    BY <1>13, <1>2 DEF MarkRunning
  <2>2. QED
    BY <1>13, <2>1 DEF MarkRunning, Worker
<1>14. ASSUME NEW j \in Job, WriteCompleted(j) PROVE TypeOK'
  <2>1. table' \in Seq(Rec)
    BY <1>14, <1>2 DEF WriteCompleted
  <2>2. QED
    BY <1>14, <2>1 DEF WriteCompleted, Worker
<1>15. ASSUME NEW j \in Job, WriteFailed(j) PROVE TypeOK'
  <2>1. table' \in Seq(Rec)
    BY <1>15, <1>2 DEF WriteFailed
  <2>2. QED
    BY <1>15, <2>1 DEF WriteFailed, Worker
<1>16. ASSUME NEW k \in Cancel, CancelKills(k) \/ CancelWarns(k) PROVE TypeOK'
  <2>1. CancelInv
    BY DEF LifeInv
  <2>2. /\ UNCHANGED <<table, lastJob, cli, shown, seen>>
        /\ \E to \in {"killed", "warned"} : cancel' = [cancel EXCEPT ![k] = to]
        /\ \/ UNCHANGED worker
           \/ worker' = [worker EXCEPT ![seen[k].id] = "killed"]
    BY <1>16, <2>1, KillShape
  <2>3. cancel' \in [Cancel -> {"idle", "seen", "killed", "warned", "done", "doubtful", "dead"}]
    BY <2>2
  <2>4. worker' \in [Job -> {"none", "exited", "dead", "killed", "crashed"} \cup Alive]
    BY <2>2
  <2>5. QED
    BY <2>2, <2>3, <2>4
<1>17. ASSUME NEW k \in Cancel, CancelCrashes(k) PROVE TypeOK'
  BY <1>17 DEF CancelCrashes
<1>18. ASSUME NEW k \in Cancel, CancelWrites(k) PROVE TypeOK'
  <2>1. table' \in Seq(Rec)
    BY <1>18, <1>2 DEF CancelWrites
  <2>2. QED
    BY <1>18, <2>1 DEF CancelWrites, CancelStep
<1>19. ASSUME NEW k \in Cancel, NEW j \in Job, CancelReads(k, j) PROVE TypeOK'
  <2> DEFINE p == table[IndexOf(table, j)].pid
  <2>1. Has(table, j) => p \in {"unset", "set"}
    <3>1. Has(table, j) => IndexOf(table, j) \in 1..Len(table)
      BY IndexOfListed, LenProperties, ZenonT(40)
    <3>2. Has(table, j) => table[IndexOf(table, j)] \in Rec
      BY <3>1, ElementOfSeq
    <3>3. QED
      BY <3>2 DEF Rec
  <2>2. /\ cancel' = [cancel EXCEPT ![k] = "seen"] \/ cancel' = [cancel EXCEPT ![k] = "done"]
        /\ seen' = seen \/ (Has(table, j) /\ seen' = [seen EXCEPT ![k] = [id |-> j, pid |-> p]])
        /\ UNCHANGED <<table, lastJob, cli, shown, worker>>
    BY <1>19 DEF CancelReads, CancelStep
  <2> HIDE DEF p
  <2>3. seen' \in [Cancel -> [id : Job \cup {NoJob}, pid : {"unset", "set"}]]
    <3>1. CASE seen' = seen
      BY <3>1
    <3>2. CASE Has(table, j) /\ seen' = [seen EXCEPT ![k] = [id |-> j, pid |-> p]]
      <4>1. [id |-> j, pid |-> p] \in [id : Job \cup {NoJob}, pid : {"unset", "set"}]
        BY <2>1, <3>2
      <4>2. QED
        BY <3>2, <4>1
    <3>3. QED
      BY <2>2, <3>1, <3>2
  <2>4. QED
    BY <2>2, <2>3
<1>20. CASE UNCHANGED vars
  BY <1>20 DEF vars
<1>21. QED
  BY <1>3, <1>4, <1>5, <1>6, <1>7, <1>8, <1>9, <1>10, <1>11,
     <1>12, <1>13, <1>14, <1>15, <1>16, <1>17, <1>18, <1>19, <1>20 DEF Next, CliStep, WorkerStep, CancelGoes

-----------------------------------------------------------------------------
\* What a listed job's record says is what StatusOf returns.
LEMMA ListedRecord ==
  ASSUME NEW j, Has(table, j)
  PROVE  \E i \in DOMAIN table : table[i].id = j /\ StatusOf(j) = table[i].status
BY IndexOfListed DEF StatusOf

\* Of a list with unique ids, any record of a job gives its status.
LEMMA StatusAt ==
  ASSUME UniqueIds(table), NEW x, NEW i \in DOMAIN table, table[i].id = x
  PROVE  Has(table, x) /\ StatusOf(x) = table[i].status
BY IndexUnique DEF StatusOf

\* The same after a step.
LEMMA StatusAtNext ==
  ASSUME UniqueIds(table'), NEW x, NEW i \in DOMAIN table', table'[i].id = x
  PROVE  Has(table', x) /\ StatusOf(x)' = table'[i].status
<1>1. Has(table', x) /\ IndexOf(table', x) = i
  BY IndexUnique
<1>2. StatusOf(x)' = table'[IndexOf(table', x)].status
  BY DEF StatusOf, IndexOf
<1>3. QED
  BY <1>1, <1>2

\* The status of a listed job is one of a record's.
LEMMA StatusTyped ==
  ASSUME table \in Seq(Rec), NEW j, Has(table, j)
  PROVE  j \in Job /\ StatusOf(j) \in Status
<1>1. PICK i \in DOMAIN table : table[i].id = j /\ StatusOf(j) = table[i].status
  BY ListedRecord
<1>2. i \in 1..Len(table)
  BY <1>1, LenProperties
<1>3. table[i] \in Rec
  BY <1>2, ElementOfSeq
<1>4. QED
  BY <1>1, <1>3 DEF Rec

\* updateJob of the status of a job changes that status and no other.
LEMMA StatusAfterStatus ==
  ASSUME table \in Seq(Rec), TableInv, NEW j \in Job, NEW s \in Status,
         Has(table, j), SetStatus(j, s)
  PROVE  /\ \A x : Has(table', x) <=> Has(table, x)
         /\ \A x : Has(table, x) => StatusOf(x)' = IF x = j THEN s ELSE StatusOf(x)
<1>1. /\ table' \in Seq(Rec) /\ Len(table') = Len(table)
      /\ \A i \in 1..Len(table) :
           /\ table'[i].id = table[i].id
           /\ table'[i].status = IF table[i].id = j THEN s ELSE table[i].status
  BY StatusPatch
<1>2. DOMAIN table = 1..Len(table) /\ DOMAIN table' = 1..Len(table)
  BY <1>1, LenProperties
<1>3. \A x : Has(table', x) <=> Has(table, x)
  BY <1>1, <1>2 DEF Has
<1>4. UniqueIds(table')
  BY <1>1, <1>2 DEF TableInv, UniqueIds
<1>5. ASSUME NEW x, Has(table, x)
      PROVE  StatusOf(x)' = IF x = j THEN s ELSE StatusOf(x)
  <2>1. PICK i \in DOMAIN table : table[i].id = x /\ StatusOf(x) = table[i].status
    BY <1>5, ListedRecord
  <2>2. i \in DOMAIN table' /\ table'[i].id = x
    BY <1>1, <1>2, <2>1
  <2>3. StatusOf(x)' = table'[i].status
    BY <1>4, <2>2, StatusAtNext
  <2>4. QED
    BY <1>1, <1>2, <2>1, <2>3
<1>6. QED
  BY <1>3, <1>5

\* updateJob of the pid of a job changes no status.
LEMMA StatusAfterPid ==
  ASSUME table \in Seq(Rec), TableInv, NEW j \in Job, Has(table, j), SetPid(j)
  PROVE  /\ \A x : Has(table', x) <=> Has(table, x)
         /\ \A x : Has(table, x) => StatusOf(x)' = StatusOf(x)
<1>1. /\ table' \in Seq(Rec) /\ Len(table') = Len(table)
      /\ \A i \in 1..Len(table) :
           table'[i].id = table[i].id /\ table'[i].status = table[i].status
  BY PidPatch
<1>2. DOMAIN table = 1..Len(table) /\ DOMAIN table' = 1..Len(table)
  BY <1>1, LenProperties
<1>3. \A x : Has(table', x) <=> Has(table, x)
  BY <1>1, <1>2 DEF Has
<1>4. UniqueIds(table')
  BY <1>1, <1>2 DEF TableInv, UniqueIds
<1>5. ASSUME NEW x, Has(table, x)
      PROVE  StatusOf(x)' = StatusOf(x)
  <2>1. PICK i \in DOMAIN table : table[i].id = x /\ StatusOf(x) = table[i].status
    BY <1>5, ListedRecord
  <2>2. i \in DOMAIN table' /\ table'[i].id = x
    BY <1>1, <1>2, <2>1
  <2>3. StatusOf(x)' = table'[i].status
    BY <1>4, <2>2, StatusAtNext
  <2>4. QED
    BY <1>1, <1>2, <2>1, <2>3
<1>6. QED
  BY <1>3, <1>5

\* addJob lists its job as queued; another job keeps its status or is evicted.
LEMMA StatusAfterAdd ==
  ASSUME table \in Seq(Rec), TableInv, NEW j \in Job, ~Has(table, j), AddJob(j)
  PROVE  /\ Has(table', j) /\ StatusOf(j)' = "queued"
         /\ \A x : x # j /\ Has(table', x) => Has(table, x) /\ StatusOf(x)' = StatusOf(x)
<1>1. /\ table' \in Seq(Rec)
      /\ Len(table') = IF Len(table) = MaxRetained THEN MaxRetained ELSE Len(table) + 1
      /\ table'[1] = [id |-> j, status |-> "queued", pid |-> "unset"]
      /\ \A i \in 2..Len(table') : i - 1 \in 1..Len(table) /\ table'[i] = table[i - 1]
  BY AddShape
<1>2. Len(table) \in Nat /\ DOMAIN table = 1..Len(table) /\ MaxRetained \in Nat \ {0}
  BY LenProperties, RetainedAssumption
<1>3. DOMAIN table' = 1..Len(table') /\ Len(table') \in Nat /\ 1 \in DOMAIN table'
  <2>1. DOMAIN table' = 1..Len(table') /\ Len(table') \in Nat
    BY <1>1, LenProperties
  <2>2. Len(table') = IF Len(table) = MaxRetained THEN MaxRetained ELSE Len(table) + 1
    BY <1>1
  <2>3. Len(table') >= 1
    <3>1. Len(table) \in Nat /\ MaxRetained \in Nat \ {0}
      BY <1>2
    <3>2. QED
      BY <2>2, <3>1
  <2>4. QED
    BY <2>1, <2>3
<1>4. UniqueIds(table')
  <2>1. Touches(j)
    BY DEF Touches
  <2>2. QED
    BY <2>1, TableStep DEF TableInv
<1>5. table'[1].id = j /\ table'[1].status = "queued"
  BY <1>1
<1>6. Has(table', j) /\ StatusOf(j)' = "queued"
  BY <1>3, <1>4, <1>5, StatusAtNext
<1>7. ASSUME NEW x, x # j, Has(table', x)
      PROVE  Has(table, x) /\ StatusOf(x)' = StatusOf(x)
  <2>1. PICK i \in DOMAIN table' : table'[i].id = x
    BY <1>7 DEF Has
  <2>2. i \in 2..Len(table')
    BY <1>3, <1>5, <1>7, <2>1
  <2>3. i - 1 \in DOMAIN table /\ table'[i] = table[i - 1]
    BY <1>1, <1>2, <2>2
  <2>4. StatusOf(x)' = table'[i].status
    BY <1>4, <2>1, StatusAtNext
  <2>5. Has(table, x) /\ StatusOf(x) = table[i - 1].status
    BY <2>1, <2>3, StatusAt DEF TableInv
  <2>6. QED
    BY <2>3, <2>4, <2>5
<1>8. QED
  BY <1>6, <1>7
-----------------------------------------------------------------------------
\* A cancel command reads at most one record, and what another has read stays.
LEMMA AimGrows ==
  ASSUME TypeOK, FateInv, [Next]_vars
  PROVE  /\ AimedAt \subseteq AimedAt'
         /\ \A k \in Cancel : cancel'[k] = "idle" => seen'[k].id = NoJob
<1>a. /\ cancel \in [Cancel -> {"idle", "seen", "killed", "warned", "done", "doubtful", "dead"}]
      /\ seen \in [Cancel -> [id : Job \cup {NoJob}, pid : {"unset", "set"}]]
      /\ \A k \in Cancel : cancel[k] = "idle" => seen[k].id = NoJob
  BY DEF TypeOK, FateInv
<1>1. CASE UNCHANGED <<cancel, seen>>
  BY <1>a, <1>1 DEF AimedAt
<1>2. ASSUME NEW k \in Cancel, CancelGoes(k) \/ CancelCrashes(k)
      PROVE  /\ AimedAt \subseteq AimedAt'
             /\ \A l \in Cancel : cancel'[l] = "idle" => seen'[l].id = NoJob
  <2>1. UNCHANGED seen /\ \A l \in Cancel : cancel'[l] = "idle" => cancel[l] = "idle"
    BY <1>a, <1>2 DEF CancelGoes, CancelKills, CancelWarns, CancelWrites, CancelCrashes, CancelStep
  <2>2. QED
    BY <1>a, <2>1 DEF AimedAt
<1>3. ASSUME NEW k \in Cancel, NEW j \in Job, CancelReads(k, j)
      PROVE  /\ AimedAt \subseteq AimedAt'
             /\ \A l \in Cancel : cancel'[l] = "idle" => seen'[l].id = NoJob
  <2>1. /\ cancel[k] = "idle"
        /\ cancel' = [cancel EXCEPT ![k] = "seen"] \/ cancel' = [cancel EXCEPT ![k] = "done"]
    BY <1>3 DEF CancelReads, CancelStep
  <2>2. \A l \in Cancel : l # k => seen'[l] = seen[l]
    BY <1>a, <1>3 DEF CancelReads
  <2>3. QED
    BY <1>a, <2>1, <2>2 DEF AimedAt
<1>4. QED
  BY <1>1, <1>2, <1>3
     DEF Next, CliStep, WorkerStep, AddJob, SetLastJob, Spawn, RecordPid, WaitSees, WaitExpires,
         GetJob, MarkRunning, RunAgent, WriteCompleted, WriteFailed, CliCrashes,
         WorkerCrashes, vars

\* The part of FateInv about one job.
Fate(j) ==
  /\ StatusOf(j) \in {"completed", "failed"} => worker[j] = "exited"
  /\ StatusOf(j) = "cancelled" => j \in AimedAt
  /\ worker[j] \in {"none", "started", "read"} => StatusOf(j) \in {"queued", "cancelled"}
  /\ worker[j] \in {"running", "succeeded", "erred"} => StatusOf(j) \in {"running", "cancelled"}
  /\ shown[j] \in {"completed", "failed"} => StatusOf(j) \in {shown[j], "cancelled"}

\* A step that leaves the status of a job alone, and moves its worker at most
\* within its phase or out of the way.
LEMMA FateKept ==
  ASSUME NEW j, Fate(j), AimedAt \subseteq AimedAt', StatusOf(j)' = StatusOf(j),
         \/ worker'[j] = worker[j]
         \/ worker'[j] \in {"started", "read"} /\ worker[j] \in {"none", "started"}
         \/ worker'[j] \in {"succeeded", "erred"} /\ worker[j] \in {"running", "succeeded"}
         \/ worker'[j] \in {"dead", "killed", "crashed"} /\ worker[j] # "exited",
         \/ shown'[j] = shown[j]
         \/ shown'[j] \in {StatusOf(j), "still running"}
  PROVE  Fate(j)'
BY DEF Fate

\* Every step keeps what the statuses say of the workers.
LEMMA FateStep ==
  ASSUME TypeOK, LifeInv, [Next]_vars
  PROVE  FateInv'
<1>a. /\ cli \in [Job -> {"new", "added", "saved", "spawned", "waiting", "returned", "dead"}]
      /\ shown \in [Job -> {"nothing", "still running"} \cup Status]
      /\ worker \in [Job -> {"none", "exited", "dead", "killed", "crashed"} \cup Alive]
      /\ table \in Seq(Rec)
      /\ TableInv /\ OrderInv /\ RecordInv /\ FateInv
  BY DEF TypeOK, LifeInv
<1>b. AimedAt \subseteq AimedAt' /\ \A k \in Cancel : cancel'[k] = "idle" => seen'[k].id = NoJob
  BY <1>a, AimGrows
<1>c. \A j \in Job : Has(table, j) => Fate(j)
  BY <1>a DEF FateInv, Fate
<1>s. \A j \in Job : shown[j] \in {"completed", "failed"} => worker[j] = "exited"
  BY <1>a DEF FateInv
<1> DEFINE Goal == /\ \A j \in Job : Has(table', j) => Fate(j)'
                   /\ \A j \in Job : shown'[j] \in {"completed", "failed"} => worker'[j] = "exited"
<1>d. Goal => FateInv'
  BY <1>b DEF FateInv, Fate
<1>1. ASSUME UNCHANGED <<table, shown, worker>> PROVE Goal
  <2>1. \A j \in Job : StatusOf(j)' = StatusOf(j)
    BY <1>1 DEF StatusOf
  <2>2. QED
    BY <1>1, <1>b, <1>c, <1>s, <2>1, FateKept
<1>2. ASSUME NEW j \in Job, UNCHANGED <<table, worker>>,
             \/ shown' = [shown EXCEPT ![j] = "still running"]
             \/ Has(table, j) /\ shown' = [shown EXCEPT ![j] = StatusOf(j)]
      PROVE  Goal
  <2>1. \A x \in Job : StatusOf(x)' = StatusOf(x) /\ (Has(table', x) <=> Has(table, x))
    BY <1>2 DEF StatusOf
  <2>2. \A x \in Job : \/ shown'[x] = shown[x]
                       \/ shown'[x] = "still running"
                       \/ Has(table, x) /\ shown'[x] = StatusOf(x)
    BY <1>a, <1>2
  <2>3. \A x \in Job : Has(table', x) => Fate(x)'
    BY <1>2, <1>b, <1>c, <2>1, <2>2, FateKept
  <2>4. \A x \in Job : shown'[x] \in {"completed", "failed"} => worker'[x] = "exited"
    BY <1>2, <1>c, <1>s, <2>2 DEF Fate
  <2>5. QED
    BY <2>3, <2>4
<1>3. ASSUME NEW j \in Job, UNCHANGED <<table, shown>>, NEW to,
             worker' = [worker EXCEPT ![j] = to],
             \/ to \in {"started", "read"} /\ worker[j] \in {"none", "started"}
             \/ to \in {"succeeded", "erred"} /\ worker[j] \in {"running", "succeeded"}
             \/ to \in {"dead", "killed", "crashed"} /\ worker[j] # "exited"
      PROVE  Goal
  <2>1. \A x \in Job : StatusOf(x)' = StatusOf(x) /\ (Has(table', x) <=> Has(table, x))
    BY <1>3 DEF StatusOf
  <2>2. worker'[j] = to /\ \A x \in Job : x # j => worker'[x] = worker[x]
    BY <1>a, <1>3
  <2>3. \A x \in Job : Has(table', x) => Fate(x)'
    BY <1>3, <1>b, <1>c, <2>1, <2>2, FateKept
  <2>4. worker[j] # "exited"
    BY <1>3
  <2>5. QED
    BY <1>3, <1>s, <2>2, <2>3, <2>4
<1>4. ASSUME NEW j \in Job, RecordPid(j) PROVE Goal
  <2>1. UNCHANGED <<shown, worker>>
    BY <1>4 DEF RecordPid
  <2>2. CASE ~Has(table, j)
    BY <1>1, <1>4, <2>1, <2>2 DEF RecordPid
  <2>3. CASE Has(table, j)
    <3>1. SetPid(j)
      BY <1>4, <2>3 DEF RecordPid
    <3>2. /\ \A x : Has(table', x) <=> Has(table, x)
          /\ \A x : Has(table, x) => StatusOf(x)' = StatusOf(x)
      BY <1>a, <2>3, <3>1, StatusAfterPid
    <3>3. QED
      BY <1>b, <1>c, <1>s, <2>1, <3>2, FateKept
  <2>4. QED
    BY <2>2, <2>3
<1>5. ASSUME NEW j \in Job, AddJob(j) PROVE Goal
  <2>1. UNCHANGED <<shown, worker>> /\ cli[j] = "new"
    BY <1>5 DEF AddJob, Cli
  <2>2. worker[j] = "none" /\ ~Has(table, j)
    BY <1>a, <2>1, NewNotListed DEF OrderInv
  <2>3. /\ StatusOf(j)' = "queued"
        /\ \A x : x # j /\ Has(table', x) => Has(table, x) /\ StatusOf(x)' = StatusOf(x)
    BY <1>a, <1>5, <2>2, StatusAfterAdd
  <2>4. Fate(j)'
    BY <1>s, <2>1, <2>2, <2>3 DEF Fate
  <2>5. \A x \in Job : x # j /\ Has(table', x) => Fate(x)'
    BY <1>b, <1>c, <2>1, <2>3, FateKept
  <2>6. QED
    BY <1>s, <2>1, <2>4, <2>5
<1>6. ASSUME NEW j \in Job, Has(table, j), NEW s \in Status, SetStatus(j, s), UNCHANGED shown,
             \/ /\ s = "cancelled" /\ UNCHANGED worker /\ j \in AimedAt'
             \/ /\ worker[j] \in Alive
                /\ \/ s = "running" /\ worker' = [worker EXCEPT ![j] = "running"]
                   \/ s \in {"completed", "failed"} /\ worker' = [worker EXCEPT ![j] = "exited"]
      PROVE  Goal
  <2>1. /\ \A x : Has(table', x) <=> Has(table, x)
        /\ \A x : Has(table, x) => StatusOf(x)' = IF x = j THEN s ELSE StatusOf(x)
    BY <1>a, <1>6, StatusAfterStatus
  <2>2. \A x \in Job : x # j => worker'[x] = worker[x]
    BY <1>a, <1>6
  <2>3. \A x \in Job : x # j /\ Has(table', x) => Fate(x)'
    BY <1>b, <1>c, <1>6, <2>1, <2>2, FateKept
  <2>4. StatusOf(j)' = s
    BY <1>6, <2>1
  <2>5. CASE s = "cancelled" /\ UNCHANGED worker /\ j \in AimedAt'
    <3>1. Fate(j)'
      BY <2>4, <2>5 DEF Fate
    <3>2. QED
      BY <1>s, <1>6, <2>3, <2>5, <3>1
  <2>6. CASE worker[j] \in Alive /\ s = "running" /\ worker' = [worker EXCEPT ![j] = "running"]
    <3>1. worker'[j] = "running" /\ shown'[j] \notin {"completed", "failed"}
      BY <1>a, <1>s, <1>6, <2>6 DEF Alive
    <3>2. Fate(j)'
      BY <2>4, <2>6, <3>1 DEF Fate
    <3>3. QED
      BY <1>s, <1>6, <2>2, <2>3, <3>1, <3>2
  <2>7. CASE /\ worker[j] \in Alive
             /\ s \in {"completed", "failed"} /\ worker' = [worker EXCEPT ![j] = "exited"]
    <3>1. worker'[j] = "exited" /\ shown'[j] \notin {"completed", "failed"}
      BY <1>a, <1>s, <1>6, <2>7 DEF Alive
    <3>2. Fate(j)'
      BY <2>4, <2>7, <3>1 DEF Fate
    <3>3. QED
      BY <1>s, <1>6, <2>2, <2>3, <3>1, <3>2
  <2>8. QED
    BY <1>6, <2>5, <2>6, <2>7
<1> HIDE DEF Goal
<1>7. ASSUME NEW j \in Job, SetLastJob(j) \/ CliCrashes(j) PROVE Goal
  BY <1>1, <1>7 DEF SetLastJob, CliCrashes
<1>8. ASSUME NEW j \in Job, WaitSees(j) \/ WaitExpires(j) PROVE Goal
  <2>1. UNCHANGED <<table, worker>>
    BY <1>8 DEF WaitSees, WaitExpires
  <2>2. \/ shown' = [shown EXCEPT ![j] = "still running"]
        \/ Has(table, j) /\ shown' = [shown EXCEPT ![j] = StatusOf(j)]
    BY <1>8 DEF WaitSees, WaitExpires
  <2>3. QED
    BY <1>2, <2>1, <2>2
<1>9. ASSUME NEW j \in Job, Spawn(j) \/ GetJob(j) \/ RunAgent(j) \/ WorkerCrashes(j) PROVE Goal
  <2>1. UNCHANGED <<table, shown>>
    BY <1>9 DEF Spawn, GetJob, RunAgent, WorkerCrashes
  <2>2. CASE Spawn(j)
    <3>1. worker[j] = "none" /\ worker' = [worker EXCEPT ![j] = "started"]
      BY <1>a, <2>2 DEF Spawn, Cli, OrderInv
    <3>2. QED
      BY <1>3, <2>1, <3>1
  <2>3. CASE GetJob(j)
    <3>1. \/ worker[j] = "started" /\ worker' = [worker EXCEPT ![j] = "read"]
          \/ worker[j] = "started" /\ worker' = [worker EXCEPT ![j] = "dead"]
      BY <2>3 DEF GetJob, Worker
    <3>2. QED
      BY <1>3, <2>1, <3>1
  <2>4. CASE RunAgent(j)
    <3>1. \/ worker[j] = "running" /\ worker' = [worker EXCEPT ![j] = "succeeded"]
          \/ worker[j] = "running" /\ worker' = [worker EXCEPT ![j] = "erred"]
      BY <2>4 DEF RunAgent, Worker
    <3>2. QED
      BY <1>3, <2>1, <3>1
  <2>5. CASE WorkerCrashes(j)
    <3>1. worker[j] # "exited" /\ worker' = [worker EXCEPT ![j] = "crashed"]
      BY <2>5 DEF WorkerCrashes, Alive
    <3>2. QED
      BY <1>3, <2>1, <3>1
  <2>6. QED
    BY <1>9, <2>2, <2>3, <2>4, <2>5
<1>10. ASSUME NEW j \in Job, MarkRunning(j) \/ WriteCompleted(j) \/ WriteFailed(j) PROVE Goal
  <2>1. UNCHANGED shown /\ worker[j] \in Alive
    BY <1>10 DEF MarkRunning, WriteCompleted, WriteFailed, Worker, Alive
  <2>2. CASE Has(table, j)
    <3>1. \/ SetStatus(j, "running") /\ worker' = [worker EXCEPT ![j] = "running"]
          \/ SetStatus(j, "completed") /\ worker' = [worker EXCEPT ![j] = "exited"]
          \/ SetStatus(j, "failed") /\ worker' = [worker EXCEPT ![j] = "exited"]
      BY <1>10, <2>2 DEF MarkRunning, WriteCompleted, WriteFailed, Worker
    <3>2. "running" \in Status /\ "completed" \in Status /\ "failed" \in Status
      BY DEF Status, Terminal
    <3>3. QED
      BY <1>6, <2>1, <2>2, <3>1, <3>2
  <2>3. CASE ~Has(table, j)
    <3>1. /\ UNCHANGED table
          /\ \/ worker' = [worker EXCEPT ![j] = "dead"] /\ worker[j] # "exited"
             \/ worker' = [worker EXCEPT ![j] = "erred"] /\ worker[j] = "succeeded"
      BY <1>10, <2>3 DEF MarkRunning, WriteCompleted, WriteFailed, Worker
    <3>2. QED
      BY <1>3, <2>1, <3>1
  <2>4. QED
    BY <2>2, <2>3
<1>11. ASSUME NEW k \in Cancel, CancelKills(k) \/ CancelWarns(k) PROVE Goal
  <2>1. /\ UNCHANGED <<table, shown>>
        /\ \/ UNCHANGED worker
           \/ /\ seen[k].id \in Job /\ worker[seen[k].id] \in Alive
              /\ worker' = [worker EXCEPT ![seen[k].id] = "killed"]
    BY <1>11, KillShape DEF LifeInv
  <2>2. CASE UNCHANGED worker
    BY <1>1, <2>1, <2>2
  <2>3. CASE /\ seen[k].id \in Job /\ worker[seen[k].id] \in Alive
             /\ worker' = [worker EXCEPT ![seen[k].id] = "killed"]
    <3>1. worker[seen[k].id] # "exited"
      BY <2>3 DEF Alive
    <3>2. QED
      BY <1>3, <2>1, <2>3, <3>1
  <2>4. QED
    BY <2>1, <2>2, <2>3
<1>12. ASSUME NEW k \in Cancel, CancelWrites(k) PROVE Goal
  <2>1. UNCHANGED <<shown, worker, seen>>
    BY <1>12 DEF CancelWrites
  <2>2. CASE ~Has(table, seen[k].id)
    BY <1>1, <1>12, <2>1, <2>2 DEF CancelWrites
  <2>3. CASE Has(table, seen[k].id)
    <3>1. SetStatus(seen[k].id, "cancelled") /\ "cancelled" \in Status
      BY <1>12, <2>3 DEF CancelWrites, Status, Terminal
    <3>2. seen[k].id \in Job
      BY <1>a, <2>3, StatusTyped
    <3>3. seen[k].id \in AimedAt /\ AimedAt' = AimedAt
      BY <2>1, <3>2, LifecycleAssumption DEF AimedAt
    <3>4. QED
      BY <1>6, <2>1, <2>3, <3>1, <3>2, <3>3
  <2>4. QED
    BY <2>2, <2>3
<1>13. ASSUME NEW k \in Cancel, CancelCrashes(k) \/ \E j \in Job : CancelReads(k, j) PROVE Goal
  BY <1>1, <1>13 DEF CancelCrashes, CancelReads
<1>14. ASSUME UNCHANGED vars PROVE Goal
  BY <1>1, <1>14 DEF vars
<1>15. Goal
  BY <1>4, <1>5, <1>7, <1>8, <1>9, <1>10, <1>11, <1>12, <1>13, <1>14
     DEF Next, CliStep, WorkerStep, CancelGoes
<1>16. QED
  BY <1>d, <1>15

\* Every step keeps the inductive invariant.
LEMMA LifeInvStep ==
  ASSUME TypeOK, LifeInv, [Next]_vars
  PROVE  LifeInv'
<1>1. TableInv'
  <2>1. TableInv /\ table \in Seq(Rec) /\ RecordInv
    BY DEF LifeInv, TypeOK
  <2>2. ASSUME NEW j \in Job, AddJob(j) PROVE TableInv'
    BY <2>1, <2>2, NewNotListed, TableStep DEF AddJob, Cli, Touches
  <2>3. ASSUME NEW j \in Job, Has(table, j), SetPid(j) \/ \E s \in Status : SetStatus(j, s)
        PROVE  TableInv'
    <3>1. Touches(j) /\ (AddJob(j) => ~Has(table, j))
      BY <2>1, <2>3, NewNotListed DEF AddJob, Cli, Touches
    <3>2. QED
      BY <2>1, <3>1, TableStep
  <2>4. UNCHANGED table => TableInv'
    BY <2>1 DEF TableInv
  <2>5. ASSUME NEW k \in Cancel, CancelWrites(k) PROVE TableInv'
    <3>1. Has(table, seen[k].id) => seen[k].id \in Job
      <4>1. DOMAIN table = 1..Len(table) /\ \A i \in 1..Len(table) : table[i] \in Rec
        BY <2>1, LenProperties, ElementOfSeq
      <4>2. \A i \in DOMAIN table : table[i].id \in Job
        BY <4>1 DEF Rec
      <4>3. QED
        BY <4>2 DEF Has
    <3>2. "cancelled" \in Status
      BY DEF Status, Terminal
    <3>3. QED
      BY <2>3, <2>4, <2>5, <3>1, <3>2 DEF CancelWrites
  <2>6. QED
    BY <2>2, <2>3, <2>4, <2>5
       DEF Next, CliStep, WorkerStep, CancelGoes, SetLastJob, Spawn, RecordPid, WaitSees,
           WaitExpires, GetJob, MarkRunning, RunAgent, WriteCompleted, WriteFailed, CliCrashes,
           WorkerCrashes, CancelReads, CancelKills, CancelWarns, CancelCrashes, Status, Terminal, vars
<1>2. OrderInv' /\ RecordInv' /\ CancelInv'
  <2>1. ASSUME NEW j \in Job, MarkRunning(j) PROVE OrderInv' /\ RecordInv' /\ CancelInv'
    BY <2>1, WorkerWrites DEF MarkRunning, Alive, Status
  <2>2. ASSUME NEW j \in Job, WriteCompleted(j) PROVE OrderInv' /\ RecordInv' /\ CancelInv'
    BY <2>2, WorkerWrites DEF WriteCompleted, Alive, Status, Terminal
  <2>3. ASSUME NEW j \in Job, WriteFailed(j) PROVE OrderInv' /\ RecordInv' /\ CancelInv'
    BY <2>3, WorkerWrites DEF WriteFailed, Alive, Status, Terminal
  <2>4. CASE UNCHANGED vars
    BY <2>4 DEF vars, LifeInv, OrderInv, RecordInv, CancelInv
  <2>5. ASSUME NEW j \in Job,
               \/ SetLastJob(j) \/ Spawn(j) \/ WaitSees(j) \/ WaitExpires(j)
               \/ GetJob(j) \/ RunAgent(j) \/ CliCrashes(j) \/ WorkerCrashes(j)
        PROVE  OrderInv' /\ RecordInv' /\ CancelInv'
    <3>1. UNCHANGED table
      BY <2>5 DEF SetLastJob, Spawn, WaitSees, WaitExpires, GetJob, RunAgent, CliCrashes,
                  WorkerCrashes
    <3>2. QED
      BY <2>5, <3>1, QuietStep
  <2>6. ASSUME NEW k \in Cancel, CancelKills(k) \/ CancelWarns(k) \/ CancelCrashes(k)
        PROVE  OrderInv' /\ RecordInv' /\ CancelInv'
    BY <2>6, QuietCancel
  <2>7. QED
    BY <2>1, <2>2, <2>3, <2>4, <2>5, <2>6, AddJobStep, RecordPidStep, CancelWritesStep,
       CancelReadsStep DEF Next, CliStep, WorkerStep, CancelGoes
<1>3. QED
  BY <1>1, <1>2, FateStep DEF LifeInv
-----------------------------------------------------------------------------
\* Types and the inductive invariant together: neither is inductive alone, since
\* what a patch does to the list depends on its ids being unique.
THEOREM LifecycleInvariant == Spec => [](TypeOK /\ LifeInv)
<1>1. Init => TypeOK /\ LifeInv
  <2>1. ASSUME Init PROVE TypeOK
    BY <2>1, EmptySeq DEF Init, TypeOK, Status, Terminal
  <2>2. ASSUME Init PROVE LifeInv
    <3>1. table = << >> /\ Len(table) = 0 /\ DOMAIN table = {} /\ MaxRetained \in Nat
      BY <2>2, RetainedAssumption DEF Init
    <3>2. TableInv
      BY <3>1 DEF TableInv, UniqueIds
    <3>3. OrderInv /\ RecordInv /\ CancelInv
      BY <2>2, <3>1 DEF Init, OrderInv, RecordInv, CancelInv
    <3>4. FateInv
      BY <2>2, <3>1 DEF Init, FateInv, Has
    <3>5. QED
      BY <3>2, <3>3, <3>4 DEF LifeInv
  <2>3. QED
    BY <2>1, <2>2
<1>2. TypeOK /\ LifeInv /\ [Next]_vars => (TypeOK /\ LifeInv)'
  BY TypesStep, LifeInvStep
<1>3. QED
  BY <1>1, <1>2, PTL DEF Spec

\* The shared list and every process keep their types.
THEOREM LifecycleTypes == Spec => []TypeOK
BY LifecycleInvariant, PTL

\* A worker that exits normally leaves its job finished, whatever the enqueuer and
\* any number of cancel commands do meanwhile.
THEOREM WorkersFinish == Spec => []ExitLeavesFinished
<1>1. LifeInv => ExitLeavesFinished
  BY ListedRecord DEF LifeInv, RecordInv, ExitLeavesFinished
<1>2. QED
  BY <1>1, LifecycleInvariant, PTL

\* A worker never misses its job but for the retention limit.
THEOREM WorkersFindTheirJob == Spec => []WorkerKnowsJob
<1>1. LifeInv => WorkerKnowsJob
  BY DEF LifeInv, OrderInv, WorkerKnowsJob
<1>2. QED
  BY <1>1, LifecycleInvariant, PTL

\* lastJobId names a listed job but for the retention limit.
THEOREM LastJobIsListed == Spec => []LastJobListed
<1>1. TypeOK /\ LifeInv => LastJobListed
  BY DEF TypeOK, LifeInv, OrderInv, LastJobListed
<1>2. QED
  BY <1>1, LifecycleInvariant, PTL

\* A cancellation that read a pid and ended without a warning holds for good.
THEOREM CancellationHolds == Spec => []CancelWithPidHolds
<1>1. LifeInv => CancelWithPidHolds
  BY ListedRecord DEF LifeInv, RecordInv, CancelWithPidHolds
<1>2. QED
  BY <1>1, LifecycleInvariant, PTL

\* What --wait printed as the outcome of a job stays its outcome until a cancel
\* command that had read the job takes it back: the worker that wrote it is gone.
THEOREM OutcomesStand == Spec => []ShownOutcomeStands
<1>1. FateInv => ShownOutcomeStands
  <2> SUFFICES ASSUME FateInv, NEW j \in Job, shown[j] \in {"completed", "failed"}, Has(table, j)
               PROVE  \/ StatusOf(j) = shown[j]
                      \/ StatusOf(j) = "cancelled" /\ \E k \in Cancel : seen[k].id = j
    BY DEF ShownOutcomeStands
  <2>1. StatusOf(j) \in {shown[j], "cancelled"} /\ (StatusOf(j) = "cancelled" => j \in AimedAt)
    BY DEF FateInv
  <2>2. QED
    BY <2>1 DEF AimedAt
<1>2. QED
  BY <1>1, LifecycleInvariant, PTL DEF LifeInv
-----------------------------------------------------------------------------
(***************************************************************************)
(* The refinement: a step of the processes is a step of the documented     *)
(* life of the jobs, or leaves it where it was.                            *)
(***************************************************************************)
LEMMA LifeTyped == table \in Seq(Rec) => LifeOf \in [Job -> Contract!Statuses]
<1>1. table \in Seq(Rec) => \A j \in Job : Has(table, j) => StatusOf(j) \in Status
  BY StatusTyped
<1>2. QED
  BY <1>1 DEF LifeOf, Contract!Statuses, Status, Terminal

\* The same after a step.
LEMMA LifeTypedNext == (table \in Seq(Rec) => LifeOf \in [Job -> Contract!Statuses])'
BY LifeTyped, PTL

\* updateJob of a status, along the drawing or as a cancel command may disturb it.
LEMMA LifeMoves ==
  ASSUME TypeOK, TypeOK', TableInv, NEW j \in Job, Has(table, j),
         NEW s \in Status, SetStatus(j, s), UNCHANGED <<cli, AimedAt>>,
         StatusOf(j) # s => <<StatusOf(j), s>> \in Contract!EdgesOf(j)
  PROVE  Contract!Live
<1>1. /\ \A x : Has(table', x) <=> Has(table, x)
      /\ \A x : Has(table, x) => StatusOf(x)' = IF x = j THEN s ELSE StatusOf(x)
  BY StatusAfterStatus DEF TypeOK
<1>2. LifeOf' \in [Job -> Contract!Statuses]
  BY LifeTypedNext DEF TypeOK
<1>3. \A x \in Job : LifeOf'[x] = IF x = j THEN s ELSE LifeOf[x]
  BY <1>1 DEF LifeOf
<1>4. LifeOf[j] = StatusOf(j)
  BY DEF LifeOf
<1>5. QED
  BY <1>2, <1>3, <1>4 DEF Contract!Live

\* addJob: its job is queued, and only the retention limit moves another.
LEMMA LifeAdds ==
  ASSUME TypeOK, TypeOK', LifeInv, NEW j \in Job, AddJob(j)
  PROVE  Contract!Live
<1>1. /\ cli[j] = "new" /\ cli' = [cli EXCEPT ![j] = "added"]
      /\ UNCHANGED seen
      /\ cli \in [Job -> {"new", "added", "saved", "spawned", "waiting", "returned", "dead"}]
  BY DEF AddJob, Cli, TypeOK
<1>2. ~Has(table, j)
  BY <1>1, NewNotListed DEF LifeInv
<1>3. /\ Has(table', j) /\ StatusOf(j)' = "queued"
      /\ \A x : x # j /\ Has(table', x) => Has(table, x) /\ StatusOf(x)' = StatusOf(x)
  BY <1>2, StatusAfterAdd DEF TypeOK, LifeInv
<1>4. LifeOf' \in [Job -> Contract!Statuses] /\ LifeOf \in [Job -> Contract!Statuses]
  BY LifeTyped, LifeTypedNext DEF TypeOK
<1>5. LifeOf[j] = "absent" /\ LifeOf'[j] = "queued"
  BY <1>1, <1>2, <1>3 DEF LifeOf
<1>6. ASSUME NEW x \in Job, x # j, LifeOf'[x] # LifeOf[x]
      PROVE  LifeOf'[x] = "evicted" /\ LifeOf[x] \notin {"absent", "evicted"}
  <2>1. (cli'[x] = "new") <=> (cli[x] = "new")
    BY <1>1, <1>6
  <2>2. Has(table, x) /\ ~Has(table', x)
    BY <1>3, <1>6, <2>1 DEF LifeOf
  <2>3. cli[x] # "new"
    BY <2>2, NewNotListed DEF LifeInv
  <2>4. StatusOf(x) \in Status
    BY <2>2, StatusTyped DEF TypeOK
  <2>5. QED
    BY <2>1, <2>2, <2>3, <2>4 DEF LifeOf, Status, Terminal
<1>7. \A x \in Job : LifeOf'[x] # LifeOf[x] => <<LifeOf[x], LifeOf'[x]>> \in Contract!Edges
  BY <1>4, <1>5, <1>6 DEF Contract!Edges
<1>e. \A x \in Job : LifeOf'[x] # LifeOf[x] => <<LifeOf[x], LifeOf'[x]>> \in Contract!EdgesOf(x)
  BY <1>7 DEF Contract!EdgesOf
<1>8. UNCHANGED AimedAt
  BY <1>1 DEF AimedAt
<1>9. \A x, y \in Job :
        x # y /\ LifeOf'[x] # LifeOf[x] /\ LifeOf'[y] # LifeOf[y]
          => "evicted" \in {LifeOf'[x], LifeOf'[y]}
  BY <1>6
<1>10. QED
  BY <1>4, <1>e, <1>8, <1>9 DEF Contract!Live

\* A step of a cancel command that reads a job disturbs that job alone.
LEMMA LifeDisturbed ==
  ASSUME TypeOK, FateInv, NEW k \in Cancel, NEW j \in Job, CancelReads(k, j)
  PROVE  Contract!Disturb \/ UNCHANGED <<LifeOf, AimedAt>>
<1>1. UNCHANGED LifeOf
  BY DEF CancelReads, LifeOf, StatusOf
<1>2. CASE UNCHANGED seen
  BY <1>1, <1>2 DEF AimedAt
<1>3. CASE seen' = [seen EXCEPT ![k] = [id |-> j, pid |-> table[IndexOf(table, j)].pid]]
  <2>1. seen[k].id = NoJob
    <3>1. cancel[k] = "idle"
      BY DEF CancelReads, CancelStep
    <3>2. QED
      BY <3>1 DEF FateInv
  <2>2. seen'[k].id = j /\ \A l \in Cancel : l # k => seen'[l] = seen[l]
    BY <1>3 DEF TypeOK
  <2>3. AimedAt' = AimedAt \cup {j}
    BY <2>1, <2>2, LifecycleAssumption DEF AimedAt
  <2>4. QED
    BY <1>1, <2>3 DEF Contract!Disturb
<1>4. QED
  BY <1>2, <1>3 DEF CancelReads

\* Every step of the processes is one of the contract, or none.
LEMMA ContractStep ==
  ASSUME TypeOK, TypeOK', LifeInv, [Next]_vars
  PROVE  [Contract!Next]_<<LifeOf, AimedAt>>
<1> DEFINE Goal == Contract!Next \/ UNCHANGED <<LifeOf, AimedAt>>
<1>a. /\ cli \in [Job -> {"new", "added", "saved", "spawned", "waiting", "returned", "dead"}]
      /\ TableInv /\ OrderInv /\ RecordInv /\ FateInv
  BY DEF TypeOK, LifeInv
<1>1. ASSUME UNCHANGED <<table, seen>>,
             \A x \in Job : cli'[x] = "new" <=> cli[x] = "new"
      PROVE  Goal
  <2>1. UNCHANGED LifeOf
    BY <1>1 DEF LifeOf, StatusOf
  <2>2. UNCHANGED AimedAt
    BY <1>1 DEF AimedAt
  <2>3. QED
    BY <2>1, <2>2
<1>2. ASSUME NEW j \in Job, RecordPid(j) PROVE Goal
  <2>1. UNCHANGED seen /\ \A x \in Job : cli'[x] = "new" <=> cli[x] = "new"
    BY <1>a, <1>2 DEF RecordPid, Cli
  <2>2. CASE ~Has(table, j)
    BY <1>1, <1>2, <2>1, <2>2 DEF RecordPid
  <2>3. CASE Has(table, j)
    <3>1. SetPid(j)
      BY <1>2, <2>3 DEF RecordPid
    <3>2. /\ \A x : Has(table', x) <=> Has(table, x)
          /\ \A x : Has(table, x) => StatusOf(x)' = StatusOf(x)
      BY <1>a, <2>3, <3>1, StatusAfterPid DEF TypeOK
    <3>3. UNCHANGED LifeOf
      BY <2>1, <3>2 DEF LifeOf
    <3>4. UNCHANGED AimedAt
      BY <2>1 DEF AimedAt
    <3>5. QED
      BY <3>3, <3>4
  <2>4. QED
    BY <2>2, <2>3
<1>3. ASSUME NEW j \in Job, MarkRunning(j) \/ WriteCompleted(j) \/ WriteFailed(j) PROVE Goal
  <2>1. UNCHANGED <<cli, seen>> /\ UNCHANGED AimedAt
    BY <1>3 DEF MarkRunning, WriteCompleted, WriteFailed, AimedAt
  <2>2. CASE ~Has(table, j)
    BY <1>1, <1>3, <2>1, <2>2 DEF MarkRunning, WriteCompleted, WriteFailed
  <2>3. CASE Has(table, j)
    <3>1. \/ worker[j] = "read" /\ SetStatus(j, "running")
          \/ worker[j] = "succeeded" /\ SetStatus(j, "completed")
          \/ worker[j] = "erred" /\ SetStatus(j, "failed")
      BY <1>3, <2>3 DEF MarkRunning, WriteCompleted, WriteFailed, Worker
    <3>2. /\ worker[j] = "read" => StatusOf(j) \in {"queued", "cancelled"}
          /\ worker[j] \in {"succeeded", "erred"} => StatusOf(j) \in {"running", "cancelled"}
          /\ StatusOf(j) = "cancelled" => j \in AimedAt
      BY <1>a, <2>3 DEF FateInv
    <3>3. PICK s \in {"running", "completed", "failed"} :
            SetStatus(j, s) /\ <<StatusOf(j), s>> \in Contract!EdgesOf(j)
      BY <3>1, <3>2 DEF Contract!Edges, Contract!CancelEdges, Contract!EdgesOf
    <3>4. s \in Status
      BY DEF Status, Terminal
    <3>5. QED
      BY <1>a, <2>1, <2>3, <3>3, <3>4, LifeMoves DEF Contract!Next
  <2>4. QED
    BY <2>2, <2>3
<1>4. ASSUME NEW k \in Cancel, CancelWrites(k) PROVE Goal
  <2>1. UNCHANGED <<cli, seen>> /\ UNCHANGED AimedAt
    BY <1>4 DEF CancelWrites, AimedAt
  <2>2. CASE ~Has(table, seen[k].id)
    BY <1>1, <1>4, <2>1, <2>2 DEF CancelWrites
  <2>3. CASE Has(table, seen[k].id)
    <3>1. SetStatus(seen[k].id, "cancelled") /\ "cancelled" \in Status
      BY <1>4, <2>3 DEF CancelWrites, Status, Terminal
    <3>2. seen[k].id \in Job
      BY <2>3, StatusTyped DEF TypeOK
    <3>3. seen[k].id \in AimedAt
      BY <3>2, LifecycleAssumption DEF AimedAt
    <3>4. StatusOf(seen[k].id) \in Status
      BY <2>3, StatusTyped DEF TypeOK
    <3>5. StatusOf(seen[k].id) # "cancelled"
            => <<StatusOf(seen[k].id), "cancelled">> \in Contract!EdgesOf(seen[k].id)
      BY <3>3, <3>4 DEF Contract!CancelEdges, Contract!EdgesOf, Status, Terminal
    <3>6. QED
      BY <1>a, <2>1, <2>3, <3>1, <3>2, <3>5, LifeMoves DEF Contract!Next
  <2>4. QED
    BY <2>2, <2>3
<1>5. ASSUME NEW j \in Job, AddJob(j) PROVE Goal
  BY <1>5, LifeAdds DEF Contract!Next
<1>6. ASSUME NEW k \in Cancel, NEW j \in Job, CancelReads(k, j) PROVE Goal
  BY <1>a, <1>6, LifeDisturbed DEF Contract!Next
<1> HIDE DEF Goal
<1>7. ASSUME NEW j \in Job,
             \/ SetLastJob(j) \/ Spawn(j) \/ WaitSees(j) \/ WaitExpires(j)
             \/ GetJob(j) \/ RunAgent(j) \/ CliCrashes(j) \/ WorkerCrashes(j)
      PROVE  Goal
  <2>1. UNCHANGED <<table, seen>>
    BY <1>7 DEF SetLastJob, Spawn, WaitSees, WaitExpires, GetJob, RunAgent, CliCrashes,
                WorkerCrashes
  <2>2. \A x \in Job : cli'[x] = "new" <=> cli[x] = "new"
    BY <1>a, <1>7 DEF SetLastJob, Spawn, WaitSees, WaitExpires, GetJob, RunAgent, CliCrashes,
                      WorkerCrashes, Cli
  <2>3. QED
    BY <1>1, <2>1, <2>2
<1>8. ASSUME NEW k \in Cancel, CancelKills(k) \/ CancelWarns(k) \/ CancelCrashes(k) PROVE Goal
  BY <1>1, <1>8 DEF CancelKills, CancelWarns, CancelCrashes
<1>9. ASSUME UNCHANGED vars PROVE Goal
  BY <1>1, <1>9 DEF vars
<1>10. Goal
  BY <1>2, <1>3, <1>4, <1>5, <1>6, <1>7, <1>8, <1>9 DEF Next, CliStep, WorkerStep, CancelGoes
<1>11. QED
  BY <1>10 DEF Goal

\* The processes follow the documented life of a job: queued, running, completed or
\* failed in this order and never back, whoever is killed and whatever is evicted;
\* a job a cancel command has read may besides become cancelled, and go on from
\* there where its worker was.
THEOREM LifecycleFollowsContract == Spec => FollowsContract
<1>1. Init => Contract!Init
  <2> SUFFICES ASSUME Init PROVE Contract!Init
    OBVIOUS
  <2>1. \A j \in Job : ~Has(table, j)
    BY DEF Init, Has
  <2>2. LifeOf = [j \in Job |-> "absent"]
    BY <2>1 DEF Init, LifeOf
  <2>3. AimedAt = {}
    BY DEF Init, AimedAt
  <2>4. QED
    BY <2>2, <2>3 DEF Contract!Init
<1>2. TypeOK /\ TypeOK' /\ LifeInv /\ [Next]_vars => [Contract!Next]_<<LifeOf, AimedAt>>
  BY ContractStep
<1>3. QED
  BY <1>1, <1>2, LifecycleInvariant, PTL DEF Spec, FollowsContract, Contract!Spec
=============================================================================

-------------------------- MODULE ExecContextProofs --------------------------
(***************************************************************************)
(* Theorems about ExecContext, for any number of questions, any branches   *)
(* and plans, any requests and hosts.  The invariant has four parts; each  *)
(* action either leaves the commands alone, and then the question it       *)
(* belongs to has none, or moves one branch's commands along.              *)
(***************************************************************************)
EXTENDS ExecContext, TLAPS

IInv == TypeOK /\ QueueInv

\* A sequence without repetition, without its head.
LEMMA TailOfChain ==
  ASSUME NEW S, NEW s \in Seq(S), s # << >>,
         \A i, j \in DOMAIN s : s[i] = s[j] => i = j
  PROVE  /\ Tail(s) \in Seq(S)
         /\ { Tail(s)[i] : i \in DOMAIN Tail(s) } = { s[i] : i \in DOMAIN s } \ {Head(s)}
         /\ \A i, j \in DOMAIN Tail(s) : Tail(s)[i] = Tail(s)[j] => i = j
<1>1. /\ Tail(s) \in Seq(S) /\ Len(s) \in Nat \ {0} /\ Len(Tail(s)) = Len(s) - 1
      /\ \A i \in 1 .. Len(s) - 1 : Tail(s)[i] = s[i + 1]
      /\ DOMAIN s = 1 .. Len(s) /\ DOMAIN Tail(s) = 1 .. Len(s) - 1
      /\ Head(s) = s[1]
  OBVIOUS
<1>2. \A i \in DOMAIN s \ {1} : i - 1 \in DOMAIN Tail(s) /\ Tail(s)[i - 1] = s[i]
  BY <1>1
<1>3. { Tail(s)[i] : i \in DOMAIN Tail(s) } \subseteq { s[i] : i \in DOMAIN s } \ {Head(s)}
  <2> SUFFICES ASSUME NEW i \in DOMAIN Tail(s)
               PROVE  Tail(s)[i] \in { s[k] : k \in DOMAIN s } \ {Head(s)}
    OBVIOUS
  <2>1. i + 1 \in DOMAIN s /\ i + 1 # 1 /\ 1 \in DOMAIN s /\ Tail(s)[i] = s[i + 1]
    BY <1>1
  <2> QED BY <2>1, <1>1
<1>4. { s[i] : i \in DOMAIN s } \ {Head(s)} \subseteq { Tail(s)[i] : i \in DOMAIN Tail(s) }
  BY <1>1, <1>2
<1>5. \A i, j \in DOMAIN Tail(s) : Tail(s)[i] = Tail(s)[j] => i = j
  <2> SUFFICES ASSUME NEW i \in DOMAIN Tail(s), NEW j \in DOMAIN Tail(s), Tail(s)[i] = Tail(s)[j]
               PROVE  i = j
    OBVIOUS
  <2>1. i + 1 \in DOMAIN s /\ j + 1 \in DOMAIN s /\ s[i + 1] = s[j + 1]
    BY <1>1
  <2>2. i + 1 = j + 1
    BY <2>1
  <2> QED BY <2>2, <1>1
<1> QED BY <1>1, <1>3, <1>4, <1>5

\* What a sequence holds.
Values(s) == { s[i] : i \in DOMAIN s }

\* A sequence with others put behind it.
LEMMA LongerChain ==
  ASSUME NEW S, NEW s \in Seq(S), NEW t \in Seq(S)
  PROVE  /\ s \o t \in Seq(S)
         /\ Values(s \o t) = Values(s) \cup Values(t)
         /\ s # << >> => Head(s \o t) = Head(s)
         /\ t # << >> => s \o t # << >>
         /\ (/\ \A i, j \in DOMAIN s : s[i] = s[j] => i = j
             /\ \A i, j \in DOMAIN t : t[i] = t[j] => i = j
             /\ \A i \in DOMAIN s, j \in DOMAIN t : s[i] # t[j])
            => \A i, j \in DOMAIN (s \o t) : (s \o t)[i] = (s \o t)[j] => i = j
<1>1. /\ s \o t \in Seq(S) /\ Len(s) \in Nat /\ Len(t) \in Nat
      /\ Len(s \o t) = Len(s) + Len(t)
      /\ \A i \in 1 .. Len(s) + Len(t) :
           (s \o t)[i] = IF i <= Len(s) THEN s[i] ELSE t[i - Len(s)]
      /\ DOMAIN s = 1 .. Len(s) /\ DOMAIN t = 1 .. Len(t)
      /\ DOMAIN (s \o t) = 1 .. Len(s) + Len(t)
  OBVIOUS
<1>2. { (s \o t)[i] : i \in DOMAIN (s \o t) } \subseteq
        { s[i] : i \in DOMAIN s } \cup { t[i] : i \in DOMAIN t }
  <2> SUFFICES ASSUME NEW i \in 1 .. Len(s) + Len(t)
               PROVE  (s \o t)[i] \in { s[k] : k \in DOMAIN s } \cup { t[k] : k \in DOMAIN t }
    BY <1>1
  <2>1. CASE i <= Len(s)
    BY <1>1, <2>1
  <2>2. CASE i > Len(s)
    <3>1. i - Len(s) \in DOMAIN t /\ (s \o t)[i] = t[i - Len(s)]
      BY <1>1, <2>2
    <3> QED BY <3>1
  <2> QED BY <2>1, <2>2, <1>1
<1>3. \A i \in DOMAIN s : i \in DOMAIN (s \o t) /\ (s \o t)[i] = s[i]
  BY <1>1
<1>4. \A i \in DOMAIN t : i + Len(s) \in DOMAIN (s \o t) /\ (s \o t)[i + Len(s)] = t[i]
  BY <1>1
<1>5. { s[i] : i \in DOMAIN s } \cup { t[i] : i \in DOMAIN t } \subseteq
        { (s \o t)[i] : i \in DOMAIN (s \o t) }
  <2>1. \A i \in DOMAIN s : s[i] \in { (s \o t)[k] : k \in DOMAIN (s \o t) }
    BY <1>3
  <2>2. \A i \in DOMAIN t : t[i] \in { (s \o t)[k] : k \in DOMAIN (s \o t) }
    <3> SUFFICES ASSUME NEW i \in DOMAIN t
                 PROVE  \E k \in DOMAIN (s \o t) : t[i] = (s \o t)[k]
      OBVIOUS
    <3> QED BY <1>4
  <2> QED BY <2>1, <2>2
<1>6. (s # << >> => Head(s \o t) = Head(s)) /\ (t # << >> => s \o t # << >>)
  BY <1>1
<1>7. ASSUME \A i, j \in DOMAIN s : s[i] = s[j] => i = j,
             \A i, j \in DOMAIN t : t[i] = t[j] => i = j,
             \A i \in DOMAIN s, j \in DOMAIN t : s[i] # t[j],
             NEW i \in DOMAIN (s \o t), NEW j \in DOMAIN (s \o t), (s \o t)[i] = (s \o t)[j]
      PROVE  i = j
  <2>1. \A k \in 1 .. Len(s) + Len(t) :
          IF k <= Len(s) THEN k \in DOMAIN s /\ (s \o t)[k] = s[k]
                         ELSE k - Len(s) \in DOMAIN t /\ (s \o t)[k] = t[k - Len(s)]
    BY <1>1
  <2>2. i \in 1 .. Len(s) + Len(t) /\ j \in 1 .. Len(s) + Len(t)
    BY <1>1
  <2>3. CASE i <= Len(s) /\ j <= Len(s)
    BY <2>1, <2>2, <2>3, <1>7
  <2>4. CASE ~(i <= Len(s)) /\ ~(j <= Len(s))
    <3>1. i - Len(s) = j - Len(s)
      BY <2>1, <2>2, <2>4, <1>7
    <3> QED BY <3>1, <2>2, <1>1
  <2>5. CASE i <= Len(s) /\ ~(j <= Len(s))
    BY <2>1, <2>2, <2>5, <1>7
  <2>6. CASE ~(i <= Len(s)) /\ j <= Len(s)
    BY <2>1, <2>2, <2>6, <1>7
  <2> QED BY <2>3, <2>4, <2>5, <2>6
<1>8. Values(s \o t) = Values(s) \cup Values(t)
  BY <1>2, <1>5 DEF Values
<1> QED BY <1>1, <1>6, <1>7, <1>8
-----------------------------------------------------------------------------
(***************************************************************************)
(* Facts about states that meet the invariant                              *)
(***************************************************************************)
LEMMA InHandTyped ==
  ASSUME IInv
  PROVE  \A c \in InHand : /\ c \in Command
                           /\ c.run \in Run /\ c.to \in Run /\ c.branch \in Branch
<1>1. \A p \in Run : InQueue(p) \subseteq Command
  <2> SUFFICES ASSUME NEW p \in Run, NEW i \in DOMAIN queue[p] PROVE queue[p][i] \in Command
    BY DEF InQueue
  <2>1. queue[p] \in Seq(Command)
    BY DEF IInv, TypeOK
  <2> QED BY <2>1
<1>2. InHand \subseteq Command
  BY <1>1 DEF InHand, IInv, TypeOK
<1>3. \A c \in Command : c.run \in Run /\ c.branch \in Branch
  BY DEF Command
<1> QED BY <1>2, <1>3 DEF IInv, QueueInv, ServedInv

\* A question whose probes are not under way has no command anywhere.
LEMMA Quiet ==
  ASSUME IInv, NEW r \in Run, stage[r] # "probing"
  PROVE  /\ \A c \in InHand : c.run # r /\ c.to # r
         /\ queue[r] = << >>
<1>1. \A c \in InHand : c.run # r /\ c.to # r
  BY DEF IInv, QueueInv, ServedInv
<1>2. ASSUME queue[r] # << >> PROVE FALSE
  <2>1. queue[r] \in Seq(Command)
    BY DEF IInv, TypeOK
  <2>2. 1 \in DOMAIN queue[r]
    BY <1>2, <2>1
  <2>3. queue[r][1] \in InHand /\ queue[r][1].to = r
    BY <2>2 DEF InHand, InQueue, IInv, QueueInv, ChainInv
  <2> QED BY <2>3, <1>1
<1> QED BY <1>1, <1>2

\* As long as a question has no commands, its stage and its context may change.
LEMMA Setup ==
  ASSUME IInv, NEW r \in Run, stage[r] # "probing",
         UNCHANGED <<asked, probes>>,
         \A p \in Run \ {r} : os'[p] = os[p] /\ stage'[p] = stage[p]
  PROVE  ServedInv' /\ ChainInv'
<1>1. /\ InHand' = InHand /\ \A p \in Run : InQueue(p)' = InQueue(p)
      /\ pending' = pending /\ queue' = queue /\ flying' = flying /\ step' = step
  BY DEF InHand, InQueue, probes
<1>2. /\ \A c \in InHand : c.run # r /\ c.to # r
      /\ queue[r] = << >>
  BY Quiet
<1>3. flying \subseteq InHand /\ flying \subseteq Command
  BY DEF InHand, IInv, TypeOK
<1>4. \A c \in InHand : c.run \in Run /\ c.to \in Run
  BY InHandTyped
<1>5. ServedInv'
  <2>1. \A c \in InHand' : stage'[c.run] = "probing"
    BY <1>1, <1>2, <1>4 DEF IInv, QueueInv, ServedInv
  <2> QED BY <1>1, <2>1 DEF IInv, QueueInv, ServedInv
<1>6. \A p \in Run \ {r} : Chained(p)' <=> Chained(p)
  BY DEF Chained, Kind
<1>7. ChainInv'
  <2>1. \A p \in Run : queue'[p] # << >> => Chained(p)'
    BY <1>1, <1>2, <1>6 DEF IInv, QueueInv, ChainInv
  <2>2. \A c \in flying' : Chained(c.to)' => queue'[c.to] # << >> /\ c = Head(queue'[c.to])
    BY <1>1, <1>2, <1>3, <1>4, <1>6 DEF IInv, QueueInv, ChainInv
  <2> QED BY <1>1, <2>1, <2>2 DEF IInv, QueueInv, ChainInv
<1> QED BY <1>5, <1>7
-----------------------------------------------------------------------------
LEMMA InitInv == Init => IInv
<1> SUFFICES ASSUME Init PROVE IInv
  OBVIOUS
<1> USE ExecAssumption
<1>1. TypeOK
  BY DEF Init, TypeOK, Run, System, Supported
<1>2. InHand = {} /\ \A r \in Run : InQueue(r) = {}
  BY DEF Init, InHand, InQueue
<1>3. ServedInv /\ ChainInv
  BY <1>2 DEF Init, ServedInv, ChainInv
<1>4. AskInv
  BY DEF Init, AskInv
<1>5. DetectInv
  BY DEF Init, DetectInv, DetectionSound
<1> QED BY <1>1, <1>3, <1>4, <1>5 DEF IInv, QueueInv

\* DetectInv, one question at a time.
DetectAt(r) ==
  /\ stage[r] \notin {"probing", "over"} => os[r] = "unknown"
  /\ stage[r] \in {"uname", "powershell"} => Kind(r) = "ssh"
  /\ stage[r] \in {"unasked", "connect", "uname"} => ~rejected[r] /\ tries[r] = 0 /\ missed[r] = 0
  /\ rejected[r] => actual[r] = "windows"
  /\ stage[r] = "powershell" /\ actual[r] = "windows" => missed[r] >= tries[r]
  /\ stage[r] = "powershell" => tries[r] \in {0, 1}
  /\ Kind(r) = "ssh" /\ stage[r] \in {"probing", "over"} =>
       /\ os[r] \in {actual[r], "unknown"}
       /\ actual[r] = "windows" /\ missed[r] <= 1 => os[r] = "windows"

LEMMA DetectPointwise == (DetectInv <=> \A r \in Run : DetectAt(r))
BY DEF DetectInv, DetectionSound, DetectAt

\* Every action before the probes changes the entries of one question alone.
LEMMA Entries ==
  ASSUME TypeOK, NEW r \in Run, Ask(r) \/ Connect(r) \/ Uname(r) \/ Powershell(r)
  PROVE  /\ UNCHANGED <<asked, step, pending, queue, flying, used>>
         /\ stage[r] # "probing"
         /\ \A p \in Run \ {r} :
              /\ actual'[p] = actual[p] /\ stage'[p] = stage[p] /\ os'[p] = os[p]
              /\ rejected'[p] = rejected[p] /\ missed'[p] = missed[p] /\ tries'[p] = tries[p]
              /\ store'[p] = store[p] /\ settled'[p] = settled[p]
<1>1. CASE Ask(r)
  BY <1>1 DEF Ask, TypeOK, detection, probes
<1>2. CASE Connect(r)
  <2>1. UNCHANGED <<asked, step, pending, queue, flying, used, actual, missed>> /\ stage[r] # "probing"
    BY <1>2 DEF Connect, probes
  <2>2. CASE Start(r) /\ UNCHANGED settled /\ \E s : os' = [os EXCEPT ![r] = s]
    BY <2>1, <2>2 DEF Start, TypeOK
  <2>3. CASE Refuse(r) /\ UNCHANGED <<os, rejected, tries, store>>
    BY <2>1, <2>3 DEF Refuse, TypeOK
  <2>4. CASE stage' = [stage EXCEPT ![r] = "uname"] /\ UNCHANGED <<os, rejected, tries, store, settled>>
    BY <2>1, <2>4 DEF TypeOK
  <2> QED BY <2>2, <2>3, <2>4, <1>2, Zenon DEF Connect
<1>3. CASE Uname(r)
  BY <1>3 DEF Uname, TypeOK, probes, Start, Miss
<1>4. CASE Powershell(r)
  BY <1>4 DEF Powershell, TypeOK, probes, Start, Miss
<1> QED BY <1>1, <1>2, <1>3, <1>4

LEMMA SetupSteps ==
  ASSUME IInv, NEW r \in Run, Ask(r) \/ Connect(r) \/ Uname(r) \/ Powershell(r),
         TypeOK', AskInv', DetectAt(r)'
  PROVE  IInv'
<1>1. ServedInv' /\ ChainInv'
  BY Entries, Setup DEF IInv, probes
<1>2. \A p \in Run \ {r} : DetectAt(p)'
  BY Entries, DetectPointwise DEF IInv, QueueInv, DetectAt, Kind
<1>3. DetectInv'
  <2>1. \A p \in Run : DetectAt(p)'
    BY <1>2
  <2> QED BY <2>1 DEF DetectInv, DetectionSound, DetectAt
<1> QED BY <1>1, <1>3 DEF IInv, QueueInv

LEMMA EndSteps ==
  ASSUME IInv, NEW r \in Run, Report(r) \/ Lose(r)
  PROVE  IInv'
<1> USE ExecAssumption DEF IInv, QueueInv
<1>1. /\ InHand' = InHand /\ \A p \in Run : InQueue(p)' = InQueue(p) /\ (Chained(p)' <=> Chained(p))
      /\ UNCHANGED <<asked, actual, os, rejected, missed, tries, store, step, pending, queue, flying, used>>
  BY DEF Report, Lose, InHand, InQueue, probes, detection, Chained, Kind
<1>2. /\ \A p \in Run \ {r} : stage'[p] = stage[p] /\ settled'[p] = settled[p]
      /\ stage[r] = "probing" /\ stage'[r] \in {"probing", "over"}
      /\ settled'[r] = settled[r] \/ (settled[r] = "pending" /\ settled'[r] \in {"report", "lost"})
      /\ stage' \in [Run -> {"unasked", "connect", "uname", "powershell", "probing", "over"}]
      /\ settled' \in [Run -> {"none", "pending", "report", "error", "lost"}]
  <2>1. CASE Report(r)
    BY <2>1 DEF Report, TypeOK
  <2>2. CASE Lose(r)
    BY <2>2 DEF Lose, TypeOK
  <2> QED BY <2>1, <2>2
<1>3. TypeOK' /\ AskInv'
  <2>1. TypeOK'
    BY <1>1, <1>2 DEF TypeOK
  <2>2. AskInv'
    BY <1>1, <1>2 DEF AskInv
  <2> QED BY <2>1, <2>2
<1>4. DetectInv'
  BY <1>1, <1>2 DEF DetectInv, DetectionSound, Kind
<1>5. ChainInv'
  <2>1. \A c \in flying : c.to \in Run
    BY InHandTyped DEF InHand
  <2> QED BY <1>1, <2>1 DEF ChainInv
<1>6. \A c \in InHand : stage'[c.run] = "probing"
  <2>1. CASE Report(r)
    <3> SUFFICES ASSUME NEW c \in InHand, c.run = r PROVE FALSE
      BY <2>1, InHandTyped DEF Report, ServedInv, TypeOK
    <3>1. c.step = step[r][c.branch] /\ c.step <= Len(Plan[c.branch])
      BY DEF ServedInv
    <3>2. step[r][c.branch] > Len(Plan[c.branch])
      BY <2>1, InHandTyped DEF Report, Done
    <3>3. step[r][c.branch] \in Nat /\ Len(Plan[c.branch]) \in Nat
      BY InHandTyped DEF TypeOK
    <3> QED BY <3>1, <3>2, <3>3
  <2>2. CASE Lose(r)
    BY <2>2 DEF Lose, ServedInv
  <2> QED BY <2>1, <2>2
<1>7. ServedInv'
  BY <1>1, <1>6 DEF ServedInv
<1> QED BY <1>3, <1>4, <1>5, <1>7

LEMMA StartNextStep ==
  ASSUME IInv, NEW r \in Run, StartNext(r)
  PROVE  IInv'
<1> USE ExecAssumption DEF IInv, QueueInv
<1>1. UNCHANGED <<asked, actual, stage, os, rejected, missed, tries, store, step, pending, queue, settled, used>>
  BY DEF StartNext, detection
<1>2. /\ Head(queue[r]) \in Command /\ Head(queue[r]) \in InQueue(r) /\ Head(queue[r]).to = r
      /\ flying' = flying \cup {Head(queue[r])}
  <2>1. queue[r] \in Seq(Command) /\ queue[r] # << >>
    BY DEF StartNext, TypeOK
  <2>2. 1 \in DOMAIN queue[r] /\ Head(queue[r]) = queue[r][1] /\ queue[r][1] \in Command
    BY <2>1
  <2> QED BY <2>2 DEF InQueue, StartNext, ChainInv
<1>3. InHand' = InHand /\ \A p \in Run : InQueue(p)' = InQueue(p) /\ (Chained(p)' <=> Chained(p))
  <2>1. \A p \in Run : InQueue(p)' = InQueue(p)
    BY <1>1 DEF InQueue
  <2> QED BY <1>1, <1>2, <2>1 DEF InHand, Chained, Kind
<1>4. TypeOK'
  BY <1>1, <1>2 DEF TypeOK
<1>5. ServedInv'
  BY <1>1, <1>3 DEF ServedInv
<1>6. ChainInv'
  <2>1. \A c \in flying : c.to \in Run
    BY InHandTyped DEF InHand
  <2> QED BY <1>1, <1>2, <1>3, <2>1 DEF ChainInv, StartNext
<1>7. AskInv' /\ DetectInv'
  BY <1>1 DEF AskInv, DetectInv, DetectionSound, Kind
<1> QED BY <1>4, <1>5, <1>6, <1>7

LEMMA AskStep ==
  ASSUME IInv, NEW r \in Run, Ask(r)
  PROVE  IInv'
<1> USE ExecAssumption
<1>1. /\ \E x \in Hosts : actual' = [actual EXCEPT ![r] = x]
      /\ stage[r] = "unasked" /\ stage' = [stage EXCEPT ![r] = "connect"]
      /\ settled' = [settled EXCEPT ![r] = "pending"]
      /\ \A p \in Run : p < r => settled[p] \notin {"none", "pending"}
      /\ UNCHANGED <<asked, os, rejected, missed, tries, store, step, pending, queue, flying, used>>
  BY DEF Ask, detection, probes
<1>2. TypeOK'
  BY <1>1 DEF TypeOK, System, IInv
<1>3. AskInv'
  BY <1>1, SMTT(30) DEF AskInv, TypeOK, Run, IInv, QueueInv
<1>4. DetectAt(r)'
  BY <1>1, DetectPointwise DEF DetectAt, TypeOK, IInv, QueueInv
<1> QED BY <1>2, <1>3, <1>4, SetupSteps

LEMMA ConnectStep ==
  ASSUME IInv, NEW r \in Run, Connect(r)
  PROVE  IInv'
<1>1. stage[r] = "connect" /\ UNCHANGED <<asked, actual, missed, step, pending, queue, flying, used>>
  BY DEF Connect, probes
<1>2. CASE Kind(r) \in {"local", "azure-vm", "k8s"} /\ Start(r) /\ UNCHANGED settled
           /\ \E x \in Supported \cup {"unknown"} : os' = [os EXCEPT ![r] = x]
  <2>1. TypeOK'
    BY <1>1, <1>2 DEF TypeOK, Start, IInv
  <2>2. AskInv'
    BY <1>1, <1>2 DEF AskInv, TypeOK, Start, IInv, QueueInv
  <2>3. DetectAt(r)'
    BY <1>1, <1>2 DEF DetectAt, TypeOK, Start, Kind, IInv
  <2> QED BY <2>1, <2>2, <2>3, SetupSteps
<1>3. CASE Kind(r) \in {"throws", "azure-vm", "k8s"} /\ Refuse(r) /\ UNCHANGED <<os, rejected, tries, store>>
  <2>1. TypeOK'
    BY <1>1, <1>3 DEF TypeOK, Refuse, IInv
  <2>2. AskInv'
    BY <1>1, <1>3 DEF AskInv, TypeOK, Refuse, IInv, QueueInv
  <2>3. DetectAt(r)'
    BY <1>1, <1>3, DetectPointwise DEF DetectAt, TypeOK, Refuse, Kind, IInv, QueueInv
  <2> QED BY <2>1, <2>2, <2>3, SetupSteps
<1>4. CASE Kind(r) = "ssh" /\ stage' = [stage EXCEPT ![r] = "uname"]
           /\ UNCHANGED <<os, rejected, tries, store, settled>>
  <2>1. TypeOK'
    BY <1>1, <1>4 DEF TypeOK, IInv
  <2>2. AskInv'
    BY <1>1, <1>4 DEF AskInv, TypeOK, IInv, QueueInv
  <2>3. DetectAt(r)'
    BY <1>1, <1>4, DetectPointwise DEF DetectAt, TypeOK, Kind, IInv, QueueInv
  <2> QED BY <2>1, <2>2, <2>3, SetupSteps
<1>5. (CASE Kind(r) = "k8s" -> {"linux"}
         [] Kind(r) = "azure-vm" -> {"linux", "windows", "unknown"}
         [] OTHER -> Supported \cup {"unknown"}) \subseteq Supported \cup {"unknown"}
  BY DEF Supported, System
<1> QED BY <1>2, <1>3, <1>4, <1>5 DEF Connect

LEMMA MissTyped ==
  ASSUME TypeOK, NEW r \in Run, Miss(r)
  PROVE  missed' \in [Run -> Nat]
<1>1. missed \in [Run -> Nat] /\ missed[r] \in Nat
  BY DEF TypeOK
<1>2. (IF missed[r] < 2 THEN missed[r] + 1 ELSE missed[r]) \in Nat
  BY <1>1
<1> QED BY <1>1, <1>2 DEF Miss

LEMMA UnameStep ==
  ASSUME IInv, NEW r \in Run, Uname(r)
  PROVE  IInv'
<1>1. stage[r] = "uname" /\ UNCHANGED <<asked, actual, settled, step, pending, queue, flying, used>>
  BY DEF Uname, probes
<1>2. TypeOK' /\ AskInv'
  <2>1. CASE (\E x \in Supported : os' = [os EXCEPT ![r] = x]) /\ Start(r) /\ UNCHANGED missed
    BY <1>1, <2>1 DEF Start, TypeOK, AskInv, IInv, QueueInv
  <2>2. CASE /\ stage' = [stage EXCEPT ![r] = "powershell"] /\ UNCHANGED <<os, tries, store>>
             /\ UNCHANGED rejected \/ rejected' = [rejected EXCEPT ![r] = TRUE]
             /\ UNCHANGED missed \/ Miss(r)
    <3>1. missed' \in [Run -> Nat]
      BY <2>2, MissTyped DEF TypeOK, IInv
    <3>2. rejected' \in [Run -> BOOLEAN]
      BY <2>2 DEF TypeOK, IInv
    <3>3. TypeOK'
      BY <1>1, <2>2, <3>1, <3>2 DEF TypeOK, IInv
    <3>4. AskInv'
      BY <1>1, <2>2 DEF TypeOK, AskInv, IInv, QueueInv
    <3> QED BY <3>3, <3>4
  <2> QED BY <2>1, <2>2 DEF Uname
<1>3. DetectAt(r)'
  BY <1>1, DetectPointwise DEF Uname, Start, Miss, DetectAt, TypeOK, Kind, IInv, QueueInv, Supported
<1> QED BY <1>2, <1>3, SetupSteps

LEMMA PowershellStep ==
  ASSUME IInv, NEW r \in Run, Powershell(r)
  PROVE  IInv'
<1>1. stage[r] = "powershell" /\ UNCHANGED <<asked, actual, settled, step, pending, queue, flying, used>>
  BY DEF Powershell, probes
<1>2. TypeOK' /\ AskInv'
  <2>1. missed' \in [Run -> Nat]
    BY MissTyped DEF Powershell, TypeOK, IInv
  <2>2. CASE Start(r) /\ (UNCHANGED os \/ os' = [os EXCEPT ![r] = "windows"])
    BY <1>1, <2>1, <2>2 DEF Start, TypeOK, AskInv, IInv, QueueInv, Supported, System
  <2>3. CASE tries' = [tries EXCEPT ![r] = 1] /\ UNCHANGED <<os, stage, rejected, store>>
    BY <1>1, <2>1, <2>3 DEF TypeOK, AskInv, IInv, QueueInv
  <2>4. os' = [os EXCEPT ![r] = IF rejected[r] THEN "windows" ELSE @]
          => UNCHANGED os \/ os' = [os EXCEPT ![r] = "windows"]
    BY DEF TypeOK, IInv
  <2> QED BY <2>2, <2>3, <2>4 DEF Powershell
<1>3. DetectAt(r)'
  BY <1>1, DetectPointwise DEF Powershell, Start, Miss, DetectAt, TypeOK, Kind, IInv, QueueInv, Supported
<1> QED BY <1>2, <1>3, SetupSteps

\* The commands of a step: as many as the plan says, each of them new.
LEMMA NewGroup ==
  ASSUME IInv, NEW r \in Run, NEW b \in Branch, Send(r, b),
         NEW group, group = Group(r, b)
  PROVE  /\ group \in Seq(Command) /\ group # << >>
         /\ \A i, j \in DOMAIN group : group[i] = group[j] => i = j
         /\ \A i \in DOMAIN group : /\ group[i] \notin InHand
                                    /\ group[i].run = r /\ group[i].to = r
                                    /\ group[i].branch = b /\ group[i].step = step[r][b]
<1> USE ExecAssumption
<1>1. step[r][b] \in DOMAIN Plan[b] /\ step[r][b] \in Nat
  <2>1. step[r][b] \in Nat \ {0} /\ Plan[b] \in Seq(Nat \ {0}) /\ step[r][b] <= Len(Plan[b])
    BY DEF IInv, TypeOK, Send
  <2> QED BY <2>1
<1>2. Plan[b][step[r][b]] \in Nat \ {0}
  BY <1>1
<1>3. \A k \in 1 .. Plan[b][step[r][b]] :
        /\ group[k] \in Command
        /\ group[k].run = r /\ group[k].to = r /\ group[k].n = k
        /\ group[k].branch = b /\ group[k].step = step[r][b]
  <2>1. store[r] = r
    BY DEF IInv, QueueInv, AskInv, Send
  <2> QED BY <1>1, <1>2, <2>1 DEF Command, Group, getCurrentContext
<1>4. DOMAIN group = 1 .. Plan[b][step[r][b]]
  BY DEF Group
<1>5. group \in Seq(Command) /\ group # << >>
  <2>1. group \in [1 .. Plan[b][step[r][b]] -> Command]
    BY <1>3 DEF Group
  <2>2. \A n \in Nat \ {0} : \A g \in [1 .. n -> Command] : g \in Seq(Command) /\ g # << >>
    OBVIOUS
  <2> QED BY <1>2, <2>1, <2>2
<1>6. \A c \in InHand : ~(c.run = r /\ c.branch = b)
  <2>1. pending[r][b] = {} /\ pending[r][b] = { c \in InHand : c.run = r /\ c.branch = b }
    BY DEF IInv, QueueInv, ServedInv, Send
  <2> QED BY <2>1
<1>7. \A i, j \in DOMAIN group : group[i] = group[j] => i = j
  <2>1. \A i, j \in DOMAIN group : group[i] = group[j] => group[i].n = group[j].n
    OBVIOUS
  <2> QED BY <1>3, <1>4, <2>1
<1>8. \A i \in DOMAIN group : /\ group[i] \notin InHand
                             /\ group[i].run = r /\ group[i].to = r
                             /\ group[i].branch = b /\ group[i].step = step[r][b]
  BY <1>3, <1>4, <1>6
<1> QED BY <1>5, <1>7, <1>8

LEMMA SendStep ==
  ASSUME IInv, NEW r \in Run, NEW b \in Branch, Send(r, b)
  PROVE  IInv'
<1> USE DEF IInv, QueueInv
<1>1. store[r] = r /\ stage[r] = "probing" /\ r # 0
  BY DEF Send, AskInv, Run
<1> DEFINE group == Group(r, b)
           sent == { group[k] : k \in DOMAIN group }
<1>2. /\ pending' = [pending EXCEPT ![r][b] = sent]
      /\ used' = [used EXCEPT ![r] = @ \cup {r}]
      /\ IF Chained(r)
         THEN queue' = [queue EXCEPT ![r] = @ \o group] /\ flying' = flying
         ELSE flying' = flying \cup sent /\ queue' = queue
      /\ UNCHANGED <<asked, actual, stage, os, rejected, missed, tries, store, step, settled>>
  <2>1. getCurrentContext(r) = r
    BY <1>1 DEF getCurrentContext
  <2> QED BY <2>1 DEF Send, detection
<1>3. /\ group \in Seq(Command) /\ group # << >>
      /\ \A i, j \in DOMAIN group : group[i] = group[j] => i = j
      /\ \A i \in DOMAIN group : /\ group[i] \notin InHand
                                 /\ group[i].run = r /\ group[i].to = r
                                 /\ group[i].branch = b /\ group[i].step = step[r][b]
  BY NewGroup
<1>4. /\ sent \subseteq Command
      /\ \A c \in sent : c \notin InHand /\ c.run = r /\ c.to = r /\ c.branch = b /\ c.step = step[r][b]
  BY <1>3
<1> HIDE DEF group, sent
<1>5. queue[r] \in Seq(Command)
  BY DEF TypeOK
<1>6. /\ queue[r] \o group \in Seq(Command)
      /\ { (queue[r] \o group)[i] : i \in DOMAIN (queue[r] \o group) } = InQueue(r) \cup sent
      /\ queue[r] # << >> => Head(queue[r] \o group) = Head(queue[r])
      /\ queue[r] \o group # << >>
      /\ \A i, j \in DOMAIN (queue[r] \o group) :
           (queue[r] \o group)[i] = (queue[r] \o group)[j] => i = j
  <2>1. \A i, j \in DOMAIN queue[r] : queue[r][i] = queue[r][j] => i = j
    BY DEF ChainInv
  <2>2. \A i \in DOMAIN queue[r], j \in DOMAIN group : queue[r][i] # group[j]
    <3>1. \A i \in DOMAIN queue[r] : queue[r][i] \in InHand
      BY DEF InHand, InQueue
    <3> QED BY <3>1, <1>3
  <2>3. Values(queue[r] \o group) = Values(queue[r]) \cup Values(group)
    BY <1>3, <1>5, LongerChain
  <2>4. /\ queue[r] \o group \in Seq(Command)
        /\ queue[r] # << >> => Head(queue[r] \o group) = Head(queue[r])
        /\ queue[r] \o group # << >>
    BY <1>3, <1>5, LongerChain
  <2>5. \A i, j \in DOMAIN (queue[r] \o group) :
           (queue[r] \o group)[i] = (queue[r] \o group)[j] => i = j
    BY <1>3, <1>5, <2>1, <2>2, LongerChain
  <2> QED BY <2>3, <2>4, <2>5 DEF InQueue, sent, Values
<1>7. /\ \A p \in Run \ {r} : InQueue(p)' = InQueue(p) /\ queue'[p] = queue[p]
      /\ InQueue(r)' = IF Chained(r) THEN InQueue(r) \cup sent ELSE InQueue(r)
      /\ InHand' = InHand \cup sent
  <2>1. CASE Chained(r)
    <3>1. queue'[r] = queue[r] \o group /\ \A p \in Run \ {r} : queue'[p] = queue[p]
      BY <1>2, <2>1 DEF TypeOK
    <3>2. InQueue(r)' = InQueue(r) \cup sent
      <4>1. InQueue(r)' = { (queue[r] \o group)[i] : i \in DOMAIN (queue[r] \o group) }
        BY <3>1, Zenon DEF InQueue
      <4> QED BY <4>1, <1>6
    <3>3. \A p \in Run \ {r} : InQueue(p)' = InQueue(p)
      BY <3>1 DEF InQueue
    <3> QED BY <1>2, <2>1, <3>1, <3>2, <3>3 DEF InHand
  <2>2. CASE ~Chained(r)
    BY <1>2, <2>2 DEF InHand, InQueue
  <2> QED BY <2>1, <2>2
<1>8. \A p \in Run : Chained(p)' <=> Chained(p)
  BY <1>2 DEF Chained, Kind
<1>9. TypeOK'
  <2>1. queue' \in [Run -> Seq(Command)]
    BY <1>2, <1>6 DEF TypeOK
  <2>2. pending' \in [Run -> [Branch -> SUBSET Command]]
    BY <1>2, <1>4 DEF TypeOK
  <2>3. flying' \in SUBSET Command /\ used' \in [Run -> SUBSET (Run \cup {0})]
    BY <1>2, <1>4 DEF TypeOK
  <2> QED BY <1>2, <2>1, <2>2, <2>3 DEF TypeOK
<1>10. ServedInv'
  <2>1. \A c \in InHand' : /\ c.to = c.run
                            /\ c.step = step[c.run][c.branch] /\ c.step <= Len(Plan[c.branch])
                            /\ stage[c.run] = "probing"
    <3>1. step[r][b] <= Len(Plan[b])
      BY DEF Send
    <3> QED BY <1>1, <1>4, <1>7, <3>1 DEF ServedInv
  <2>2. \A p \in Run, q \in Branch : pending'[p][q] = { c \in InHand' : c.run = p /\ c.branch = q }
    <3> SUFFICES ASSUME NEW p \in Run, NEW q \in Branch
                 PROVE  pending'[p][q] = { c \in InHand \cup sent : c.run = p /\ c.branch = q }
      BY <1>7
    <3>1. pending'[p][q] = IF p = r /\ q = b THEN sent ELSE pending[p][q]
      BY <1>2 DEF TypeOK
    <3>2. pending[p][q] = { c \in InHand : c.run = p /\ c.branch = q } /\ pending[r][b] = {}
      BY DEF ServedInv, Send
    <3>3. CASE p = r /\ q = b
      BY <3>1, <3>2, <3>3, <1>4
    <3>4. CASE ~(p = r /\ q = b)
      BY <3>1, <3>2, <3>4, <1>4
    <3> QED BY <3>3, <3>4
  <2> QED BY <1>2, <2>1, <2>2 DEF ServedInv
<1>11. ChainInv'
  <2>1. CASE Chained(r)
    <3>1. queue'[r] = queue[r] \o group /\ flying' = flying
      BY <1>2, <2>1 DEF TypeOK
    <3>2. \A p \in Run : queue'[p] # << >> => Chained(p)'
      BY <1>7, <1>8, <2>1 DEF ChainInv
    <3>3. \A p \in Run : \A i, j \in DOMAIN queue'[p] : queue'[p][i] = queue'[p][j] => i = j
      <4> SUFFICES ASSUME NEW p \in Run
                   PROVE  \A i, j \in DOMAIN queue'[p] : queue'[p][i] = queue'[p][j] => i = j
        OBVIOUS
      <4>1. CASE p = r
        BY <4>1, <3>1, <1>6
      <4>2. CASE p # r
        BY <4>2, <1>7 DEF ChainInv
      <4> QED BY <4>1, <4>2
    <3>4. \A p \in Run : \A c \in InQueue(p)' : c.to = p
      BY <1>4, <1>7, <2>1 DEF ChainInv
    <3>5. \A c \in flying' : Chained(c.to)' => queue'[c.to] # << >> /\ c = Head(queue'[c.to])
      <4> SUFFICES ASSUME NEW c \in flying, Chained(c.to)
                   PROVE  queue'[c.to] # << >> /\ c = Head(queue'[c.to])
        BY <3>1, <1>8, InHandTyped DEF InHand
      <4>1. c.to \in Run /\ queue[c.to] # << >> /\ c = Head(queue[c.to])
        BY InHandTyped DEF ChainInv, InHand
      <4>2. CASE c.to = r
        BY <4>1, <4>2, <3>1, <1>6
      <4>3. CASE c.to # r
        BY <4>1, <4>3, <1>7
      <4> QED BY <4>2, <4>3
    <3> QED BY <3>2, <3>3, <3>4, <3>5 DEF ChainInv
  <2>2. CASE ~Chained(r)
    <3>1. queue' = queue /\ flying' = flying \cup sent /\ \A p \in Run : InQueue(p)' = InQueue(p)
      BY <1>2, <1>7, <2>2
    <3>2. \A c \in flying' : Chained(c.to)' => queue'[c.to] # << >> /\ c = Head(queue'[c.to])
      <4>1. \A c \in flying : c.to \in Run
        BY InHandTyped DEF InHand
      <4> QED BY <3>1, <4>1, <1>4, <1>8, <2>2 DEF ChainInv
    <3> QED BY <3>1, <3>2, <1>8 DEF ChainInv
  <2> QED BY <2>1, <2>2
<1>12. AskInv' /\ DetectInv'
  <2>1. DetectInv'
    BY <1>2 DEF DetectInv, DetectionSound, Kind
  <2>2. AskInv'
    <3>1. \A p \in Run : used'[p] \subseteq {p}
      BY <1>2 DEF AskInv, TypeOK
    <3> QED BY <1>2, <3>1 DEF AskInv
  <2> QED BY <2>1, <2>2
<1> QED BY <1>9, <1>10, <1>11, <1>12

LEMMA ReturnsStep ==
  ASSUME IInv, NEW c \in flying, Returns(c)
  PROVE  IInv'
<1> USE DEF IInv, QueueInv
<1> DEFINE r == c.run
           b == c.branch
           left == pending[r][b] \ {c}
<1>1. /\ c \in InHand /\ c \in Command /\ r \in Run /\ b \in Branch /\ c.to = r
  BY InHandTyped DEF InHand, ServedInv
<1>2. /\ flying' = flying \ {c}
      /\ queue' = IF Chained(r) THEN [queue EXCEPT ![r] = Tail(@)] ELSE queue
      /\ pending' = [pending EXCEPT ![r][b] = left]
      /\ step' = [step EXCEPT ![r][b] = IF left = {} THEN @ + 1 ELSE @]
      /\ UNCHANGED <<asked, actual, stage, os, rejected, missed, tries, store, settled, used>>
  BY <1>1 DEF Returns, detection
<1> HIDE DEF r, b
<1>3. \A p \in Run : Chained(p)' <=> Chained(p)
  BY <1>2 DEF Chained, Kind
<1>4. \A p \in Run \ {r} : c \notin InQueue(p)
  BY <1>1 DEF ChainInv
<1>5. /\ Chained(r) => /\ queue[r] \in Seq(Command) /\ queue[r] # << >> /\ c = Head(queue[r])
                       /\ queue'[r] = Tail(queue[r])
      /\ \A p \in Run \ {r} : queue'[p] = queue[p] /\ InQueue(p)' = InQueue(p)
  <2>1. \A p \in Run \ {r} : queue'[p] = queue[p]
    BY <1>2 DEF TypeOK
  <2>2. queue[r] \in Seq(Command) /\ (Chained(r) => queue'[r] = Tail(queue[r]))
    BY <1>1, <1>2 DEF TypeOK
  <2>3. Chained(r) => queue[r] # << >> /\ c = Head(queue[r])
    BY <1>1 DEF ChainInv
  <2> QED BY <2>1, <2>2, <2>3 DEF InQueue
<1>6. Chained(r) => /\ Tail(queue[r]) \in Seq(Command)
                    /\ InQueue(r)' = InQueue(r) \ {c}
                    /\ \A i, j \in DOMAIN Tail(queue[r]) : Tail(queue[r])[i] = Tail(queue[r])[j] => i = j
  <2> SUFFICES ASSUME Chained(r) PROVE
                    /\ Tail(queue[r]) \in Seq(Command)
                    /\ InQueue(r)' = InQueue(r) \ {c}
                    /\ \A i, j \in DOMAIN Tail(queue[r]) : Tail(queue[r])[i] = Tail(queue[r])[j] => i = j
    OBVIOUS
  <2>1. \A i, j \in DOMAIN queue[r] : queue[r][i] = queue[r][j] => i = j
    BY <1>1 DEF ChainInv
  <2>2. /\ Tail(queue[r]) \in Seq(Command)
        /\ \A i, j \in DOMAIN Tail(queue[r]) : Tail(queue[r])[i] = Tail(queue[r])[j] => i = j
    BY <1>5, <2>1, TailOfChain
  <2>3. { Tail(queue[r])[i] : i \in DOMAIN Tail(queue[r]) }
          = { queue[r][i] : i \in DOMAIN queue[r] } \ {Head(queue[r])}
    BY <1>5, <2>1, TailOfChain
  <2>4. InQueue(r)' = { Tail(queue[r])[i] : i \in DOMAIN Tail(queue[r]) }
    BY <1>5, Zenon DEF InQueue
  <2> QED BY <1>5, <2>2, <2>3, <2>4 DEF InQueue
<1>7. ~Chained(r) => /\ queue' = queue /\ c \notin InQueue(r) /\ InQueue(r)' = InQueue(r)
  <2>1. ~Chained(r) => queue[r] = << >>
    BY <1>1 DEF ChainInv
  <2> QED BY <1>2, <2>1 DEF InQueue
<1>8. /\ InHand' = InHand \ {c}
      /\ \A p \in Run : InQueue(p)' \subseteq InQueue(p)
  BY <1>1, <1>2, <1>4, <1>5, <1>6, <1>7 DEF InHand
<1>9. /\ \A p \in Run, q \in Branch :
           /\ pending'[p][q] = IF p = r /\ q = b THEN left ELSE pending[p][q]
           /\ step'[p][q] = IF p = r /\ q = b /\ left = {} THEN step[p][q] + 1 ELSE step[p][q]
      /\ pending' \in [Run -> [Branch -> SUBSET Command]]
      /\ step' \in [Run -> [Branch -> Nat \ {0}]]
  <2>1. left \in SUBSET Command /\ step[r][b] \in Nat \ {0}
    BY <1>1 DEF TypeOK
  <2>2. (IF left = {} THEN step[r][b] + 1 ELSE step[r][b]) \in Nat \ {0}
    BY <2>1
  <2> QED BY <1>1, <1>2, <2>1, <2>2 DEF TypeOK
<1>10. TypeOK'
  <2>1. queue' \in [Run -> Seq(Command)]
    BY <1>1, <1>2, <1>6 DEF TypeOK
  <2> QED BY <1>2, <1>9, <2>1 DEF TypeOK
<1>11. ServedInv'
  <2>1. \A p \in Run, q \in Branch : pending'[p][q] = { d \in InHand' : d.run = p /\ d.branch = q }
    <3> SUFFICES ASSUME NEW p \in Run, NEW q \in Branch
                 PROVE  pending'[p][q] = { d \in InHand \ {c} : d.run = p /\ d.branch = q }
      BY <1>8
    <3>1. pending[p][q] = { d \in InHand : d.run = p /\ d.branch = q }
      BY DEF ServedInv
    <3>2. CASE p = r /\ q = b
      BY <3>1, <3>2, <1>9
    <3>3. CASE ~(p = r /\ q = b)
      BY <3>1, <3>3, <1>9 DEF r, b
    <3> QED BY <3>2, <3>3
  <2>2. \A d \in InHand' : /\ d.to = d.run
                            /\ d.step = step'[d.run][d.branch] /\ d.step <= Len(Plan[d.branch])
                            /\ stage'[d.run] = "probing"
    <3> SUFFICES ASSUME NEW d \in InHand, d # c
                 PROVE  /\ d.to = d.run
                        /\ d.step = step'[d.run][d.branch] /\ d.step <= Len(Plan[d.branch])
                        /\ stage'[d.run] = "probing"
      BY <1>8
    <3>1. d.run \in Run /\ d.branch \in Branch
      BY InHandTyped
    <3>2. d.run = r /\ d.branch = b => left # {}
      BY <1>1 DEF ServedInv
    <3>3. step'[d.run][d.branch] = step[d.run][d.branch]
      BY <1>9, <3>1, <3>2
    <3> QED BY <1>2, <3>3 DEF ServedInv
  <2> QED BY <2>1, <2>2 DEF ServedInv
<1>12. ChainInv'
  <2>1. \A p \in Run : queue'[p] # << >> => Chained(p)'
    BY <1>3, <1>5, <1>7 DEF ChainInv
  <2>2. \A p \in Run : \A i, j \in DOMAIN queue'[p] : queue'[p][i] = queue'[p][j] => i = j
    <3> SUFFICES ASSUME NEW p \in Run
                 PROVE  \A i, j \in DOMAIN queue'[p] : queue'[p][i] = queue'[p][j] => i = j
      OBVIOUS
    <3>1. CASE p = r /\ Chained(r)
      BY <3>1, <1>5, <1>6
    <3>2. CASE ~(p = r /\ Chained(r))
      BY <3>2, <1>5, <1>7 DEF ChainInv
    <3> QED BY <3>1, <3>2
  <2>3. \A p \in Run : \A d \in InQueue(p)' : d.to = p
    BY <1>8 DEF ChainInv
  <2>4. \A d \in flying' : Chained(d.to)' => queue'[d.to] # << >> /\ d = Head(queue'[d.to])
    <3> SUFFICES ASSUME NEW d \in flying, d # c, Chained(d.to)
                 PROVE  queue'[d.to] # << >> /\ d = Head(queue'[d.to])
      BY <1>2, <1>3, InHandTyped DEF InHand
    <3>1. d.to \in Run /\ queue[d.to] # << >> /\ d = Head(queue[d.to])
      BY InHandTyped DEF ChainInv, InHand
    <3>2. d.to # r
      BY <3>1, <1>5
    <3> QED BY <3>1, <3>2, <1>5
  <2> QED BY <2>1, <2>2, <2>3, <2>4 DEF ChainInv
<1>13. AskInv' /\ DetectInv'
  BY <1>2 DEF AskInv, DetectInv, DetectionSound, Kind
<1> QED BY <1>10, <1>11, <1>12, <1>13
-----------------------------------------------------------------------------
LEMMA StepInv == IInv /\ [Next]_vars => IInv'
<1> SUFFICES ASSUME IInv, [Next]_vars PROVE IInv'
  OBVIOUS
<1>1. ASSUME NEW r \in Run, Ask(r) PROVE IInv'
  BY <1>1, AskStep
<1>2. ASSUME NEW r \in Run, Connect(r) PROVE IInv'
  BY <1>2, ConnectStep
<1>3. ASSUME NEW r \in Run, Uname(r) PROVE IInv'
  BY <1>3, UnameStep
<1>4. ASSUME NEW r \in Run, Powershell(r) PROVE IInv'
  BY <1>4, PowershellStep
<1>5. ASSUME NEW r \in Run, StartNext(r) PROVE IInv'
  BY <1>5, StartNextStep
<1>6. ASSUME NEW r \in Run, Report(r) \/ Lose(r) PROVE IInv'
  BY <1>6, EndSteps
<1>7. ASSUME NEW r \in Run, NEW b \in Branch, Send(r, b) PROVE IInv'
  BY <1>7, SendStep
<1>8. ASSUME NEW c \in flying, Returns(c) PROVE IInv'
  BY <1>8, ReturnsStep
<1>9. CASE UNCHANGED vars
  BY <1>9 DEF vars, detection, probes, IInv, TypeOK, QueueInv, ServedInv, ChainInv, AskInv,
       DetectInv, DetectionSound, InHand, InQueue, Chained, Kind
<1> QED BY <1>1, <1>2, <1>3, <1>4, <1>5, <1>6, <1>7, <1>8, <1>9 DEF Next, Proceed

LEMMA Invariant == Spec => []IInv
BY InitInv, StepInv, PTL DEF Spec

\* The types hold: a question's chain holds commands, and contexts are known by number.
THEOREM ExecTypes == Spec => []TypeOK
<1>1. IInv => TypeOK
  BY DEF IInv
<1> QED BY <1>1, Invariant, PTL

\* What a branch waits for is under way or in the chain of its own context, whatever
\* failed, was killed or lost its race before (runShell, execContext.ts 306-324).
THEOREM ExecInvariant == Spec => []QueueInv
<1>1. IInv => QueueInv
  BY DEF IInv
<1> QED BY <1>1, Invariant, PTL

\* Two commands of one Windows host's context are never under way at once; with two
\* contexts, nobody waits for the answer of one of the questions any more.
THEOREM ShellsInTurn == Spec => []OneShell
<1>1. IInv => OneShell
  <2> SUFFICES ASSUME IInv, NEW c \in flying, NEW d \in flying,
                      Chained(c.to), Chained(d.to), c # d
               PROVE  c.run # d.run /\ (settled[c.run] # "pending" \/ settled[d.run] # "pending")
    BY DEF OneShell, IsShell, Chained
  <2>1. /\ c.run \in Run /\ d.run \in Run /\ c.to = c.run /\ d.to = d.run
        /\ stage[c.run] = "probing" /\ stage[d.run] = "probing"
    BY InHandTyped DEF InHand, IInv, QueueInv, ServedInv
  <2>2. c = Head(queue[c.to]) /\ d = Head(queue[d.to])
    BY DEF IInv, QueueInv, ChainInv
  <2>3. c.run # d.run
    BY <2>1, <2>2
  <2>4. c.run < d.run \/ d.run < c.run
    BY <2>1, <2>3, ExecAssumption DEF Run
  <2>5. settled[c.run] # "pending" \/ settled[d.run] # "pending"
    BY <2>1, <2>4 DEF IInv, QueueInv, AskInv
  <2> QED BY <2>3, <2>5
<1> QED BY <1>1, Invariant, PTL

\* SshContext.connect takes no host for a system it does not have, and recognises a
\* Windows host with at most one round trip lost, whichever it is.
THEOREM HostsRecognised == Spec => []DetectionSound
<1>1. IInv => DetectionSound
  BY DEF IInv, QueueInv, DetectInv
<1> QED BY <1>1, Invariant, PTL

\* The probes of a question use the context that withRunContext stored for it, also
\* after it has lost its race and another question has started.
THEOREM ProbesAtHome == Spec => []ProbesStayHome
<1>1. IInv => ProbesStayHome
  BY DEF IInv, QueueInv, AskInv, ProbesStayHome
<1> QED BY <1>1, Invariant, PTL
=============================================================================

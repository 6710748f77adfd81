----------------------------- MODULE LogEvidence -----------------------------
(***************************************************************************)
(* runLogProbe and fromLogs: from the power events and the log lines of a  *)
(* host to the signature that recurs most, by relevance, and to what the   *)
(* log specialist makes of it.                                             *)
(*                                                                         *)
(* A log text is a sequence of blocks <<signature, n>>, n lines that       *)
(* normalize to the same signature. A signature is known by the patterns   *)
(* its lines match. Weights are in thousandths, scores in per cent.        *)
(***************************************************************************)
EXTENDS ProbeContext, Sequences, FiniteSets

CONSTANTS Signature,      \* what normalize makes of lines
          Matches,        \* the patterns the lines of a signature match
          Texts,          \* log texts a host may have
          LogFiles,       \* what its log files may be: sequences of texts
          Events,         \* sequences of power events of the last 24 hours
          Log100,         \* 100 times the decimal logarithm, on 1 .. LogBound
          LogBound,       \* from here on no score grows any more
          MaxFiles,       \* log files looked at, 8 in the code
          TopSignatures   \* signatures reported, 5 in the code

VARIABLES host,           \* what is there: power events, logs, a window to capture
          power,          \* the power summary, <<>> or <<drops>>
          files,          \* log files still to be read
          counts,         \* counted signatures in the order they were met
          read,           \* the texts read so far
          source,         \* where the lines came from
          top             \* the ranked signatures of the report

logVars == <<host, power, files, counts, read, source, top>>

Category == {"dns", "crash", "tls", "network", "auth", "transport", "generic", "benign"}
Pattern == (Category \ {"generic"}) \cup {"marked", "reconnect", "issue"}
EventKind == {"sleep", "wake", "offline"}
Block == Signature \X (Nat \ {0})
ASSUME LogAssumption ==
    /\ Matches \in [Signature -> SUBSET Pattern]
    /\ Texts \subseteq Seq(Block)
    /\ LogFiles \subseteq Seq(Texts \cup {<<>>})
    /\ Events \subseteq Seq(EventKind)
    /\ MaxFiles \in Nat \ {0} /\ TopSignatures \in Nat \ {0}
    /\ LogBound \in Nat \ {0} /\ Log100 \in [1 .. LogBound -> Nat]
    \* The scores are at their upper bounds there: 50 + 40 and 70 + 22.
    /\ Log100[LogBound] >= 267

-----------------------------------------------------------------------------
(* classifySignature: benign first and without the boost, else the         *)
(* heaviest fault matched, more if the client marks the line with "!!".    *)
FaultWeight == [dns |-> 3000, crash |-> 2800, tls |-> 2600, network |-> 2500,
                auth |-> 2400, transport |-> 2200, generic |-> 1000]
FaultOf(s) ==
    LET names == {"generic"} \cup (Matches[s] \cap DOMAIN FaultWeight)
    IN  CHOOSE c \in names : \A d \in names : FaultWeight[c] >= FaultWeight[d]
CategoryOf(s) == IF "benign" \in Matches[s] THEN "benign" ELSE FaultOf(s)
\* Mutant of WeightOf: the benign patterns are not asked first.
WeightOfFault(s) ==
    IF "marked" \in Matches[s] THEN (FaultWeight[FaultOf(s)] * 115) \div 100
    ELSE FaultWeight[FaultOf(s)]
WeightOf(s) ==
    IF "benign" \in Matches[s] THEN 150
    ELSE IF "marked" \in Matches[s] THEN (FaultWeight[FaultOf(s)] * 115) \div 100
    ELSE FaultWeight[FaultOf(s)]

(* scanText: lines that name no problem are passed over; counts is a map   *)
(* that keeps the order in which its keys came.                            *)
\* Mutant of Counted: a key met again starts over.
CountedAnew(tally, block) ==
    LET at == {i \in DOMAIN tally : tally[i][1] = block[1]}
    IN  IF "issue" \notin Matches[block[1]] THEN tally
        ELSE IF at = {} THEN Append(tally, block)
        ELSE [i \in DOMAIN tally |-> IF i \in at THEN block ELSE tally[i]]
Counted(tally, block) ==
    LET at == {i \in DOMAIN tally : tally[i][1] = block[1]}
    IN  IF "issue" \notin Matches[block[1]] THEN tally
        ELSE IF at = {} THEN Append(tally, block)
        ELSE [i \in DOMAIN tally |-> IF i \in at THEN <<block[1], tally[i][2] + block[2]>>
                                     ELSE tally[i]]
Scanned(tally, text) ==
    LET after[n \in 0 .. Len(text)] ==
            IF n = 0 THEN tally ELSE Counted(after[n - 1], text[n])
    IN  after[Len(text)]

(* rankSignatures: by count times weight, a stable sort, cut to the top.   *)
Relevance(entry) == entry[2] * WeightOf(entry[1])
Ranked(tally) ==
    LET Before(i, j) == \/ Relevance(tally[i]) > Relevance(tally[j])
                        \/ Relevance(tally[i]) = Relevance(tally[j]) /\ i < j
        Place(i) == 1 + Cardinality({j \in DOMAIN tally : Before(j, i)})
        kept == 1 .. (IF Len(tally) < TopSignatures THEN Len(tally) ELSE TopSignatures)
    IN  [k \in kept |-> tally[CHOOSE i \in DOMAIN tally : Place(i) = k]]

-----------------------------------------------------------------------------
(* parseMacPowerEvents, parseWindowsPowerEvents, parseLinuxPowerEvents.    *)
(* "sleep" and "wake" are what each system logs of either; macOS counts    *)
(* instead that the client went offline.                                   *)
DropEvent == IF ctx.os = "macos" THEN "offline" ELSE "sleep"
Drops(events) == Cardinality({i \in DOMAIN events : events[i] = DropEvent})

(* capture, unified: texts of the live stream and of the last day on       *)
(* macOS; files: the log files, <<>> standing for one that cannot be read. *)
Hosts == [events : Events, window : BOOLEAN, capture : Texts \cup {<<>>},
          unified : Texts \cup {<<>>}, files : LogFiles]

LogEvidenceInit ==
    /\ host \in Hosts
    /\ (~host.window \/ ctx.os # "macos") => host.capture = <<>>
    /\ ctx.os # "macos" => host.unified = <<>>
    /\ power = <<>> /\ files = <<>> /\ counts = <<>> /\ read = <<>>
    /\ source = "none" /\ top = <<>>

(* harvestMacPowerEvents and its two sisters: nothing on other systems,    *)
(* nothing when the command fails.                                         *)
HarvestPower == \E missed \in BOOLEAN :
    /\ pc = "start" /\ (missed => ctx.os # "unknown")
    /\ power' = IF missed \/ ctx.os = "unknown" THEN <<>> ELSE <<Drops(host.events)>>
    /\ Goto(IF host.window /\ ctx.os = "macos" THEN "capture" ELSE "find", missed)
    /\ UNCHANGED <<host, files, counts, read, source, top>>

(* One text is all the lines there are: the live capture, or the unified   *)
(* log. Nothing comes of an empty one, nor of a command that failed.       *)
Only(text, from) ==
    /\ counts' = Scanned(<<>>, text)
    /\ read' = <<text>>
    /\ source' = from
    /\ top' = Ranked(Scanned(<<>>, text))

(* captureMacUnifiedLog, and the fall back to the history.                 *)
LiveCapture ==
    /\ pc = "capture" /\ host.capture # <<>>
    /\ Only(host.capture, "capture")
    /\ Goto("reported", FALSE)
    /\ UNCHANGED <<host, power, files>>
CaptureEmpty == \E missed \in BOOLEAN :
    /\ pc = "capture" /\ (host.capture = <<>> \/ missed)
    /\ Goto("find", missed)
    /\ UNCHANGED logVars

(* findLogFilesLocal, findLogFilesRemote: at most MaxFiles of the matching *)
(* files. An unknown system has no directories to look in.                 *)
FindFiles ==
    /\ pc = "find"
    /\ files' = IF Remote /\ ctx.os = "unknown" THEN <<>>
                ELSE SubSeq(host.files, 1, IF Len(host.files) > MaxFiles
                                           THEN MaxFiles ELSE Len(host.files))
    /\ source' = IF files' = <<>> THEN "none" ELSE "files"
    /\ Goto(IF files' = <<>> THEN "nofiles" ELSE "read", FALSE)
    /\ UNCHANGED <<host, power, counts, read, top>>
FindFilesLost ==
    /\ pc = "find" /\ Remote /\ ctx.os # "unknown"
    /\ Goto("nofiles", TRUE)
    /\ UNCHANGED logVars

(* Without files: diagnoseRemoteLogRoots words why, and on macOS the       *)
(* unified log takes their place (harvestMacUnifiedLog).                   *)
UnifiedLog ==
    /\ pc = "nofiles" /\ host.unified # <<>>
    /\ Only(host.unified, "history")
    /\ Goto("reported", FALSE)
    /\ UNCHANGED <<host, power, files>>
NothingFound == \E missed \in BOOLEAN :
    /\ pc = "nofiles" /\ (host.unified = <<>> \/ missed)
    /\ missed => ctx.os = "macos"
    /\ Goto("reported", missed)
    /\ UNCHANGED logVars

(* The files are scanned one after the other into one map.                 *)
ReadFile == \E missed \in BOOLEAN :
    /\ pc = "read" /\ files # <<>> /\ (missed => Remote)
    /\ counts' = IF missed THEN counts ELSE Scanned(counts, Head(files))
    /\ read' = IF missed THEN read ELSE Append(read, Head(files))
    /\ files' = Tail(files)
    /\ Goto(pc, missed)
    /\ UNCHANGED <<host, power, source, top>>
RankFiles ==
    /\ pc = "read" /\ files = <<>>
    /\ top' = Ranked(counts)
    /\ Goto("reported", FALSE)
    /\ UNCHANGED <<host, power, files, counts, read, source>>

-----------------------------------------------------------------------------
(* fromLogs. Without a source it ends before it looks at the power events. *)
standbyExplainsDrops == power # <<>> /\ power[1] > 0
\* Mutant of ReconnectNoise: the power events are not considered.
NeverNoise(s) == s \in {}
ReconnectNoise(s) == standbyExplainsDrops /\ "reconnect" \in Matches[s]
AtMost(n, bound) == IF n < bound THEN n ELSE bound
LogOf(n) == Log100[AtMost(n, LogBound)]
SignatureScore(s, n) ==
    IF ReconnectNoise(s) THEN 35
    ELSE AtMost(90, 50 + (15 * LogOf(n)) \div 100 + (WeightOf(s) - 1000) \div 200)
StandbyScore(n) == AtMost(92, 70 + (20 * LogOf(n + 1)) \div 100)

fromLogs ==
    LET dominant == top[1]
        blamed == top # <<>> /\ CategoryOf(dominant[1]) # "benign" /\ dominant[2] >= 3
    IN  IF source = "none" THEN {}
        ELSE (IF blamed THEN {Cause("signature", {dominant[1]},
                                    SignatureScore(dominant[1], dominant[2]))}
              ELSE {})
             \cup (IF standbyExplainsDrops
                   THEN {Cause("standby", {}, StandbyScore(power[1]))} ELSE {})
LogNotes ==
    (IF source # "none" /\ top # <<>> /\ CategoryOf(top[1][1]) = "benign"
     THEN {"only-benign"} ELSE {})
    \cup (IF source # "none" /\ top = <<>> THEN {"no-errors"} ELSE {})
    \cup (IF source # "none" /\ power = <<0>> THEN {"standby-ruled-out"} ELSE {})

LogReports ==
    /\ pc = "reported"
    /\ Report(fromLogs, LogNotes)
    /\ UNCHANGED logVars

LogEvidenceNext ==
    \/ HarvestPower \/ LiveCapture \/ CaptureEmpty \/ FindFiles \/ FindFilesLost
    \/ UnifiedLog \/ NothingFound \/ ReadFile \/ RankFiles \/ LogReports
-----------------------------------------------------------------------------
(* What was read of a signature, from the texts themselves.                *)
LinesIn(s, text) ==
    LET upto[n \in 0 .. Len(text)] ==
            IF n = 0 THEN 0
            ELSE IF text[n][1] = s THEN upto[n - 1] + text[n][2] ELSE upto[n - 1]
    IN  IF "issue" \in Matches[s] THEN upto[Len(text)] ELSE 0
LinesOf(s) ==
    LET upto[n \in 0 .. Len(read)] ==
            IF n = 0 THEN 0 ELSE upto[n - 1] + LinesIn(s, read[n])
    IN  upto[Len(read)]

(* What a cause claims is in the events or in the lines that were read.    *)
LogCausesReal ==
    \A c \in causes :
        IF c.kind = "standby" THEN Drops(host.events) > 0
        ELSE \A s \in c.about : LinesOf(s) >= 3

(* A fault that recurs four times leads to a cause, unless benign lines    *)
(* are thirteen times as many.                                             *)
LogFaultsNamed ==
    (\E s \in Signature :
        /\ CategoryOf(s) \notin {"benign", "generic"} /\ LinesOf(s) >= 4
        /\ \A b \in Signature : CategoryOf(b) = "benign" => LinesOf(b) < 13 * LinesOf(s))
    => \E c \in causes : c.kind = "signature"

(* The inductive invariant: the map holds each signature read once, with   *)
(* the number of its lines, and the report ranks what the map holds.       *)
Tallied ==
    /\ counts \in Seq(Block)
    /\ \A i, j \in DOMAIN counts : counts[i][1] = counts[j][1] => i = j
    /\ \A i \in DOMAIN counts : counts[i][2] = LinesOf(counts[i][1])
    /\ \A s \in Signature : LinesOf(s) > 0 => \E i \in DOMAIN counts : counts[i][1] = s
LogInv ==
    /\ pc \in {"start", "capture", "find", "nofiles", "read", "reported", "done"}
    /\ host \in Hosts
    /\ power \in {<<>>, <<Drops(host.events)>>}
    /\ files \in Seq(Texts \cup {<<>>}) /\ Len(files) <= MaxFiles
    /\ read \in Seq(Seq(Block))
    /\ Tallied
    /\ pc \notin {"read", "reported", "done"} => read = <<>>
    /\ source = "none" => read = <<>>
    /\ pc = "read" => source = "files"
    /\ pc \in {"reported", "done"} => top = Ranked(counts)
    /\ pc \notin {"reported", "done"} => top = <<>>
    /\ Reported => causes = fromLogs
=============================================================================

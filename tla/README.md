# TW-CLI in TLA+

TW-CLI is a command line program that diagnoses TeamViewer installations. It
runs probes on a machine, lets agents on a local language model interpret them,
and answers questions from a local index of the official documentation. This
directory holds a formal model of the parts of it that keep state, run
concurrently or must survive failure: TLA+ modules, TLC configurations that
check them on small instances, and proofs checked by TLAPS. Paths such as
`jobs/jobStore.ts` are relative to `src/src`.

## 1. The system

| Component | State | Operations | Interacts with |
|---|---|---|---|
| job store (`jobs/jobStore.ts`) | `jobs.json`, `jobs.json.tmp`, the directory `jobs.json.lock`, one log per job | `addJob`, `updateJob`, readers without lock | every process of the program, through files |
| job lifecycle (`cli.ts`, `jobs/dispatch.ts`, `worker*.ts`, `jobs/killTree.ts`) | status and pid of a job, the processes around it | enqueue, `--wait`, worker, cancel | job store, configuration, workflow |
| workflow (`agents/mastraAdapter.ts`, `mastra/runtime.ts`, `mastra/workflows`, `agents/routing.ts`) | phase of the run, results of the branches, the race with the timer | classify, specialists in parallel, aggregate | probes, local model |
| structured answers (`mastra/util/llmJson.ts`) | number of attempts | `generateStructured` | local model |
| evidence probes (`probes/*.ts`, `mastra/tools/specialistTools.ts`) | what a probe has gathered so far | logs with an optional live capture, connectivity, endpoint health, auth policy; the causes drawn from each report | execution contexts, the TeamViewer Web API |
| execution contexts (`runtime/execContext.ts`, `runtime/runContext.ts`) | detected operating system, the queue of Windows commands | local, SSH, Azure, kubectl | child processes |
| knowledge index (`knowledge/lanceStore.ts`) | the LanceDB table `core`, `lance-meta.json`, a legacy file | migrate, open, replace, append, ids present | the operations of `teamviewerDocs.ts` |
| crawl (`knowledge/teamviewerDocs.ts` 864-938) | frontier, visited pages, shared index of the fetch workers | `crawlKbDocs`, `mapLimit` | the site |
| asking and retrieval (`knowledge/teamviewerDocs.ts`, `llmCompose.ts`, `localEmbedder.ts`, `mastra/tools/knowledgeTool.ts`) | URL map and pages on disk, the promise of the embedder | retrieve, look up live, compose, verify, answer an agent | index, embedder, reader service, local model |
| local model service (`mastra/foundryLocal.ts`, `mastra/agents/index.ts`) | the endpoint file, the model object of a process | discover, the gate, resolve, invalidate | user configuration, every front end |
| front ends (`repl.ts`, `oneShot.ts`, `index.ts`, `cli.ts`) | the readline, the loop and the product of a shell | slash commands, issues, one-shot run, leaving | all of the above |
| user configuration (`userConfig.ts`) | `config.json` | load, set the model, set the last job | front ends |
| redaction, formatting, catalogues, bootstrap | none | pure functions, start-up | – |

The program is single-threaded inside one process; its concurrency is that of
processes which share files (the job store, the index, the configuration) and
of promises which interleave at every `await` (the branches of the workflow,
the fetch workers of a crawl, the enrichment that nobody awaits). What makes it
hard:

* a lock that is reclaimed after five seconds, from whoever holds it;
* detached workers that nobody supervises, and a cancel command that acts on
  what it read a moment ago;
* a race between the workflow and a timer, whose loser is not stopped;
* a local model that may answer anything, or nothing;
* index writes that follow a read of the table across several awaits;
* files without a lock (`config.json`, the endpoint file) that several front ends
  rewrite, and objects a process resolves once and keeps;
* probes of many commands, any of which may be lost, whose silence must not be
  taken for an answer.

What makes each component correct:

* **job store**: calls are atomic, whoever is killed where; no update is lost;
  a reader never finds half a file; only logs of jobs that are dropped from the
  list go; every call comes back.
* **job lifecycle**: a job goes from queued to running to an outcome, and only a
  cancellation may disturb that; a worker finds its job; a worker that ends
  leaves an outcome; a cancellation stays if the command had the pid and did not
  warn that the kill failed.
* **workflow**: no report without the answer of every specialist that ran, no
  finding of a probe overtaken by another one, no report without a cause that
  does not ask for a human, and an end to every run.
* **knowledge index**: an append keeps what is there and adds nothing twice.
* **crawl**: every page within reach is fetched once, up to the cap.
* **execution contexts**: the probes of a question run on the machine it names; a
  host is not taken for a system it does not have; commands on a Windows host run
  one at a time, and none waits for ever, whatever happened to the ones before.
* **evidence probes**: what a cause says was found is so, whichever command is lost;
  what it says is missing or was refused is so if every command answered; what is
  broken on the host leads to a cause, up to the exceptions of section 4 (a TLS failure
  seen from a remote host is the largest); the signature that is blamed is the heaviest
  of all files; standby leads the noise it makes.
* **asking**: each sentence shown is supported by a passage that was found, each
  source listed supports a sentence shown, and every question ends.
* **model service**: the model a process has chosen is the one it uses; what the
  gate vouched for is where the model is asked.
* **configuration**: one setting survives the change of another.
* **front ends**: a shell that was told to leave ends.

`PROJECT.json` lists the hazards of the code, each at its line, with the
properties that watch them.

## 2. The modules

```
JobTable ---- StoreOps --+-- AtomicStore          what a store call promises
   |                     +-- JobStore  (Store == INSTANCE AtomicStore)
   |                            +-- JobStoreProofs, MCJobStore
   +--------- JobLifecycle  (Contract == INSTANCE JobContract)
                     +-- JobLifecycleProofs, MCJobLifecycle
KnowledgeIndex ---- KnowledgeIndexProofs, MCKnowledgeIndex
Crawl ------------- CrawlProofs, MCCrawl
ReportScoring ----- Troubleshoot ---- TroubleshootProofs, MCTroubleshoot
ExecContext ------- ExecContextProofs, MCExecContext

ProbeContext -+- Connectivity ----+
              +- EndpointHealth --+
              +- AuthPolicy ------+-- Evidence -- EvidenceProofs, MCEvidence
              +- LogEvidence -----+

Processes -+- UserConfig -- LocalModel -+
           +- Retrieval ----------------+-- Ask -- MCAsk
                                             +---- Session -- SessionProofs, MCSession
```

SessionProofs holds the theorems on both Ask and Session, since the steps of a
question keep what is said of the answers and what is said of the settings alike.
A few lemmas stand in more than one module of proofs: no module can be extended by
two of them, whose systems would then share their variables.

The composition is by levels. JobStore shows that a call of the store is one
atomic step until a waiter breaks the lock; JobLifecycle takes every call of
the store as one step on that ground. JobLifecycle assumes that the run inside
a worker ends, by an answer or by an error; Troubleshoot shows it (`RaceEnds`).
Troubleshoot lets a branch probe in one step; ExecContext opens that step into the
commands of the branch and has several questions of one process side by side;
Evidence opens it into what is asked and what is made of the answers. Ask takes a run
of Troubleshoot as the way of a question through the gate, the retrieval and the
model, and takes the additions to the index as atomic, which KnowledgeIndex opens.
Session puts the front ends around Ask: it EXTENDS it, and each action of a shell
is conjoined with the action of Ask, LocalModel or UserConfig it causes.

### JobTable, StoreOps, AtomicStore, JobStore

`JobTable` has the list of jobs as a sequence of records, newest first: prepend,
keep the first `MaxRetained` (200 in the code), and which jobs that drops.
`StoreOps` says what a call makes of the list it read. A record is its id and
the set `by` of calls whose patches it contains, which is all that lost updates
tell apart.

`JobStore` executes `withLock`, `loadJobs` and `saveJobs` one file-system call
per step: `Begin`; `TakeLock` (mkdir); `DeadlinePasses`, `ReclaimRmdir`,
`ReclaimMkdir`; `Load`, or `NotFound`, which throws; `OpenTmp` (create and
truncate) and `WriteTmp` as two steps; `RenameTmp`, or `RenameFails` when the
temporary file is gone; `UnlinkLogs`; `Release` (rmdir, whoever made the
directory). `OpenLog` is the log that `startDetachedWorker` opens after
`addJob` returned. `Crash` kills a process between any two steps. Files are
inodes: `file` and `tmp` are names, `content` what is behind them, so that two
writers who share the temporary file are seen to share it. `breached` is a
history variable: some waiter has taken the lock of a living process, or has gone in
without having made the lock. A waiter that reclaims the lock of a dead holder and
meets nobody on the way does neither, so that the properties cover the recovery.
`home` is the data directory the lock lies in: `TakeLock` needs it, `Load` makes it
(`ensureDataDir`), and so do readers (`EnsureDataDir`). `FirstUse` lets it be missing
at the start; a call that waits in vain and goes in without a lock has breached.

`AtomicStore` has the list and one atomic step per call;
`Store == INSTANCE AtomicStore` maps the detailed state to it.

### JobContract, JobLifecycle

One action per step of enqueue (`AddJob`, `SetLastJob`, `Spawn`, `RecordPid`,
`WaitSees`, `WaitExpires`), of the worker (the lookup, running, the run's
success or error, the last write) and of the cancel command: `CancelReads`; then
`killProcessTree`, which answers ok (`CancelKills`, also when there is no pid to
kill) or not (`CancelWarns`: no permission, no such process, `taskkill` failed), the
worker being alive or dead in the second case; then `CancelWrites`, in both. A command
that has warned ends as "doubtful". A signal that was delivered is taken to end the
worker at once. The pid of a record is set or unset. `JobContract` is the life of a job
drawn in `ARCHITECTURE.md`, section 7, with the eviction the drawing leaves out
and the freedom a cancel command has with the job it has read (`CancelEdges`): it may
write "cancelled" over any status, and a worker that lives on may write over that.

### KnowledgeIndex

Three kinds of run write the core table: the enrichment after an answer, which is
not awaited (`enrichLocalIndex`), `docs refresh` and `docs reindex`. Each step
is what lies between two awaits: look for the table, migrate the legacy file,
open, ask for the ids that are there, fetch, create or add, stamp. Opening may
fail for any reason, which the code takes for absence; runs are killed
anywhere. LanceDB is external: a commit is atomic, a query sees the table that
was opened, an append to a table that was overwritten since may be refused. The
history variables `collided` and `blind` name the preconditions: a run wrote
between another's filter by id and its append; a run was told that there is no
table.

### Crawl

`crawlKbDocs`: the landing page, then level by level in batches, each batch
fetched by `mapLimit` workers that share one index. Any fetch may fail. The landing
page is one of those visited. A page is visited first and the cap compared
afterwards (`Room`), so that a level which begins at the cap visits one page more.

### ReportScoring, Troubleshoot

`Troubleshoot` is one run of `runMastraAgent`: preflight, classification,
specialists (probe or live capture, then the model), aggregation with merge,
evidence filter, rerank, the slice to three causes, escalation and summary; and
the timer it races. Losing the race does not stop the workflow, as in the code:
its steps go on and what it returns is dropped. `generateStructured` is the
count of unusable answers. A score is a whole number of per cent instead of a
fraction. `filterRootCausesAgainstEvidence` decides by wording; the model lets it
keep any subset of the candidates, so that what is checked does not depend on the
wording. Titles of causes are taken to be unique.

### ExecContext

A question of the REPL (or the one of a one-shot run or worker) goes through `Ask`,
`Connect`, `Uname` and `Powershell` (the two stages of `SshContext.connect`) to its
probes. `createExecutionContext` maps a target with or without `--user` to a
backend, and `Kind` is what the front ends make of it. `Send` is a branch that
sends the commands of its next step through `getCurrentContext`; `Chained` says
whether they are put on the promise chain `winQueue` (`StartNext` is the link
reached) or start at once; `Returns` is any end of a command, since `runShell`
answers errors and limits with a result. `Lose` is a lost race: the next question
may be asked while the workflow still sends. The history variables are `actual`
(what the host really is), `missed` (round trips without an answer) and `used` (the
contexts the probes of a question sent to). The system of a host whose detection
fails is `"unknown"`; `Plan` is then more than the probes send, never less. Words of
`ssh` itself on standard error are taken not to contain the name of a system.

### ProbeContext, Connectivity, EndpointHealth, AuthPolicy, LogEvidence, Evidence

`ProbeContext` has what the four probes share: the context (local or remote, and the
system it was detected as), whether a command was lost (`lost`), and the report, a
set of causes `[kind, about, score]` and of notes. What the host is really like is
chosen once, in `Init`; the steps find it out.

* `Connectivity` (`probes/connectivity.ts`, `fromConnectivity`): names, then the
  ports of what resolved, then HTTPS. Within a category the checks run side by side
  (`CheckAnswers`, `CheckTimesOut`), on a remote Windows host in one command that may
  be killed after some of its lines (`BatchReturns`). `up`, `trusted` and `tlsExit` are
  the truth about a check: it would succeed but for the certificate, the certificate
  is accepted, it fails with a TLS error (curl 35, 51 and 60). From a remote host such
  an error sets `tlsValidationFailed` whether or not the server answers `curl -k`
  afterwards, which Windows does not try.
* `EndpointHealth` (`probes/endpointHealth.ts`, `fromEndpointHealth`): services,
  processes and the version by the commands of each system, any of them lost.
* `AuthPolicy` (`probes/authPolicy.ts`, `fromAuth`): the token, the account, the
  devices and the policy paths of the Web API. The API is external: what it would
  answer is chosen in `Init`. A device is online, offline or something else (busy,
  away, no state at all), of which `Summary` keeps whether it is online; `/devices` may
  be refused although the account is known (`scope`).
* `LogEvidence` (`probes/logs.ts`, `fromLogs`): the power events, the live capture
  with its fall back, the log files or the unified log, `classifySignature`,
  `scanText`, `rankSignatures`, the score of the dominant signature and the standby
  rule. A log is a sequence of blocks "n lines of this signature"; a signature is the
  set of patterns its lines match. Logarithms are a table, scores whole per cents.
* `Evidence`: one of the four at a time. The branches of a run share nothing but the
  context, which they only read; `Troubleshoot` has them side by side.

A cause's steps of remediation are wording and left out. Linux service states other
than active are one value, "Stopped". The note that standby was ruled out is there
whenever a power summary without drops was read.

### Processes, UserConfig, LocalModel

`UserConfig` is `config.json`: `LoadConfig` reads the file and changes one field,
`TruncateConfig` and `WriteConfig` are the two halves of `writeFileSync`, and
`KilledSaving` is a death in between. `raced` is a history variable: two saves
overlapped, one was cut short, or the file was read while it was being written.

`LocalModel`: `Discovered` is `discoverFoundryEndpoint` (environment, `foundry
service status`, file); `GateFinds`, `GateRefuses`, `ProbeReaches` and `ProbeFails`
are `ensureFoundryLocalReady`; `ModelKnown`, `ModelResolved` and `ModelUnresolved`
are `resolveModel` with its cache; `ModelChosen` is the end of `setActiveModelId`
and `invalidateModelCache`. `ServiceMoves` is external: the service stops, or starts
on another port. `picked` and `vouched` are history variables of the properties.

### Retrieval, Ask

`Retrieval` is `retrieveKnowledgeHits`: `fuseHybrid` with its reciprocal ranks,
`searchKnowledge`, `rerank` with `hitRelevance`, `isConfident`, and the live lookup:
the URL map and its age, the landing page, the candidates by title, the page cache,
the retries of a page, the embedding and ranking of what is new, and the enrichment
nobody waits for. A passage is a number, and how it fits a question is a record of
four numbers (`Match`), so that the arithmetic of the thresholds is the code's and
the tokenising is not in the model; questions outside `Worded` have no word to search
for, and find nothing without anything being looked at (`NothingToSearch`). An index of
more than `ScanMax` passages is cut to the `Nearest` in meaning (`Pools`). The embedder
is loaded once per process, and a load that failed stays; with one that is loaded the
search may throw all the same (`SearchThrows`: the question is not embedded, or the
rows are gone or without vectors when they are read after the count).

`Ask` is what a process does with a question: the gate, the retrieval, the context of
the first hits, the model object, the answer, `verifyGrounding` and
`orderedCitations`; for a run the same way without the grounding, with an agent that
may call `teamviewerDocsTool` (`Consult`, `answerFromKnowledge`) and a timer that gives
it up and leaves a straggler behind (`RunTimesOut`, `StragglerResolves`). One
specialist stands for the four. `said` is the set of sentences kept, before the loop
at the end of an answer is collapsed. Initial states are those of a first use of the
process; what is on disk may be there or not.

### Session

Shells and single commands. `shell[p]` is the place of a front end: at its prompt, at
the question for the product, saving, asking, leaving, over. A line of the user is
one action per kind (`DocsLine`, `ModelLine`, `EnqueueLine`, `IssueLine`,
`ProductLine`, `ExitLine`), enabled only while the readline is open; `--model` with a
run is two lines. `CloseInput` is Ctrl+C twice, or Ctrl+D. No front end calls
`process.exit` on its way out: `Ends` waits for what the process has begun. `Killed` is
a death in the middle of a save.

## 3. What is checked

| Run | Question | Result |
|---|---|---|
| `job_store` | inductive invariant, exclusion, intact file, no lost update, logs, refinement of AtomicStore, every call returns | holds |
| `two_waiters` | does `withLock` exclude after one crash? | violated |
| `job_lifecycle` | inductive invariant, outcome of workers, cancellation with a pid, outcomes shown stand, refinement of JobContract, jobs settle | holds |
| `cancel_before_pid` | does a cancellation hold? | violated |
| `knowledge_index` | inductive invariant, no duplicates, nothing wiped | holds |
| `enrich_after_error` | does enrichment only append? | violated |
| `crawl` | every page accounted for, completeness below the cap, one page over the cap at most | holds |
| `troubleshoot` | inductive invariant, no degraded report, order of findings, the race ends | holds |
| `exec_context` | inductive invariant, one Windows command at a time, detection, probes stay with their question, all probes end | holds |
| `evidence` | inductive invariant, causes are real, faults are named, the heaviest is blamed, standby leads | holds |
| `ask` | inductive invariant, answers are grounded, questions end | holds |
| `session` | settings are kept, the picked model serves, the gate holds, shells end | holds |

The modules and configurations of the runs are listed in `PROJECT.json`. Each property
of a passing run has a mutant there: a change to one definition, of the kind a slip in
the code would make, with which TLC finds the property violated.

The bounds, and why they are enough:

* **MCJobStore**: two adds and one update, one retained job, on a first
  use or later, 43 thousand states.
  Two waiters behind one holder are the least at which a reclaim can hit a living
  lock; one retained job makes the second add evict the first; every call may
  be killed or lose patience at each of its steps.
* **MCJobLifecycle**: two jobs, one retained, one cancel command, crashes; 188
  thousand states. Jobs meet only through eviction and through the cancel
  command, which two jobs and one command exercise.
* **MCKnowledgeIndex**: two pages, one run of each kind, a legacy file of one page;
  547 thousand states. Duplicates and wipes need two runs at most; the third
  kind is there to come between them.
* **MCCrawl**: nine pages with links back and across, cap six, depth two as in the
  code, three workers, any fetch failing: below, at and beyond the cap. The links are one
  site, chosen so that the cap falls inside a batch. The inductive invariant `CrawlInv`
  was checked on it too, with caps of 3, 6, 9 and 20; the run states what it is for.
* **MCTroubleshoot**: two specialists, one that always runs and the one that captures;
  timeout of two ticks, window of one; probes that find two causes or fail; a
  model score out of range; 354 thousand states. `Retries` is 1 as in the code.
* **MCExecContext**: two questions, over SSH to a host that is Windows or something
  unknown, or to a pod; a branch with two commands at once and one with two steps,
  the shapes of the endpoint and the connectivity probe on Windows; 162 thousand
  states. Two questions are the least of which one can be abandoned; three
  commands are the least that can overtake each other in a chain. `missed` is counted
  up to two.
* **MCEvidence**: every network over a best-effort router and two required servers,
  every certificate accepted or not, every mix of TLS errors and others; every mix of service, process, version and
  delivery model; every answer of the API over two devices, three states of each,
  with or without the scope for them, and one policy path; logs
  of up to three files, one unreadable, over five signatures, with 1 to 200 lines of
  one signature; each on a local Linux host, a remote Windows or macOS one and one
  that was not recognised. 727 thousand states. The counts lie on both sides of the
  thresholds (3 lines, the score cap, a benign line that outweighs a fault), one
  device's name contains the other's, `MaxFiles` is 2 and `TopSignatures` 2, so
  that both cuts happen. `Log100` is a step function below the logarithm's values;
  only its being monotonic, which is assumed, matters to the properties.
* **MCAsk**: one process, three questions (one without words), six passages: one of a page that may be in
  the index, two of a page fetched on demand (one a mere footer), a fact, a cached
  extract, an error page; three sentences, supported well, by two passages, and by
  nothing. One question has nothing but the error page until the live lookup succeeds,
  so that a search that found something may still leave no context. The thresholds are the code's (20, 42, 50, 60 and 40 per cent, `FuseK` 60,
  five hits, three in the context); one page is fetched with one retry instead of three
  with four. One process is enough since processes meet only in the files, which
  MCSession shares; 108 thousand states. An index of three passages is over `ScanMax`
  and is cut to two.
* **MCSession**: a shell that asks, changes the model, brings an issue or leaves, two
  lines of it in any order, and a command that chooses a model or stores a job;
  two models, two ports, a service that moves. There is no index, so that a question
  ends at the retrieval and a run goes on without passages, as both do in the
  code. Two lines are the least at which a choice can follow a run that was given up.
  172 thousand states.

Fairness:

* a store call whose process is not killed goes on (synchronous code) and the
  clock its deadline is read from runs: weak fairness of `Step(c)`. Nothing
  obliges a process to begin, to open a log or to crash;
* in the lifecycle, the processes that are not killed go on; crashes and cancel
  commands are not fair. The run inside a worker ends, which `RaceEnds` shows of
  the workflow; making an SSH connection before it has limits of its own in
  `runtime/execContext.ts`;
* in a run, the clock, the due timer, the runtime and the probes are fair; the
  model is not, since no request to it has a limit;
* the event loop and the child processes of a question go on: each command has a
  limit after which `execFile` kills it. Nobody is obliged to ask, and no timer to
  fire;
* in Ask and Session the event loop of a process turns (`AskStep(p)`, `Step(p)`): page
  fetches have a limit of their own; a request to the model has none, since
  `runtime/bootstrap.ts` disables those of the HTTP client, so that "the service
  answers or the connection breaks" is an assumption on the service, as is the end of
  a download of the embedder. `docs ask` depends on it, a run has its timer besides.
  Nothing is asked of the user, of the service or of the timer of a run. Evidence has
  no fairness, and no liveness property.

`JobStore` and `JobLifecycle` have steady states in which all calls are over, and
so have the other modules; deadlock is not checked for that reason.
`EveryCallReturns`, `Settles`, `RaceEnds`, `ProbesEnd`, `QuestionsEnd` and `ShellsEnd` say
that nothing stops earlier.

## 4. What differs from the documents

The first three have a run with a counterexample and an entry under "findings".

1. Two calls are let in after a holder died: a waiter removes its lock, another call
   makes it first, and the waiter goes in although its own `mkdir` failed
   (`jobs/jobStore.ts` 27-29). Two waiters can also remove each other's fresh lock. All the guarantees of the store are
   therefore stated with the precondition `~breached`: until that moment.
2. A cancel command that comes before the pid is recorded kills nobody, and the
   worker overwrites the cancellation (`cli.ts` 424).
3. An error in opening the table makes an append replace the index
   (`knowledge/lanceStore.ts` 187).

The rest was noticed while modelling and follows from a few lines of code each; the
model has the behaviour, and the properties are stated so that they are true of it.

*Workflow.* A capture window beyond the timeout, such as the documented two minutes,
ends every run with a timeout (`agents/mastraAdapter.ts` 10 and 27, `README.md` 132).
Guesses raised by the rerank may push the finding of a probe out of the three causes
that are kept (workflow, 722 and 510; `README.md` 267-270). The rerank has a fallback
(495-503) although the no-fallback policy of `ARCHITECTURE.md` names it. After a
timeout the abandoned run keeps the process alive, also after `/exit`.

*Targets.* A target with a scheme (`azure-vm://`, `k8s://`, `ssh://`) without `--user` is
diagnosed on the local machine (`index.ts` 51, `cli.ts` 112), and so is a bare address:
the refusal in `createExecutionContext` (951) is never reached. A target detected in a
sentence stays for later questions and overrides an explicit `/target local-device`.
"only ONE powershell.exe" (`runtime/execContext.ts` 308-314) is true of one context,
while an abandoned question and the next one each have their own, hence the second case
of `OneShell`.

*Jobs.* On a first use `mkdir` of the lock fails because the data directory is missing:
only the call inside makes it (`jobs/jobStore.ts` 21 and 45). The call waits the five
seconds and goes in without a lock. A cancel command that read a running job turns a
completed one into a cancelled one (`cli.ts` 430; `JobContract` allows it for the job
that was read). A kill that failed is only warned about: `killProcessTree` may return
`ok: false` (`jobs/killTree.ts` 15-17, 21-23), and `jobs cancel` and `/cancel` go on and
write "cancelled" (`cli.ts` 425-435, `repl.ts` 188-189) over a job whose worker lives,
finishes and writes over that in turn; hence the commands without a warning in
`CancelWithPidHolds`, and `CancelEdges`. A worker that dies between its first and its
last write leaves a job that is running for ever, since nothing supervises workers;
hence `Abandoned` in `Settles`. `--wait` prints an
unfinished job when its time is over, its branch "Still running" being taken only for
a job that has disappeared (`cli.ts` 86 and 148-154).

*Index and crawl.* A run that writes between another's filter and its append
makes it store a page twice (`knowledge/lanceStore.ts` 194-201), hence the precondition of `Deduped`. A crawl may fetch
more pages than its cap: a page is visited before the cap is compared
(`knowledge/teamviewerDocs.ts` 907-908), so that each level begun at the cap adds one.
`NearCap` says how many at most.

*Connectivity.* A best-effort router that does not resolve becomes a cause of score 88,
although `catalog/productProfiles.ts` 10-13 calls such an endpoint "INFORMATIONAL (not a
hard root cause)": `fromConnectivity` looks at `bestEffort` for ports and HTTPS only.
"All baseline connectivity probes succeeded." is also said when only best-effort or
untrusted endpoints failed. The local HTTPS check never reports a failed certificate as
such. From a remote host an endpoint that fails with a TLS exit code is no cause, whether
or not it answers without the certificate check: after a re-probe without a status the
comment at `probes/connectivity.ts` 238 says "fall through to plain failure", and the flag
is set all the same (215-246; `mapHttpsSentinel`, 380-388, on Windows without any
re-probe), while `mastra/tools/specialistTools.ts` 118-126 reads the flag as "The server
WAS reachable". Hence the second case of `ConnectivityFaultsNamed`.

*Endpoint health.* A command that was lost counts as "found nothing": three of them make
"not installed" with score 90, and so does a system that was not recognised, to which no
command is sent. The pattern `running|active` for the answer of the Linux `service`
wrapper also matches "is not running" and "inactive". The status column of `launchctl`
is the last exit status and is read as the present state. A lost answer can make
an agent that runs look missing, and hide a service that is stopped. Hence the cases of
`EndpointHealthCausesReal` and `EndpointHealthFaultsNamed`.

*Authorisation.* A lost answer to `/account` is reported as a rejected token. The device of
the target is the first one whose name contains it, of the first 25. A device that is
busy or away, or has no state, is reported as `online_state=offline`
(`mastra/tools/specialistTools.ts` 740), because `probes/authPolicy.ts` 117 keeps only
whether the state is "online"; `AuthCausesReal` therefore claims no more than that. A
token without the scope for devices leads to a diagnostic and no cause (120-122).

*Logs.* `probes/logs.ts` 55-56 and 105-109 say that a benign line can never become
dominant; a hundred benign lines weigh 15 and three of the gravest fault 9. A fault that
occurs once or twice may rank first, and then no signature is blamed at all (fewer than
three). `fromLogs` returns before it looks at the power events when there is no log
(`specialistTools.ts` 363-371), although `probes/logs.ts` 805-807 says that every path
carries them, hence the precondition of `StandbyLeads`. Unreadable files count as
inspected. On macOS every "going offline" is a drop through standby. The filter of the
Windows event query leaves out an event its parser counts.

*Asking.* An agent's answer may contain a fact whose source it does not cite
(`answerFromKnowledge` 1577). An empty harvest of the landing page replaces the URL map for
seven days (540-548). Pages that say "404" with status 200 stay in the page cache for
thirty days, and `searchKnowledge` does not filter them. Removing a loop at the end of an
answer may leave a source whose sentence is no longer shown. With `TWC_CONTEXT_HITS` above
three a sentence may be supported by a passage whose source is the fourth and is cut off
(`knowledge/llmCompose.ts` 33-36 says that citations are unaffected, 72 keeps three), hence
the assumption `ContextHits <= MaxCited`. `docs ask` has no timer.

*Model service and configuration.* After the service has moved to another port, a process
that holds a model object passes the gate and then asks the old port
(`mastra/agents/index.ts` 35), hence the end of `GateHolds` when the service moves. A
running shell does not see `models use` of another terminal. Of two saves that overlap
one is lost, and a reader may meet an emptied file (`userConfig.ts` 48-58), hence
`~raced` in `SettingsKept`. A model resolved while
`config.json` is being written is that of the environment, and is kept for the life of the
process (`raced`). A load of the embedder that failed is kept likewise.

*Shell.* Ctrl+D ends with exit code 70. Lines typed ahead during a run are lost.

## 5. What is proved

For every value of the constants that meets the named assumptions:

* **JobStoreProofs**: `TypeCorrect`, `StoreInvariant`, `LockExcludes`,
  `NeverTorn`, `UpdatesSurvive`, `LogsOfListedJobsStay`, and `Atomic`: the store
  implements `AtomicStore`. `MutualExclusion` alone is not inductive: a step of
  the holder preserves it only if the lock is its own (`LockInv`). `NoLostUpdate` needs that what the holder has loaded is still what
  the file holds (`HolderInv`), which in turn needs exclusion, that the temporary
  file is the holder's own (`FreshInv`, `FileInv`) and that a listed job was added
  by a call that succeeded (`OriginInv`). Their conjunction, under `~breached`, is
  `StoreInv`; it speaks of what dead processes have left too, the lock, half a temporary
  file and the log of an evicted job, and so covers any number of recoveries. Each action has a step that re-establishes it; the refinement maps
  `RenameTmp` to the atomic call, `NotFound` to its refusal, a reclaim that breaks the
  lock to the end of the promise, and the rest to stutters.
* **JobLifecycleProofs**: `LifecycleInvariant` (`LifeInv`: the table, the order of
  enqueue, what worker and record say of each other, what a cancel command has
  seen, and which statuses a job can have at each step of its worker), and from it
  `LifecycleTypes`, `WorkersFinish`, `WorkersFindTheirJob`, `LastJobIsListed`,
  `CancellationHolds`, `OutcomesStand` (`ShownOutcomeStands`) and
  `LifecycleFollowsContract`: the refinement of `JobContract`. The last two need
  `FateInv`: an outcome in the list is that of a worker that will not write again,
  and without a cancel command the status follows the worker. The lemma
  `ContractStep` maps each write to an edge of the contract, a write that evicts
  jobs to a move of one job with others leaving, `CancelReads` to the contract's
  `Disturb`, and the other steps to stutters. `CancellationHolds` is about commands that
  had a pid and did not warn: `CancelInv` says that after a kill that succeeded the
  worker does not live, and claims nothing after one that failed. The lemma
  `KillShape` is what both kinds of kill do to the workers.
* **KnowledgeIndexProofs**: `IndexTypes`; `AppendsKeep` (`NothingWiped`), for any
  runs side by side; `IndexInvariant` and `AppendsDedup` (`Deduped`): until a run
  writes between another's filter and its append, what a run is about to append is
  not stored yet, however old the scan is that it started from.
* **TroubleshootProofs**: `RunTypes`, `RunInvariant`, `NothingDegraded`,
  `ProbeOrder`, `Escalates`, for any set of specialists, buckets, answers and
  windows. `RunInv` says that whoever is still in the run has retries left
  (`RetryInv`), that exactly the active branches have ended when the aggregation
  begins (`BranchInv`, which rests on the lemma `RoutingAgrees`: the two copies of
  the routing rule in the code are one rule), that the rerank leaves anchored
  causes alone (`CauseInv`), and that a report was made from the state it was
  returned in (`ReportInv`).
* **ExecContextProofs**: `ExecTypes`, `ExecInvariant`, `ShellsInTurn`,
  `HostsRecognised`, `ProbesAtHome`, for any number of questions, branches, plans,
  requests and hosts. `OneShell` is not inductive by itself: it needs that a command
  under way is the head of its chain and that a chain has no command twice
  (`ChainInv`), which needs that what a branch waits for is exactly what is under way
  or queued for it (`ServedInv`), and that a question is asked after those before it
  are settled and probes through its own context (`AskInv`). `DetectInv` counts lost
  round trips against attempts. The actions before the probes change one
  question alone, which has no command yet (`Quiet`, `Setup`); `Send` and `Returns`
  rest on lemmas on longer and shorter chains.
* **CrawlProofs**: `CrawlInvariant`, `SummaryAddsUp` (`Accounted`),
  `BelowTheCapNothingIsMissed` (`Complete`) and `CapIsNear` (`NearCap`), for any site,
  any number of workers and any cap. `WorkInv` says that each index of a batch has
  one worker or one result, `CountInv` that the counters are the sizes of sets of
  pages, `LevelInv` that below the cap what was visited is what lies within that many
  hops of what was returned. The landing page is counted apart, so the last two are
  about a set `root` that holds it or does not, according to whether it was fetched.
  `EndWork`, `EndCount` and `EndLevels` are the end of a level, one for each part.
* **EvidenceProofs**: `EvidenceInvariant`, `CausesHold` (`CausesAreReal`),
  `FaultsFound` (`FaultsAreNamed`), `HeaviestBlamed` (`BlamesTheHeaviest`) and
  `StandbyIsNamed` (`StandbyLeads`), for any host, profile, log and answers of the
  API. `CausesHold` has what was found for every loss of commands, what is missing or
  was refused for runs without one; `FaultsFound` excepts what section 4 lists.
  `EvidenceInv` says of each probe what it has asked, lost and found at each of
  its places. For the logs it is `Tallied`: the map holds each signature read once,
  with the number of its lines in all texts; from that and `RankedFirst` the heaviest
  leads.
* **SessionProofs**: `SessionInvariant`, and from it `SettingsSurvive`
  (`SettingsKept`), `ChosenModelServes` (`PickedModelServes`) and `GateIsKept`
  (`GateHolds`), for any processes, shells, models, jobs, ports, environments and
  knowledge. The lemmas `AskEffects` and `SessionEffects` sort the forty-odd actions
  of Session, Ask and Retrieval into six kinds by what they do to the settings, the
  model object and the gate; each part of the invariant is then kept by each kind.
  `SettingsKept` needs that at most one save is under way and that it puts back all
  settings but its own as they were last set (`SaveInv`). `PickedModelServes` needs
  that the choice a process is bound by is the last one of all processes
  (`ChoiceInv`), `GateHolds` that discovery by a process that was vouched for finds
  the service whether or not the command answers (`GateInv`). `ShellInv` says that a
  shell that asks for a product has an issue to go on with.

  Also `AskingInvariant` (`AskInv`), `AnswersAreGrounded` (`AnswersGrounded`), and
  `SessionAnswersGrounded`, the same under the front ends. `AnswersGrounded` speaks of
  the hits of a search and of an answer made from them some steps later, so it needs
  that the search is for the question that was asked, that a composer has a context,
  and that no later search replaces the hits under an answer: a consultation belongs
  to a run and is the only one it gets (`InStep`). That last part was missing until the
  proof asked for it. `FindSound` says what a search holds at each place: no junk but
  what is cached on disk, and a confidence that the first hit bears out. Below them
  are the lemmas on `Rank`, `Best`, `Those`, `Sources` and `verifyGrounding`: `Best`
  lists members of its set without repetition, which rests on ranks being a
  bijection (`RankOnto`); a filter keeps order and membership (`ThoseShape`); the
  sources are those of the passages (`SourcesShape`); and `ComposedGrounded`: a source
  that is cited is not cut off, since there are at most `MaxCited` passages.

*Recursion.* Functions defined by recursion (`Scanned`, `WithinHops`, `Those`,
`Sources`, the loops of the crawl) are unfolded with the lemma `Recursion`: such an
equation has a solution, and so the function chosen to satisfy it does. The library
states induction for an operator parameter, which these provers cannot instantiate;
the modules therefore use `UpTo`, induction over a *set* of naturals, from
`WFMin` and the well-foundedness of `<`.

The assumptions are the ASSUMEs of the modules, and TLC evaluates them in every run:
disjoint sets of calls, a retention of at least one, a timeout above zero, branches
without repetition; a landing page no page links back to, since the crawl drops such
links, and fewer pages to begin with than the cap; hosts that name one endpoint each,
a logarithm that reaches the caps of the
scores; finitely many passages, facts that are not error pages (they are curated), and
a context no larger than the citations, as with the defaults of the code (section 4 has
the exception). The type theorems, `WorkersFindTheirJob`, `LastJobIsListed`,
`CrawlInvariant` and `Escalates` state invariants no run checks; TLC has checked
`CrawlInv` besides, and the proofs cover every instance.

Only model-checked: liveness (`EveryCallReturns`, `Settles`, `RaceEnds`,
`ProbesEnd`, `QuestionsEnd`, `ShellsEnd`). Liveness under fairness and ENABLED are beyond
the prover. Every safety property of a passing run has a theorem. The three runs with a
counterexample show what does not hold, so there is nothing to prove in them but the
preconditions the theorems state. No module has a RECURSIVE operator.

## 6. What is not modelled

* `probes/sshRemote.ts` (`inspect mac`): seven fixed commands whose output is printed.
* The model catalogue, the paths, redaction, sanitising, the formatting and explaining of
  reports, the profiles and catalogues: pure functions on text and constant tables.
* `runtime/stderrFilter.ts` and the C# launcher: they pass input and output on.
* `agents/intent.ts`, the guess at what a sentence means: word lists. Session lets a
  sentence be any line.
* Reading and listing of files, quoting and parsing in `runtime/execContext.ts`.

Within the modelled parts: the reuse of pids, the wording rules of the evidence filter,
the extraction of JSON from an answer, the text of commands and the regular expressions
that read their output, embeddings, tokenising and chunking (numbers of `Match` and
`Support` stand for them), the expiry of cached pages, `docs sync`, the `/target` and
context settings of a shell, `TWC_CONTEXT_HITS` above three, the drawing of reports,
and two whole workflows in one process (ExecContext has their probes, Session their
questions).

## 7. Plan

The model covers the parts that keep state, and each safety property has its proof. What
is left:

1. Bridges between levels that are argued in section 2 and not stated as theorems: that
   `JobLifecycle`'s atomic calls are those of `AtomicStore` on the statuses it keeps, and
   that the place of a question in `Ask` is a run of `Troubleshoot` seen from outside.
2. What a run returns beyond the causes it ranks: bounds and monotonicity of
   `calculateConfidence` and `applyRerankScores` as theorems of `ReportScoring`.

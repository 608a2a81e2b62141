# TLA+ verification of cuttlefish

Cuttlefish runs *jobs*: graphs of sandboxed WebAssembly or Rhai blocks that read files, call a
language model and hand JSON to each other. A daemon (`cuttlefishd`) accepts jobs, runs each one to
an envelope, and keeps one SQLite ledger per job so that a job interrupted by a restart resumes where
it stopped. The modules here model that machinery, TLC checks them on small instances, and TLAPS
proves the results that matter most for every graph, manifest and set of outputs.

## The system

| Component | Source | State it keeps | Operations | Talks to |
|---|---|---|---|---|
| Graph checker | `cuttlefish-host/src/dag.rs`, `cuttlefish-core/src/graph.rs` | none (a function of the spec) | parse nodes and branches; topological order; branch exclusivity; seam types; graph fingerprint | run_job reads its order and `exclusive_to` |
| Job runner | `cuttlefish-host/src/runner.rs` (`run_job`, `run_fanout_node`) | outputs, skipped, route_taken, item counters: lost in a crash | walk the nodes, skip, run, fan out, conclude, finish, write the warehouse | ledger, ladder, events channel |
| Ledger | `cuttlefish-host/src/ledger.rs` | `job_status`, `checkpoints` (node rows and item rows), `fanout_manifests`: durable | one SQL statement per conclusion; escalation queries; mark drained | runner, daemon, warehouse |
| Ladder and judges | `runner.rs` (`Ladder`), `accept.rs` | rung, retries left, backend | attempt, retry, reroute, escalate; judge | stage, inference backend |
| Stage and its commands | `runner.rs` (`run_stage`), `handles.rs`, `caps.rs`, `fetch.rs`, `documents.rs`, `images.rs`, `render_worker.rs` | open handles and downloads per job; document paths and texts per stage | instantiate a block and carry out its commands, one at a time | block, files, a render process, backend |
| Daemon | `cuttlefishd/src/{api,state,lib,main,serve}.rs` | `JobStore`: status, envelope, cancel token, event log, per job | submit, get, list, cancel, resume, events, drain, shutdown, startup scan | one task per job, one ledger per job |
| Event stream | `cuttlefishd/src/{api,state}.rs`, `runner.rs` | event channel, forwarder, log and broadcast channel of a job | send, forward, publish, subscribe, finish | runner, SSE clients |
| Block catalog | `cuttlefish-host/src/catalog.rs` | index file, lock file, blobs by digest | add, rm, list, show, resolve, read a blob | pipeline, CLI |
| Module cache | `module_cache.rs` | compiled modules on disk | get or compile | runner |
| Warehouse | `warehouse.rs` | Parquet files and a manifest | write bronze, silver, gold | runner |
| Inference backends | `infer.rs`, `backend.rs`, `ollama.rs`, `llamacpp.rs` | HTTP connections | generate, embed | stage, judges |
| CLI | `cuttlefish/src/*.rs` | none | run, dev, drain, resume, cancel, init, models | daemon |
| Spec language and types | `cuttlefish-core/src/{spec,lex,endpoint}.rs`, `cuttlefish-abi` | none | parse; write and read types, assignability, values of a type | everything |
| SDK and blocks | `cuttlefish-sdk`, `blocks/*` | per-guest memory; the script interpreter's log | the guest side of the ABI; replay a script | stage |

What is hard here:

* **Crash and resume.** A conclusion is one SQL statement, the walk's memory is rebuilt from rows,
  and two files and a warehouse are projections of the rows written at other moments than them.
* **Concurrency.** Each job is a task of the daemon; cancel, resume, drain and event subscribers act
  on the same job from other tasks, and a second daemon may open the same ledger.
* **Ordering.** Items conclude across several runs; progress and token events travel on a
  channel beside the result; a manifest is edited between runs.
* **Recovery inside a node.** Retries, reroutes and judges must end, and must not record
  anything before the node is concluded.
* **Streams.** A token crosses two channels, an event channel and a log, each read by another task,
  while the guest, the client and the model may each end the inference.
* **Replay.** A script cannot suspend, so it is run from the top for each answer, and what it does
  must be what it would have done had it waited.
* **Files others change.** A document may be replaced between two pages, a download or a render cut
  half way, and the catalog is one directory that several processes write.

## Correctness properties sought

* Runner and ledger: resume rebuilds the memory the rows describe; a node runs only on completed
  inputs; exactly one side of a decision runs; a conclusion is final; counts, files and rows agree;
  the ledger of a crashed and resumed job is that of an uninterrupted one; the run_job of a submitted
  job returns.
* Graph checker: the order respects the inputs; exclusivity is what conditional dispatch needs;
  the check returns, whatever the parser lets through.
* Daemon: one run per ledger at a time; the status served never contradicts the ledger; an
  interrupted job is found again; a cancellation accepted is not forgotten; a job is resumed under its
  own graph.
* Draining: an escalation is exported once, and never marked before it is handed over.
* Event stream: no token is lost or made for nobody; a client is sent the log; the job ends.
* Stage: the pages of a document are of one version; what a handle names is whole; windows tile a
  text; a cancelled stage of a submitted job ends.
* Scripts: a replayed script returns what one execution returns, and asks for nothing twice.
* Catalog: a version has one content for ever; what a reader opens is whole; the files implement a
  registry that changes one version at a time; every call returns.
* Ladder: every attempt the rungs allow is made and none more; what is accepted was itself checked;
  an attempt goes to the model it should; the failure reported is the one that ended it; it ends.

## Plan

| # | Module | Models | State |
|---|---|---|---|
| 1 | `JobRun`, `DagExecution` | the runner and its ledger; the execution they promise | done, safety and refinement proved |
| 2 | `Types`, `Dag` | types and their notation; the graph checker that JobRun's assumptions rest on | done, safety proved; the seams given that signatures read back |
| 3 | `Daemon` | submission, tasks, cancel, resume, death, restart | done, safety proved |
| 4 | `Drain` | escalation draining beside running jobs | done, safety proved |
| 5 | `Ladder` | retries, reroutes, escalation, loop and judges inside one node | done, safety proved |
| 6 | `Inference`, `EventStream` | the backend's thread and the runner's select; forwarder, log, SSE | done, safety proved |
| 7 | `Registry`, `Catalog` | the promise of the catalog; index lock, index rewrite, blobs, resolution | done, safety and refinement proved |
| 8 | `Protocol`, `Script`, `Replay` | commands and answers; one execution of a script; the interpreter that replays it | done, safety and refinement proved |
| 9 | `Stage` | command loop, handles, windows, documents, fetch, render process | done, safety proved |
| 10 | the proof modules | every safety invariant of the runs | done |

How they fit: `JobRun` takes from `Dag` what `GraphAssumption` says of an accepted graph, and from
`Ladder` the outcomes of a node; an attempt of `Ladder` is a stage of `Stage`, whose `Infer` is an
`Inference`; `Stage` and `Replay` are the two sides of `Protocol`; `EventStream` EXTENDS `Inference`
with what carries its tokens away; `Daemon` takes a run of `JobRun` as one task with an outcome;
`Drain` takes from `JobRun` only when rows are written. `Dag` EXTENDS `Types`, whose operators decide
its seams. `Protocol_proofs` holds the theorems of both sides of `Protocol`; every other proof module
is named after its own. Three abstract specifications are implemented by refinement: `DagExecution` by `JobRun`,
`Registry` by `Catalog` and `Script` by `Replay`.

## What each module models

### JobRun: one job, from first line of `run_job` to last, across crashes

The variables are three groups. *The ledger*, durable: `jobStatus`, `whole` (checkpoint rows of
nodes), `item` (checkpoint rows of items), `pin` (the manifest digest a fan-out node recorded).
*Other files*: `files` (results and failures), `warehouse`, `manifest`. *Memory*, emptied by
`Crash`: `phase` and `at` (where the walk is), `outputs`, `skipped`, `routeTaken`, `fan` (locals of
`run_fanout_node`), `cancel`, `verdict` (the envelope).

| Code | Actions |
|---|---|
| entry, checks | `Begin`, `StartLoop`, `RejectChecks` |
| resume lookups of a node | `VisitSkipped`, `VisitCompleted` |
| conditional dispatch | `SkipByBranch`, `SkipTransitively` |
| ordinary node: ladder, route check, checkpoint | `RunNode`, `RejectRoute`, `ExhaustNode`, `InterruptNode` |
| fan-out: manifest, items, files, collection | `OpenManifest`, `RejectManifest`, `CancelBetweenItems`, `CountConcluded`, `MismatchItem`, `StartItem`, `CompleteItem`, `ExhaustItem`, `InterruptItem`, `AllItemsFailed`, `WriteResults`, `WriteFailures`, `RecordCollection` |
| progress events, where nobody reads them | `AwaitRoom` |
| end of run | `Conclude`, `Finish`, `WriteWarehouse` |
| a statement or file operation fails | `StorageFault`, and the `StorageFaults` disjuncts of the writes |
| around it | `RequestCancel`, `CancelInterrupted`, `Crash`, `EditManifest` |

Each SQL statement is its own step; a file write is two, as it may be cut. The recovery ladder of a
node is one step with its possible outcomes. Events are not counted: a run that `resume_job` entered
(`resumed`) holds the receiver of its channel and never reads it, so any send of it may be the one
that waits for ever (`AwaitRoom`; `EventStream` counts). A branch of a decision that is no node never
has a route, so it gates nothing and is left out. An output is a value of which only the `route` field
matters, a manifest a version with a length.

### DagExecution: what a job promises

The abstract specification: nodes are decided in any order that respects inputs and decisions, each
completed with an output or skipped by a branch or by a skipped input, and the job ends. No crash, no memory, no files. `JobRun`
implements it under the mapping that reads `decided`, `output` and `status` off the ledger
(`Execution` in `JobRun`).

### Dag: `check_graph`

`topological_order` and `compute_branch_exclusivity`, loop by loop, on a graph chosen in `Init`:
`CollectDependencies`, `BeginRound`, `Place`, `EndRound`, `EndOrder` or `UnmarkedCycle`, or `Panic`
where the order is short and no node is missing from it; then
`SeedTarget`, `Propagate`, `PassOver`, `ConflictingFanIn`, `NextPass`, `EndPasses`; then `Accept` or
`SeamMismatch`, or `Uninspectable` when a block cannot be read. `order`, `remaining`, `ready` and
`exclusiveTo` are the locals of those functions. The signatures are read once from the blocks a graph
names (`ReadSignatures`; a block without one is permissive), and `EvaluateExprTy`, `OutputTy` and
`AssignableTo` decide each seam in the order of the nodes. The graphs are those the parser lets through:
a name may be declared twice (the order then holds it once), and a branch may name a decision or a
target that is no node. A name declared twice has one body in the model.

### Types: what blocks declare

Pure functions: `AssignableTo` and `MatchesValue` by recursive functions over types of a bounded
depth, and the written form by which a type travels from a block to its host, `Describe` and
`ParseTy`, as sequences of tokens. A signature is read from what a block wrote, so `Dag` uses both.
The sets of field names and scalars, the `Depth` of types and the `Width` of arrays are its bounds.

### Daemon: jobs over one jobs root

Per job and durable: `ledger`, `fingerprint`, `input`. Per daemon and volatile: `phase`, `serving`
(its spec), `store` (the JobStore's status), `envelope`, `token`, `unscanned`. In flight: `intake`
(a submission between two of its steps), `tasks`, `request` (resume handlers between their checks).
A spec is a name, and `GraphFingerprint` gives each the hash the daemon compares: specs that differ in
what `graph_fingerprint` leaves out share one. `submitted` remembers the spec a job was submitted against.

| Code | Actions |
|---|---|
| `main`, startup scan, shutdown, force-exit, death | `Start`, `ScanJob`, `SkipUnreadable`, `Serve`, `Shutdown`, `Stop` |
| `submit` | `OpenLedger`, `WriteInput`, `RefuseInput`, `Accept` |
| a job's task | `RunReturns`, `RunReturnsUnrecorded`, `Deliver` |
| `JobStore::cancel` | `CancelInterrupted`, `CancelUnrecorded`, `CancelRunning` |
| `resume_job` | `ResumeSeen`, `ResumeChecked`, `ResumeRefused`, `ResumeStarted`, `ResumeLost` |

`Lingers` says whether a daemon that no longer answers may still run tasks while another starts;
`Faults` whether ledger and file operations may fail.

### Drain: POST /escalations/drain and its client

Rows of every job's ledger (`status`, `serial`, `drained`), and per client the handler's progress
(`stage`, `toRead`, `found`, `toMark`). `Request`, `ReadLedger`, `SkipLedger`, `BuildAnswer`,
`MarkDrained`, `MarkFails`, `Answer` are the handler; `WriteManifest` and `ManifestLost` the client;
`Escalate`, `Complete`, `Die` the jobs and the daemon under it. The history variables `offered`,
`unmarked`, `contested` and `handed` remember, of a row's current escalation, whether it was answered,
whether an answer reported it unmarked, whether one drain read it while another had it still to mark,
and in how many manifests it is.

### Ladder: one node or item, with its retries, reroutes and judges

`Ladder::run`, `attempt` and `run_judges` for a declaration `node` chosen in `Init`. `backend`,
`rung`, `retriesLeft` and `envelope` are the locals of `run`; `iterations` and `judge` those of
`attempt` and `run_judges`; `phase` says which of them is at work.

| Code | Actions |
|---|---|
| `run_stage`, called and returning | `StartStage`, `StageCancelled`, `StageFails`, `Produce` |
| `repeat_until` loop | `IterateAgain`, `IterationsSpent` |
| type, schemas, judges | `StructureRejected`, `StructurePassed`, `JudgeAccepts`, `JudgeRejects`, `Accept` |
| the next move | `Retry`, `ClimbRetry`, `Reroute`, `RerouteUnresolved`, `Escalate`, `OutOfRungs` |
| another task cancels the job | `RequestCancel` |

An output is known only by the checks it has passed (`passed`), and a judge's reply by the `accept`
of each object in it, from which `ExtractJson` and `ParseVerdict` make a verdict. The constant `Allowance` is the
number of attempts that the first rungs of a ladder add, given as a table so that no recursion is
needed; `AllowanceAssumption` fixes it.

### Inference and EventStream: from the model to a watcher

`Inference` is one `Infer` command. On the embedded backend, what generates is a blocking thread
(`Prime`, `Generate`, `CheckStop`, `EndGeneration`) and the backend's future is `PollPiece`,
`PollEmpty`, `JoinPending` and `Joined`. On Ollama, what generates is the server (`Request`, then
the same steps, with no stop flag to look at), `inner` is the connection its lines arrive on, and
the future is `PollLine` and `EndOfLines`: it learns of a stop with the line after the token the
guest judged, drops the connection there and returns what it has as an answer. A connection that
closes is an end of the text to it, `done` or not. The initial states choose the backend. Then comes
the runner (`SelectCancelled`, `SelectToken`, `SendToken`, `PollInfer`, `DrainToken`, `Conclude`).
`inner` and `outer` are the two unbounded channels, `innerStop` and `stop` the two flags by which
the guest's verdict travels back (of which Ollama needs only the second), and `mail` is the job's
bounded event channel. A token is the number of its generation, so that loss, duplication and
reordering can be told.

`EventStream` EXTENDS it with the rest of the way: the forwarder (`TakeEvent`, `PublishEvent`), the
job's task (`PublishResult`, `FinishJob`), `subscribe` (`Attach`) and the SSE stream (`Receive`).
The broadcast channel keeps positions of the log, so a receiver is a `cursor`, and one more than
`LiveCapacity` behind skips events and is marked `lagged`. `Forwarding = FALSE` is a resumed job.

### Stage: the commands of a block

`handles` are those of the run of a job, `docPaths` and `docTexts` the tables of one stage, `fetched`
the job directory's downloads; `disk` is what the files hold, by versions that `Edit` replaces at any
moment. One action per command, with the host's checks in their order.

| Code | Actions |
|---|---|
| `Guest::new`, the command loop, a trap | `Instantiate`, `HostCancelled`, `Trap`, `DoneOrFail`, `Emit` |
| progress and tokens, where nobody reads them | `AwaitRoom` |
| handles | `Open`, `Slice`, `SliceBytes` |
| documents and images | `ReadText`, `PageImage`, `ImageOp` |
| `fetch_to_file` | `FetchRefused`, `FetchCached`, `FetchStarts`, `FetchEnds`, `FetchBreaks`, `FetchSticks` |
| backend | `CallBackend`, `BackendEnds`, `InferCancelled` |
| around it | `NextStage`, `DieAndResume`, `Edit`, `Cancel` |

A text is its characters' widths in bytes, with a zero for a byte that starts none; `walk` is how far
a guest that follows the offsets it is told has come, by windows of any of the lengths it asks for; one of
no bytes is answered with an empty text. The render process is what it wrote and how it
exited (`Worker`), from which `RenderPage` makes an answer.

### Script, Replay and Protocol: a block written as a script

`Protocol` is the table of commands and the events they are answered with. `Script` is the promise:
the script is executed once and waits at each host call. A script is a set of behaviours, one when it
is a function of its input and its answers, more when it also looks at a clock or at chance. `Replay`
is `RhaiBlock`: each run has a behaviour of its own (`FreshRun`) and starts at the top; calls within
the log are answered from it (`ReplayCall`, or `RefuseCall` when it was another call), the first one
beyond sets `pending` and aborts (`SuspendCall`), and what the run left is turned into a command
(`Ask`, `FailDiverged`, `FailUnconsumed`, and `Finish`, which fails for a result without a JSON form),
which the host answers (`Step`) or does not
(`HostDrops`). A script that catches errors goes on after the abort. `Replay`
implements `Script` under the identity mapping of `script`, `log`, `asked` and `outcome`.

### Catalog and Registry: blocks by name and version

Each process's call is a sequence of file operations (`pc`): for `add` the inspection of the artifact, the
blob (`CreateBlob`, `FillBlob`, `PlaceBlob`), the lock, the index read, edited, written beside its
place and renamed (`Lock`, `ReadLocked`, `AddEntry`, `CreateTmp`, `FillTmp`, `RenameTmp`), the
answer. `Resolve` and `Entries` read the index without the lock, `ReadBlob` the blob. At any of them
a process may fail or die, which releases its lock and leaves its temporary files. `Path::exists`
answers no when its stat fails (`Exists`; `ReadIndex` and `LookUp` then take the index for empty; the constant `StatFails` says
whether it may), and the wall clock may be set (`SteadyClock` says that it is not). `Registry` is
the promise, and `Promise` in `Catalog` the mapping that reads `live` and `claim` off the index file
alone.

## Runs

| Run | Module | What it shows |
|---|---|---|
| `Triage` | `MCJobRun` | Two decisions, a fan-out branch target, a loop, a join across decisions; crashes anywhere, cancellation, storage errors, a warehouse. Memory is what the ledger records; nodes run on completed inputs, on one side of each decision, and every skip has its cause (`DispatchRespected`); a completed job has every node decided; the ledger implements `DagExecution`. |
| `Campaign` | `MCJobRun` | A fan-out and its reducer over three manifest versions, edited at any moment. Items come from the pinned manifest; counts, files and rows agree; nothing recorded changes; the `run_job` of a submitted job returns. |
| `Graphs` | `MCDag` | Every graph of four nodes with at most two references each; every placement of one or two decisions, declared in either order; chains of typed blocks with fan-outs, records and lists. The order respects the inputs and the verdict is right on cycles and exclusivity (`VerdictSound`); an accepted graph hands every node what it declares (`SeamsSound`); the check ends when no name is declared twice (`CheckReturns`). |
| `Lifecycle` | `MCDaemon` | One job, one daemon at a time, specs with fingerprints of their own, three racing requests, three deaths. One task per ledger; the status served is the ledger's; no accepted job lost; a final status stays; a resume that the daemon could carry out leads to a task or an outcome, unless the daemon dies. |
| `Overlap` | `MCDaemon` | Two daemons over one jobs root with different specs, two of one fingerprint, and failing storage. A task runs only a graph with its job's fingerprint; `running` means a task is there. |
| `Drains` | `MCDrain` | Two drains, overlapping or in turn, with unreadable ledgers, failing marks, deaths, items without input and nodes escalated again. Only what was answered, and could be, is marked; an escalation goes out twice only after a reported mark error or under an overlapping drain. |
| `Recovery` | `MCLadder` | Every ladder of up to three rungs, lists of judges, bounded loops, a cancellation at any moment. Every allowed attempt is made and none more; what is accepted passed every check itself; reroutes hold; the code of the last failure is kept; every ladder ends. |
| `Scripts` | `MCReplay` | Every script of up to three lines with calls, catches, ends and throws, and pairs of them for scripts that change their mind. A result is that of one execution; tame scripts never diverge; every script ends. |
| `Streaming` | `EventStream` | One inference with three tokens on either backend, one client that attaches, lags and attaches again, a cancellation at any moment. Every token is accounted for; a client is sent the log; the result overtakes no more than the channel and the forwarder hold; the job ends; the result is received. |
| `Stage` | `MCStage` | Every sequence of commands over one document of three versions (one malformed), one resource and a text with one- and two-byte characters and an invalid byte. Pages of one handle are of one version; handles are whole; windows tile, empty ones included; a cancelled stage of a submitted job ends. |
| `Catalog` | `MCCatalog` | Two processes, three calls, a failure or death anywhere, two seconds, stats that do not fail. One content per version; nothing torn; latest is recent; the registry is implemented; calls return. |
| `Resumed` | `EventStream` | Violation: a resumed job's event channel has no reader, and the job never ends once it is full. |

A passing run states at most a handful of properties, each several related facts about one promise. Every
property of a passing run has a mutant: the definition that stands for a piece of the code is
replaced by a plausible mistake (the operators commented `Mutant:` in the modules), and TLC must
find that property violated.

### Bounds

* `Triage`: seven nodes, the fewest that hold two independent decisions, all four targets, and a
  node that needs a target of each; the three outputs are one per label and one without a route.
  One manifest of two items, so that a run can be interrupted between items.
* `Campaign`: two nodes, because the properties are about one fan-out; an empty manifest and two of
  the same length, the hardest pair to tell apart by counting.
* `Graphs`: four nodes give every cycle shape up to length four, with and without marked loops, and
  chains of three behind a branch target. Types have two scalars, two fields and a depth of two, the
  least at which a list of lists or a record in a record can disagree; arrays have up to two items, the
  fewest that differ.
* `Lifecycle`: one job, as jobs of a daemon share nothing but the map they are in; the theorems
  below are for any number. Three requests are two that race and one after; three deaths are one
  during a submission, one during the run it left and one during its resume.
* `Overlap`: two daemons, and three specs, so that two disagree in their fingerprints and two only
  in what it leaves out.
* `Drains`: two clients are the fewest that overlap, and a client may drain again; two ledgers, so
  that one is read before the other; a node row, an item row and an item without input; two
  escalations of a row, so that it can be replaced once. The clients are symmetric.
* `Recovery`: three rungs hold every order of a retry and two reroutes, one of them to a model that
  was not resolved; retries of one and two times; loops of 0, 1 and 2 iterations, 0 being accepted
  by the parser; up to two judges, with and without a model of their own; replies with up to two
  objects, the fewest that disagree.
* `Scripts`: three lines let a call follow a caught one and its answer decide the end; two
  behaviours are enough to change one's mind, and a third would only repeat a divergence.
* `Streaming`: three tokens, so that one is in each channel while a third is generated; capacities of
  one, and both backends, so that every channel is full, and a client too far behind, within those tokens. The real
  capacities are 256; no action depends on the number.
* `Stage`: two handles, so that one is a page or an image made of the other; three versions, so that
  a document changes twice, or into one that cannot be read; the text mixes both character widths
  and an invalid byte, and windows of no byte, of one and of two are asked for: too few for a
  character, enough for one and a half, and more than is left.
* `Catalog`: two processes, since a third waits for the same lock; three calls, so that one process
  retires and publishes while the other reads; one failure or death, in any step; two seconds, as
  only the order of stamps matters. `StatFails` is FALSE and `SteadyClock` TRUE, which `KeepsPromise` and
  `LatestIsRecent` need; the theorems say which properties do without.
* `Resumed`: an event channel of one in place of 256.

`MaxItems`, `MaxStops`, `MaxSerial`, `MaxDeaths`, `MaxHandles`, `MaxCalls`, `MaxFaults`, `MaxClock`
and `Budget` (the request's own limit) are the only bounds in guards. No run has an
unbounded counter. Deadlock is not checked: a job that has returned, a graph that has been checked,
a daemon past its last death, a ladder, script or stage that has ended and a
finished stream really stop.

### Fairness

* `JobRun` `FairSpec`: weak fairness of `RunStep`. The task is polled by the runtime, a statement has its
  result, and the ladder of a node ends, which is `LadderEnds` with what it assumes of models and
  judges. A send of an event ends where a forwarder reads the channel; a resumed run has none, and
  `AwaitRoom` takes it to a phase that it does not leave. `RunReturns` therefore speaks of submitted jobs
  only. Crashes, cancellations and edits are not fair.
* `Dag` `FairSpec`: weak fairness of `Next`: a plain function that nobody interrupts.
* `Ladder` `FairSpec`: weak fairness of `Attempt \/ Climb`: a stage ends, since its inference does or
  is cancelled, and so do the inferences of judges, which no cancellation reaches. Cancelling is not
  fair.
* `EventStream` `FairSpec`: weak fairness of the runner's steps, of the forwarder, of the report of the
  result and of each client's reading: tasks of one runtime, none of which waits on anything but what
  the model has. Nothing is assumed of the thread that generates, as a model may take for ever, nor
  of a client that lost events, which need not attach again.
* `Stage` `FairStageSpec`: the block is instantiated; a guest returns, upon which the host looks at the
  cancellation; an inference is given up when the job is cancelled, unless a resumed job is in a send
  that waits for room, so that `CancelEnds` speaks of submitted jobs only; a download, which has a timeout
  (`fetch.rs`), and an embedding end. The last is an assumption: no timeout and no cancellation
  bounds a call to `embed`.
* `Replay` `FairSpec`: the block computes, and the host answers or ends the stage.
* `Catalog` `FairSpec`: a call under way goes on. The advisory lock is released by the operating
  system when its holder dies, so waiting for it is not for ever.
* `Daemon` `FairSpec`: a resume handler, which waits for the JobStore's mutex only, is scheduled. Nobody
  has to start a daemon or to ask for a resume (`api.rs:483-488` leaves that to a person, on purpose), and
  a task need not return, as that of a resumed job may not. What can be promised is that a resume asked
  for comes to something (`ResumeStarts`); that an accepted job ends cannot.

## Proofs

| Theorem | Module | Statement |
|---|---|---|
| `TypeCorrect` | `JobRun_proofs` | `Spec => []TypeOK` |
| `ResumeRebuildsMemory` | `JobRun_proofs` | `Spec => []MemoryMatchesLedger` |
| `DispatchCorrect` | `JobRun_proofs` | `Spec => []DispatchRespected` |
| `LedgerFinal` | `JobRun_proofs` | `Spec => ConclusionsFinal` |
| `ItemsFromOneManifest` | `JobRun_proofs` | `Spec => []ItemsMatchPin` |
| `FilesAreProjections` | `JobRun_proofs` | `Spec => []FilesMatchLedger` |
| `CollectionIsLedger` | `JobRun_proofs` | `Spec => []CollectionMatchesLedger`, when `~StorageFaults` |
| `CompletionDecided` | `JobRun_proofs` | `Spec => []CompletedMeansDecided` |
| `CrashesInvisible` | `JobRun_proofs` | `Spec => CrashTransparent`, when decisions precede their targets |
| `OrderSound` | `Dag_proofs` | `Spec => []OrderRespectsInputs` |
| `TypeCorrect` | `Dag_proofs` | `Spec => []TypeOK` |
| `CyclesAreReported`, `GatingFollowsBranches`, `RuleIsImplemented` | `Dag_proofs` | `Spec => []CyclesReported`, `[]GatedByItsBranches`, `[]RuleImplemented` |
| `ShapeJudged` | `Dag_proofs` | `Spec => []VerdictSound` (the order and these three) |
| `AssignableIsSound` | `Dag_proofs` | what is of a type `AssignableTo` allows is of the type required |
| `SeamsAreSound` | `Dag_proofs` | `Spec => []SeamsSound`, when `SignaturesRead` |
| `TypeCorrect` | `Daemon_proofs` | `Spec => []TypeOK` |
| `TasksServeTheirJobs` | `Daemon_proofs` | `Spec => []TasksAreTheirJobs`: `running` means a task, and a task has its job's fingerprint |
| `OneRun` | `Daemon_proofs` | `Spec => []OneRunPerLedger`, when `~Lingers` |
| `ServedIsRecorded` | `Daemon_proofs` | `Spec => []StatusServed`, when `~Lingers` and `~Faults` |
| `FinalStatus` | `Daemon_proofs` | `Spec => StatusFinal`, when `~Lingers` and `~Faults` |
| `TypeCorrect` | `Ladder_proofs` | `Spec => []TypeOK` |
| `BudgetSpent` | `Ladder_proofs` | `Spec => []EveryRungClimbed` |
| `NothingUnchecked` | `Ladder_proofs` | `Spec => []AcceptedPassed` |
| `LoopsBounded` | `Ladder_proofs` | `Spec => []LoopBounded` |
| `ModelHeld` | `Ladder_proofs` | `Spec => []RerouteHolds` |
| `CodeKept` | `Ladder_proofs` | `Spec => []ErrorCodeKept` |
| `EndsCorrectly` | `Protocol_proofs` | `Spec => []EndsLikeOneRun` |
| `ImplementsDirectly` | `Protocol_proofs` | `Spec => RunsOnce` |
| `StageTypeCorrect` | `Protocol_proofs` | `StageSpec => []StageTypeOK` |
| `ReadsOneVersion` | `Protocol_proofs` | `StageSpec => []PagesConsistent` |
| `HandlesAreWhole` | `Protocol_proofs` | `StageSpec => []HandlesWhole` |
| `WindowsAreTiled` | `Protocol_proofs` | `StageSpec => []WindowsTile`, for every `Widths` and every `Lengths` |
| `TypeCorrect` | `Catalog_proofs` | `Spec => [](TypeOK /\ Placed)` |
| `NeverCorrupt`, `EntriesHaveBlobs`, `NothingTorn` | `Catalog_proofs` | `Spec => []IndexWhole`, `[]BlobsWhole`, `[]FilesWhole` |
| `CatalogKeepsPromise` | `Catalog_proofs` | `Spec => KeepsPromise`, when `~StatFails` |
| `VersionsAreImmutable` | `Catalog_proofs` | `Spec => []OneContent`, when `~StatFails` |
| `LatestResolvesRecent` | `Catalog_proofs` | `Spec => LatestIsRecent`, when `SteadyClock` and `~StatFails` |
| `TypeCorrect` | `Drain_proofs` | `Spec => []TypeOK` |
| `MarksAreTraces` | `Drain_proofs` | `Spec => []MarksAccountedFor` |
| `RepeatsAreExplained` | `Drain_proofs` | `Spec => []RepeatsExplained` |
| `TypeCorrect` | `EventStream_proofs` | `Spec => []TypeOK` |
| `NoTokenLost` | `EventStream_proofs` | `Spec => []TokensAccounted` |
| `StreamWhole` | `EventStream_proofs` | `Spec => []ClientSeesLog` |
| `ResultNearEnd` | `EventStream_proofs` | `Spec => []LateBound` |

**JobRun.** Assumptions: `GraphAssumption` (inputs precede the node that reads them, which
`OrderSound` proves of the checker; a loop reads itself), `ValueAssumption`, `OutputAssumption` and
`FilesAssumption` (that there are no files is not a pair of empty ones).
`TypeOK` alone is not inductive: that a fan-out's locals make sense depends on where the run is, so
`TypeInv` adds `FanConsistent`. The safety theorems rest on `Inv`, which adds `WalkInv`: the
decided nodes are a prefix of the graph's order, memory is what their rows say and empty before the
first node, a fan-out in progress is one that no branch or skip excludes, and the ledger says
running while a walk is under way.
From it a conclusion is only ever written for a node that has no row, which gives `LedgerFinal`, and
the dispatch properties follow because a skip is decided from memory that equals the ledger.
`CollectInv` adds what a fan-out has done so far: `Counted`, that the two counters are the numbers of rows
before `next` on either side, by one lemma on how such a set grows (`DoneGrows`), and `Projected`, that
a file once written has the lines its rows say until the node is recorded. The rows do not change in between
because the conclusions of items are final and their manifest is pinned. The files agree in every case
(`FilesAreProjections`); the counts need `~StorageFaults`, as a row that cannot be read is counted
wrongly (`MiscountConcluded`).
`CompletionDecided` strengthens with `VerdictDecided`: the verdict held in memory already has the
property that finishing will publish. `CrashesInvisible` maps each conclusion to one `Decide`, a
finish to `End`, everything else to a stutter. Its hypothesis `DecisionsFirst` is not something the
checker ensures, as `DecisionsOrderedFirst` shows (below).

**Dag.** Assumptions: `GraphAssumption` and `SignatureAssumption` (what the parser lets through, names
declared twice and branches of no node included) and
`VerdictAssumption` (no answer is not one of the answers). The theorems are about what the checker answers:
where it panics it answers nothing. `OrderInv` says, round by round, that a node
still waits for every dependency that has not been placed in an earlier round (`RoundInv`), and that what has
been placed had all of its dependencies placed before it (`PlacedInv`); `OrderSound` follows
without reference to acyclicity.
For cycles, `WaitsExactly` makes this exact: a node waits for nothing but what is unplaced. When no
node is unblocked, those that are left are then a set in which each waits for another: the
cycle (`StuckIsCyclic`). Conversely a cycle in a complete order would have a member placed first, by the least
index (`Least`), and it would wait for none (`OrderedIsAcyclic`).
For gating, `Explained` says that every entry is of a branch whose target leads to the node, `SeedsGated`
that targets keep one, and `PassesClose` that while a pass has given no node its first entry, what it
has been to is closed under references. A pass that changes nothing thus leaves the downstream of
every target gated; that the loop counts only first entries as changes, as the code does, is enough for
this, and says nothing about which entry a node has.
That is `RuleInv`, under the two hypotheses `RuleImplemented` states (`Plain`): seeds are never replaced
(`SeedsKept`), each entry is of the side the node is on (`Traced`), and a settled node has the one entry its
references have (`PassesSettle`), so that two that conflict are two labels of one decision. Without the
hypotheses the rule is not implemented, as the formulas below show.
For the seams, the recursive functions on types are first shown to satisfy their equations, by building
each level by level (`TypesByLevel`, `AssignableEquation`, `MatchesEquation`); the induction on levels is
`UpTo`, from the well-founded order of numbers and about a set rather than a predicate. By the
same induction a value of a type that is assignable is of the type required (`AssignableIsSound`), and `SeamInv`
keeps what the check has established of the graph until it answers. Two things are taken
as given: `BoundsAssumption`, that `Depth` and `Width` leave room for an input composed of what nodes
hand on, and `SignaturesRead`, that a declared signature reads back from its written form as it was. The
second is a fact of `Describe` and `ParseTy` that is not proved for all types; TLC evaluates
both for every signature of `Graphs` (`MCSignaturesRead`).

**Daemon.** `DaemonAssumption` only gives the constants their kinds. `Inv` joins the types with
`ProcessInv` (tasks, submissions and requests belong to a live process, and one that is down
remembers nothing), `SubmissionInv` (only its submission makes a job known to its daemon), `TaskInv` (a store says running exactly when one of its tasks is
at the job) and `GraphInv` (a task and a checked resume request belong to a daemon whose graph has the job's
fingerprint). That the graph is the job's own does not follow, and is not so (`RunsItsOwnSpec`, below).
`OneDaemon` (with `~Lingers`, only one daemon is not down) turns "one task per daemon" into
"one task". `RecordInv` and `AcceptInv` relate store to ledger and need storage that does not
fail, since a failed write is only logged. `~Lingers` cannot be dropped: with `Lingers` TRUE and two
daemons `OneRunPerLedger` is violated (below).

**Ladder.** Assumptions: `LadderAssumption` (what the parser accepts: `escalate` last, no `retry 0`)
and `AllowanceAssumption`. `LadderInv` has one part per hazard. `AttemptInv` is the account:
attempts made plus retries in hand are one more than the rungs climbed allow, and no climbed rung is
`escalate`; with all rungs climbed and no retry in hand it is `EveryRungClimbed`. `JudgeInv` says that
while judges are asked the output passed exactly the checks before them, and none while it is being
checked: that is where a verdict on an earlier output would show. `VerdictApproves` adds that an accepting
verdict is the only one in its reply. `LoopInv` adds that a stage is only begun with an
iteration left, `EnvelopeInv` that a failure carries an envelope exactly when the block failed.
`RerouteHolds` is inductive beside them: a rung that is not a reroute leaves the last one in place.

**Replay.** `IInv` says where a run is: the answers it received are those of the log's first
`callIndex` entries, its behaviour made exactly those calls, and `pending` is set only by a call that
the log does not have, or by a divergence. The refinement follows action by action: a replayed call is
a stutter, `Ask` is `AskDirectly`, and a tame script reaches neither `RefuseCall` nor
`FailUnconsumed`, since its one behaviour made the calls of the log before. For all scripts, finite or
not, and all answers; `Act` is any operator.

**Stage.** `StageAssumption` gives the constants their kinds, and says that no URL is the name of a file.
`ReadsOneVersion` rests on `KnownInv`: whatever a guest was told of a document is still the
entry its table holds, since entries are only added (a table starts anew with its stage, and so does what
was told). `HandlesAreWhole` rests on `ControlInv`: a copy in the job directory is partial only
while its download is under way or after a fault that left it so; every way of opening a handle is then gone
through once (`HandlesChange`). `WindowsAreTiled` rests on `TablesInv`: there is one walk for each handle,
and each stands where a character starts, having read the characters before it (`Place`). One step is a
fact about text alone: from such a place a window ends in one, contains exactly the characters between
the two, and is empty only if no byte was asked for or the next character does not fit or is none
(`WindowEnd`, `WholeBetween`). The
offset of a character is the number of bytes before it, a cardinality (`Start`), so that
`NextStart` and `StartIncreases` follow from facts about finite sets and need no induction over the text. For any text, any documents and any number of handles.

**Catalog.** The assumptions give the constants their kinds. `Inv` says that a call is where its kind
takes it (`Placed`), that only the holder of the lock is between the index's reading and its renaming
(`Exclusive`), and that what it holds is the file's content with one version edited (`Edits`): a
rename is then one step of `Registry`. `OneContent` adds `Remembered`: a content seen under a version
is the one the index claims, and a claim stays (`ClaimsStay`). `LatestIsRecent` adds `Timed`: a stamp, in
the file or on its way there, is not before its call began nor after the call's answer. That is where
`SteadyClock` is needed: `created_at` is a `SystemTime` (`catalog.rs:965`), which may be set back. The
refinement and what follows from it need `~StatFails` (below); that nothing is torn does not
(`Written`: what a client will rename, and what is in place already, is whole).
For any number of processes, versions and contents, with any number of failures and deaths. What is
renamed is there after a death of the process; a power failure, which may undo a rename, is not modelled.

**Drain.** `DrainAssumption` gives the constants their kinds. `MarksAccountedFor` needs to know what a drain
holds: a line it has read is an escalation of its row (`LineInv`), one it is about to mark is in an
answer (`OfferInv`), and no row without an input is among them (`StageInv`). `RepeatsExplained` is about
what happened, and the state behind it is `PlaceInv`: a row whose marks succeeded and that
no two drains read is in one place at a time, the queue of its ledger, one client, or one
manifest (`OnePlace`). For any number of jobs, rows and drains.

**Inference and EventStream.** The assumptions are that capacities are positive and the budget a number.
Everything in a channel is a run of consecutive tokens, so the state of the way is four numbers: what was
forwarded, what the runner took, what the backend handed on, what it was sent (`OnTheWay`).
`EndInv` says which ends of an inference leave nothing on the way, and gives the one token generated for
nobody. Downstream, two more numbers say what the forwarder took and published (`Queued`), and once the
result is published the log is a run with the result in it (`LogWith`); how late it can be is then
arithmetic on lengths. `ClientInv` adds that a client is within the log. The proofs are for both backends,
all budgets and capacities, all clients and for submitted and resumed jobs.

The proofs use SMT (Z3), Zenon and LS4 and no further assumption.

**Only model-checked.** Liveness (`RunReturns`, `CheckReturns`, `ResumeStarts`, `LadderEnds`, `ScriptEnds`,
`Lands`, `ResultReaches`, `CancelEnds`, `Answered`) is outside this prover.
So is what the recursive definitions over sequences compute for every input: that `ParseTy` undoes
`Describe` is evaluated by TLC for the signatures of `Graphs` and assumed by `SeamsAreSound`.

## What the models found

Listed in `PROJECT.json` and checked by a violation run:

* **A resumed job can hang.** Its task holds the receiver of its event channel and never reads it
  (`api.rs:613`). After 256 tokens and progress events the runner waits for room for ever, inside the
  handler that would look at a cancellation; `finish` is not reached. A resumed campaign sends one
  progress event per item it runs (`runner.rs:1251`), so one with more than 256 items left does not end.
  The comment says that the result still lands (`Resumed`, `Lands`).

Shown by TLC with the formulas that the modules state for them, each in a run as described:

1. A decision that is itself a branch target loses its labels (`dag.rs:588`): its targets inherit
   the outer decision, its route is not validated, and both of its targets run. `LabelSetsFull`, in
   `Dag` with `Graphs`' constants.
2. A target that reads another label's target is accepted (`dag.rs:550`), though it depends on two
   labels of one decision, which the comment calls a build-time error. `FanInRefused`, as above.
3. A target that does not read its decision may be sorted before it and run regardless of the
   route (`runner.rs:752`). `DecisionsOrderedFirst`, as above.
4. A daemon still running tasks while it shuts down and one started in its place can run a job
   twice (`state.rs:217` guards one process only). `OneRunPerLedger`, with `Overlap`'s constants.
5. Two drains can both export a row (`api.rs:174`: read and mark are separate statements), although
   `api.rs:164-167` calls them a single operation. `ExportedOnce`, with `Drains`' constants.
6. The type of a list expression is its first item's (`dag.rs:459`). A list of a text and a number is
   accepted where a list of texts is wanted, and `matches_value` catches it at run time only where a
   node's own input or output is checked. `ListsAgree`, with three nodes.
7. A job can be resumed under another graph. `graph_fingerprint` (`dag.rs:273`) hashes names, signatures,
   `over`, `accept` and `on_fail`, and not the `in` expressions, the branches, the loops or the bytes of the
   blocks, though `dag.rs:267-269` says that "Two graphs with the same fingerprint are the same, for
   resume-safety purposes". A daemon restarted with a spec that is wired otherwise passes the check of
   `api.rs:546` and goes on from checkpoints of the old graph. `RunsItsOwnSpec`, with `Overlap`'s constants.
8. A name declared twice makes the checker panic. The parser keeps both declarations
   (`graph.rs:270-285`), the order holds the name once, and a short order is taken for a cycle, of which
   `dag.rs:414` unwraps a node that is not there. `StuckNodeFound`, with `Graphs`' constants.
9. A failing stat empties the catalog. `read_index` takes whatever `exists` denies for a new catalog
   (`catalog.rs:431`), and an `add` whose stat fails writes the index back with its own entry alone, which
   `catalog.rs:425-428` says must never happen silently. `KeepsPromise`, with `Catalog`'s constants and
   `StatFails` TRUE.

Seen while modelling and not kept as runs; each is a formula over the modules as they stand:

* `ledger.rs:530-534` calls all_escalations the historical record. A daemon that dies after
  `write_escalated` and before `finish` resumes the job, and `write_completed` replaces the row:
  `[][whole[n].status = "escalated" => whole'[n].status = "escalated"]_vars` fails in `JobRun`.
* `runner.rs:1050` says the warehouse never describes a job the ledger calls running. A failed
  `finish` is only logged: `[][warehouse' # warehouse => jobStatus # "running"]_vars` fails with
  `StorageFaults`. `runner.rs:423` says a lost warehouse is rewritten by a resume, but the job is then
  finished and never offered for one.
* `ledger.rs:592` says mark_drained is called once the manifest is on disk. The handler marks before
  it answers: `\A r \in drained : handed[r] > 0` fails in `Drain`.
* `api.rs:188` says a row is never stamped for a payload its caller never received. `mark_drained` names
  a row by node and item, so a node that a resume escalates again between read and mark has its new
  escalation stamped: `drained \subseteq offered` fails in `Drain`. `MarksAccountedFor` leaves rows of
  whole nodes out for this reason.
* `runner.rs:1482-1484` says judges are always asked on the job's own backend, as a judge on the rerouted
  model would grade its own work. A judge that names a model is asked on that one, which may be the
  model a reroute went to (`accept.rs:139-142`).
* `api.rs:612` says a result lands durably. The envelope is in memory only, and after a
  restart a finished job is unknown.
* `api.rs:329-332` says there is always something to resume from. A submission cut between ledger and
  input leaves a job that every scan reports interrupted and no resume accepts; and `auto_resume`
  then stops at it.
* `graph.rs:27` says that checks are evaluated in declaration order; `CompiledChecks` evaluates
  all schemas before any judge.
* `runner.rs:1861-1864` says `document_text` works on what was fetched. `Fetch` enters no path in
  `doc_paths`, so it is refused. Handles outlive a stage while `doc_paths` do not: a handle
  that one stage passes to the next can be sliced there but not read as a document.
* A partial file that `fetch_to_file` left behind (`fetch.rs:95`, or a death) is taken for a finished
  download by the next request; `HandlesWhole` holds only because `faulted` excuses those.
* A text that holds an invalid byte can be read up to it and no further: every later window is refused as
  too small (`handles.rs:218`).
* A PDF's text is read again by its path while `Slice` reads the file it opened, so after a
  replacement one handle serves two contents.
* The result of a job may overtake up to one more token than the event channel holds (`LateBound` is
  that bound), and the status is set after the result is published, so a client that has it may still
  be told that the job runs. A guest is not asked about tokens that are still queued when the inference
  ends.
* A script that catches every error is never wrong silently: a run that ends with a `pending` command
  puts that to the host and its result is dropped, and one that consumed too few answers fails.
* Adding a version again after its removal gives it a new `created_at`, so that it becomes `latest`
  although newer versions were published since; versions of one second are ordered by their names.
* `ollama.rs` decodes each chunk by itself, so a character split over two becomes two replacement
  characters, and takes a stream that ends without `done` for a complete answer.

## Not modelled

* Of the inference backends, sampling, model loading and the embedding request; the decoding of documents and images, the
  endpoint server, Parquet layout, bundle packing, HTTP: I/O around libraries, with no state of their
  own to check.
* The module cache: two concurrent misses compile the same bytes twice and store the same module.
* `cuttlefish dev`, `run` and the other commands: single processes that poll, print and edit files.
  What they do to daemons and rows is in `Daemon` and `Drain`.
* Parsing of specs, endpoints and expressions, and the legality of names: string work.
* Files that are changed in place: `Edit` replaces a file. A file truncated under an open handle makes
  `read_exact` fail, as a vanished one does here.
* A power failure: only processes die.
* SQLite itself: a statement is atomic and durable, or fails (`StorageFaults`, `Faults`). Lock
  contention between processes is one of the causes of a failure and is not modelled further.

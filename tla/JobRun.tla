------------------------------- MODULE JobRun -------------------------------
(***************************************************************************)
(* One job, from the first line of run_job to its last, across any number  *)
(* of daemon crashes (crates/cuttlefish-host/src/runner.rs).               *)
(*                                                                         *)
(* run_job walks the nodes of a checked graph in topological order.  Every *)
(* conclusion (a node completed or skipped, a fan-out item completed,      *)
(* failed or escalated) is one SQLite statement in the job's ledger        *)
(* (ledger.rs) and is made before the walk moves on.  A crash loses the    *)
(* walk's memory and keeps the ledger; a later run_job over the same       *)
(* ledger starts from the first node again and reuses what is recorded.    *)
(*                                                                         *)
(* Abstractions.  Nodes are numbered by their place in job.nodes.  A       *)
(* block's output is a member of Values, of which only the "route" field   *)
(* matters.  What a node's whole recovery ladder answers is one of: an     *)
(* accepted value, exhausted, or stopped by cancellation.  A manifest file *)
(* is a version, of which only the number of items matters; version with   *)
(* no items stands for every manifest that cannot be used.                 *)
(***************************************************************************)
EXTENDS Integers, FiniteSets

CONSTANTS
  N,              \* number of nodes; node n is job.nodes[n - 1]
  Inputs,         \* Inputs[n]: the nodes its `in` expression references
  Exclusive,      \* Exclusive[n]: [decision, label] it is exclusive to, or NoBranch
  Fanout,         \* nodes declared `over` a manifest
  Escalating,     \* nodes whose on_fail ladder ends in `escalate`
  Labels,         \* branch labels
  Values,         \* outputs a block can be accepted with
  Route,          \* Route[v]: the "route" field of output v, or NoRoute
  Manifests,      \* versions of a fan-out manifest file
  ManifestLen,    \* ManifestLen[m]: items in it, 0 when unreadable or empty
  MaxItems,       \* bound: the longest manifest
  StorageFaults,  \* whether ledger and file operations may return an error
  Warehouse,      \* whether the spec declares a warehouse
  NoBranch, NoRoute, NoOutput, NoManifest, NoFiles, NoWarehouse, NoVerdict

Node == 1..N

ItemIndex == 0..(MaxItems - 1)

(***************************************************************************)
(* What check_graph guarantees of a graph it accepts, and the shape of the *)
(* other parameters.  A node may name itself in its input (a repeat_until  *)
(* loop), every other input is earlier in topological order.  Exclusive to *)
(* a label of a decision that is no node, which check_graph lets pass, is  *)
(* NoBranch: no route is ever taken there.                                 *)
(***************************************************************************)
ASSUME GraphAssumption ==
  /\ N \in Nat \ {0}
  /\ Inputs \in [Node -> SUBSET Node]
  /\ \A n \in Node : \A m \in Inputs[n] : m <= n
  /\ Exclusive \in [Node -> [decision : Node, label : Labels] \cup {NoBranch}]
  /\ NoBranch \notin [decision : Node, label : Labels]
  /\ Fanout \subseteq Node
  /\ Escalating \subseteq Node

ASSUME ValueAssumption ==
  /\ Route \in [Values -> Labels \cup {NoRoute}]
  /\ NoRoute \notin Labels
  /\ MaxItems \in Nat
  /\ ManifestLen \in [Manifests -> 0..MaxItems]
  /\ NoManifest \notin Manifests
  /\ StorageFaults \in BOOLEAN
  /\ Warehouse \in BOOLEAN

(***************************************************************************)
(* What a fan-out node hands downstream: the counts of the collection      *)
(* record (its two paths are determined by the node).                      *)
(***************************************************************************)
Collection == [succeeded : Nat, failed : Nat]

OutputValue == Values \cup Collection

ASSUME OutputAssumption ==
  /\ NoOutput \notin OutputValue
  /\ Values \cap Collection = {}

\* The "route" field of an output; a fan-out collection has none.
RouteOf(out) == IF out \in Values THEN Route[out] ELSE NoRoute

(***************************************************************************)
(* The labels run_job accepts as the route of node n: those of every       *)
(* exclusivity entry naming n as its decision.                             *)
(***************************************************************************)
ValidLabels(n) ==
  {Exclusive[m].label : m \in {k \in Node : /\ Exclusive[k] # NoBranch
                                            /\ Exclusive[k].decision = n}}

RouteAcceptable(n, v) == ValidLabels(n) = {} \/ Route[v] \in ValidLabels(n)

VARIABLES
  \* The ledger: durable, one row or column per statement of ledger.rs.
  jobStatus,      \* job_status.status
  whole,          \* checkpoints rows with item_index = -1
  item,           \* checkpoints rows with item_index >= 0
  pin,            \* fanout_manifests.digest
  \* Other files.
  files,          \* results/<node>.{results,failures}.jsonl
  warehouse,      \* what the job's warehouse describes
  manifest,       \* the fan-out manifest files, edited by anyone
  \* run_job's own memory, lost in a crash.
  phase,          \* where run_job is
  at,             \* the node the loop is at
  outputs, skipped, routeTaken,
  fan,            \* run_fanout_node's locals
  cancel,         \* the job's CancellationToken
  verdict,        \* the Envelope
  resumed         \* resume_job, and not submit_job, entered this run

ledger  == <<jobStatus, whole, item, pin>>
disk    == <<files, warehouse, manifest>>
memory  == <<phase, at, outputs, skipped, routeTaken, fan, cancel, verdict, resumed>>
vars    == <<ledger, disk, memory>>

NoRow     == [status |-> "none", out |-> NoOutput]
NoItemRow == [status |-> "none", out |-> NoOutput, from |-> NoManifest]
NoFan     == [from |-> NoManifest, next |-> 0, succeeded |-> 0, failed |-> 0]

\* Mutant: a cancelled run reported as interrupted.
UnfinishedEnvelope(status, result) ==
  [status |-> IF cancel THEN "interrupted" ELSE status, result |-> result]

Envelope(status, result) == [status |-> status, result |-> result]

-----------------------------------------------------------------------------
(***************************************************************************)
(* Starting and stopping                                                   *)
(***************************************************************************)

Init ==
  /\ jobStatus = "running"
  /\ whole = [n \in Node |-> NoRow]
  /\ item = [n \in Fanout |-> [i \in ItemIndex |-> NoItemRow]]
  /\ pin = [n \in Fanout |-> NoManifest]
  /\ files = [n \in Fanout |-> NoFiles]
  /\ warehouse = NoWarehouse
  /\ manifest \in [Fanout -> Manifests]
  /\ phase = "down"
  /\ at = 1
  /\ outputs = [n \in Node |-> NoOutput]
  /\ skipped = {}
  /\ routeTaken = [n \in Node |-> NoRoute]
  /\ fan = NoFan
  /\ cancel = FALSE
  /\ verdict = NoVerdict
  /\ resumed = FALSE

(***************************************************************************)
(* run_job is entered with empty memory: by submit on a new ledger, by     *)
(* resume on one a restarted daemon found still "running"; by resume alone *)
(* once a run has been cut off.                                            *)
(***************************************************************************)
\* Mutant: resume also accepts a failed job.
ResumableFailed == jobStatus \in {"running", "failed"}

Resumable == jobStatus = "running"

Begin ==
  /\ phase = "down"
  /\ Resumable
  /\ phase' = "start"
  /\ resumed' \in {resumed, TRUE}
  /\ UNCHANGED <<ledger, disk, at, outputs, skipped, routeTaken, fan, cancel, verdict>>

\* The run block ends with a failed or cancelled envelope.
BreakRun(status) ==
  /\ verdict' = Envelope(status, NoOutput)
  /\ phase' = "finishing"
  /\ UNCHANGED <<at, outputs, skipped, routeTaken, fan, cancel, resumed>>

\* Every node's accept list compiled, or one of them did not.
StartLoop ==
  /\ phase = "start"
  /\ phase' = "nodes"
  /\ UNCHANGED <<ledger, disk, at, outputs, skipped, routeTaken, fan, cancel, verdict, resumed>>

RejectChecks ==
  /\ phase = "start"
  /\ BreakRun("failed")
  /\ UNCHANGED <<ledger, disk>>

-----------------------------------------------------------------------------
(***************************************************************************)
(* The node loop                                                           *)
(***************************************************************************)

AtNode(n) == phase = "nodes" /\ at = n

\* The loop moves to the next node.
NextNode == phase' = "nodes" /\ at' = at + 1

\* Neither is_skipped nor get_completed answered for this node.
Pending(n) == whole[n].status \notin {"skipped", "completed"}

\* Mutant: is_skipped answers for every row that is not completed.
IsSkippedOrEscalated(n) == whole[n].status \in {"skipped", "escalated"}

IsSkipped(n) == whole[n].status = "skipped"

VisitSkipped(n) ==
  /\ AtNode(n)
  /\ IsSkipped(n)
  /\ skipped' = skipped \cup {n}
  /\ NextNode
  /\ UNCHANGED <<ledger, disk, outputs, routeTaken, fan, cancel, verdict, resumed>>

\* Mutant: a reused decision records no route.
RouteForgotten(n) == NoRoute

\* The route a reused output was taken with, re-derived from the row.
RouteReused(n) == RouteOf(whole[n].out)

\* The recorded output is reused.
VisitCompleted(n) ==
  /\ AtNode(n)
  /\ whole[n].status = "completed"
  /\ outputs' = [outputs EXCEPT ![n] = whole[n].out]
  /\ routeTaken' = [routeTaken EXCEPT ![n] = RouteReused(n)]
  /\ NextNode
  /\ UNCHANGED <<ledger, disk, skipped, fan, cancel, verdict, resumed>>

(***************************************************************************)
(* The decision node n is exclusive to took another label.  A decision     *)
(* with no recorded route excludes nothing.                                *)
(***************************************************************************)
BranchExcludes(n) ==
  /\ Exclusive[n] # NoBranch
  /\ routeTaken[Exclusive[n].decision] \notin {NoRoute, Exclusive[n].label}

\* Mutant: references_all instead of references_any.
NeedsOnlySkipped(n) == Inputs[n] # {} /\ Inputs[n] \subseteq skipped

\* Mutant: the input needs a node that has no output yet, the loop itself included.
NeedsMissing(n) == \E m \in Inputs[n] : outputs[m] = NoOutput

\* references_any: the input needs a node that was skipped.
NeedsSkipped(n) == Inputs[n] \cap skipped # {}

RecordSkip(n) ==
  /\ skipped' = skipped \cup {n}
  /\ whole' = [whole EXCEPT ![n] = [status |-> "skipped", out |-> NoOutput]]
  /\ NextNode
  /\ UNCHANGED <<jobStatus, item, pin, disk, outputs, routeTaken, fan, cancel, verdict, resumed>>

SkipByBranch(n) ==
  /\ AtNode(n)
  /\ Pending(n)
  /\ BranchExcludes(n)
  /\ RecordSkip(n)

SkipTransitively(n) ==
  /\ AtNode(n)
  /\ Pending(n)
  /\ ~BranchExcludes(n)
  /\ NeedsSkipped(n)
  /\ RecordSkip(n)

\* The node is to be run now.
ToRun(n) ==
  /\ AtNode(n)
  /\ Pending(n)
  /\ ~BranchExcludes(n)
  /\ ~NeedsSkipped(n)

\* Mutant: a failed checkpoint write is only logged.
CheckpointLost(n, out) == whole

\* The rows once write_completed recorded out for node n.
Checkpoint(n, out) == [whole EXCEPT ![n] = [status |-> "completed", out |-> out]]

(***************************************************************************)
(* The ladder accepted v and, when n is a branches decision, v carries a   *)
(* route the decision declares.                                            *)
(***************************************************************************)
RunNode(n, v) ==
  /\ ToRun(n)
  /\ n \notin Fanout
  /\ RouteAcceptable(n, v)
  /\ whole' = Checkpoint(n, v)
  /\ outputs' = [outputs EXCEPT ![n] = v]
  /\ routeTaken' = [routeTaken EXCEPT ![n] = RouteOf(v)]
  /\ NextNode
  /\ UNCHANGED <<jobStatus, item, pin, disk, skipped, fan, cancel, verdict, resumed>>

\* The ladder accepted v but its route is missing or not a declared label.
RejectRoute(n, v) ==
  /\ ToRun(n)
  /\ n \notin Fanout
  /\ ~RouteAcceptable(n, v)
  /\ BreakRun("failed")
  /\ UNCHANGED <<ledger, disk>>

(***************************************************************************)
(* The ladder ran out.  An escalation row is written when it ended on an   *)
(* escalate rung, which a ladder can only have last, and not on a reroute  *)
(* before it whose model is missing; a failure to write it is only logged. *)
(***************************************************************************)
ExhaustNode(n) ==
  /\ ToRun(n)
  /\ n \notin Fanout
  /\ \/ whole' = whole
     \/ /\ n \in Escalating
        /\ whole' = [whole EXCEPT ![n] = [status |-> "escalated", out |-> NoOutput]]
  /\ BreakRun("failed")
  /\ UNCHANGED <<jobStatus, item, pin, disk>>

\* The block noticed the cancellation: the ladder stops dead.
InterruptNode(n) ==
  /\ ToRun(n)
  /\ n \notin Fanout
  /\ cancel
  /\ BreakRun("cancelled")
  /\ UNCHANGED <<ledger, disk>>

-----------------------------------------------------------------------------
(***************************************************************************)
(* run_fanout_node                                                         *)
(***************************************************************************)

\* Mutant: the digest is replaced instead of compared.
PinReplaced(n) == TRUE

\* check_or_record_manifest: no manifest is pinned yet, or this very one.
PinAccepts(n) == pin[n] \in {NoManifest, manifest[n]}

OpenManifest(n) ==
  /\ ToRun(n)
  /\ n \in Fanout
  /\ ManifestLen[manifest[n]] > 0
  /\ PinAccepts(n)
  /\ pin' = [pin EXCEPT ![n] = manifest[n]]
  /\ fan' = [from |-> manifest[n], next |-> 0, succeeded |-> 0, failed |-> 0]
  /\ phase' = "items"
  /\ UNCHANGED <<jobStatus, whole, item, disk,
                 at, outputs, skipped, routeTaken, cancel, verdict, resumed>>

\* The manifest cannot be read, is empty, or is not the pinned one.
Unusable(n) == ManifestLen[manifest[n]] = 0 \/ ~PinAccepts(n)

RejectManifest(n) ==
  /\ ToRun(n)
  /\ n \in Fanout
  /\ Unusable(n)
  /\ BreakRun("failed")
  /\ UNCHANGED <<ledger, disk>>

\* The item loop is at an item the manifest has.
AtItem == phase = "items" /\ fan.next < ManifestLen[fan.from]

Concluded(n, i) == item[n][i].status # "none"

CancelBetweenItems ==
  /\ AtItem
  /\ cancel
  /\ BreakRun("cancelled")
  /\ UNCHANGED <<ledger, disk>>

\* One more item counted; the loop is back at its head.
CountItem(field) ==
  /\ fan' = [fan EXCEPT !.next = @ + 1, ![field] = @ + 1]
  /\ phase' = "items"
  /\ UNCHANGED <<at, outputs, skipped, routeTaken, cancel, verdict, resumed>>

\* Mutant: a concluded item is taken for a success.
ConcludedIsSuccess == "succeeded"

\* Which count an item concluded by an earlier run goes to.
RecordedCount == IF item[at][fan.next].status = "completed" THEN "succeeded" ELSE "failed"

CountConcluded ==
  /\ AtItem
  /\ ~cancel
  /\ Concluded(at, fan.next)
  /\ CountItem(RecordedCount)
  /\ UNCHANGED <<ledger, disk>>

(***************************************************************************)
(* get_item_completed failed: unwrap_or(None) counts the item as failed    *)
(* whatever its row says.                                                  *)
(***************************************************************************)
MiscountConcluded ==
  /\ StorageFaults
  /\ AtItem
  /\ ~cancel
  /\ Concluded(at, fan.next)
  /\ CountItem("failed")
  /\ UNCHANGED <<ledger, disk>>

\* The row of the item the loop is at, with the input it was given.
ConcludeItem(status, out) ==
  item' = [item EXCEPT ![at][fan.next] = [status |-> status, out |-> out, from |-> fan.from]]

\* The manifest line does not match the block's declared input.
MismatchItem ==
  /\ AtItem
  /\ ~cancel
  /\ ~Concluded(at, fan.next)
  /\ ConcludeItem("failed", NoOutput)
  /\ CountItem("failed")
  /\ UNCHANGED <<jobStatus, whole, pin, disk>>

\* The item's ladder is running.
StartItem ==
  /\ AtItem
  /\ ~cancel
  /\ ~Concluded(at, fan.next)
  /\ phase' = "inflight"
  /\ UNCHANGED <<ledger, disk, at, outputs, skipped, routeTaken, fan, cancel, verdict, resumed>>

CompleteItem(v) ==
  /\ phase = "inflight"
  /\ ConcludeItem("completed", v)
  /\ CountItem("succeeded")
  /\ UNCHANGED <<jobStatus, whole, pin, disk>>

\* As a node, but an item that is not escalated has a failed row.
ExhaustItem ==
  /\ phase = "inflight"
  /\ \/ ConcludeItem("failed", NoOutput)
     \/ at \in Escalating /\ ConcludeItem("escalated", NoOutput)
  /\ CountItem("failed")
  /\ UNCHANGED <<jobStatus, whole, pin, disk>>

\* A cancelled item is not a failed item: it leaves no row.
InterruptItem ==
  /\ phase = "inflight"
  /\ cancel
  /\ BreakRun("cancelled")
  /\ UNCHANGED <<ledger, disk>>

ItemsDone == phase = "items" /\ fan.next = ManifestLen[fan.from]

AllItemsFailed ==
  /\ ItemsDone
  /\ fan.succeeded = 0
  /\ BreakRun("failed")
  /\ UNCHANGED <<ledger, disk>>

ItemsOf(n, statuses) == {i \in ItemIndex : item[n][i].status \in statuses}

(***************************************************************************)
(* What the two JSONL files say, projected from the item rows: one line    *)
(* per completed item with its output, one per other concluded item.       *)
(***************************************************************************)
ResultLines(n) == {<<i, item[n][i].out>> : i \in ItemsOf(n, {"completed"})}

\* Mutant: escalated items left out of the failures file.
FailedLinesOnly(n) == ItemsOf(n, {"failed"})

FailureLines(n) == ItemsOf(n, {"failed", "escalated"})

SetResults(lines) ==
  files' = [files EXCEPT ![at] = [results  |-> lines,
                                  failures |-> IF @ = NoFiles THEN {} ELSE @.failures]]

SetFailures(lines) == files' = [files EXCEPT ![at].failures = lines]

WriteResults ==
  /\ ItemsDone
  /\ fan.succeeded > 0
  /\ SetResults(ResultLines(at))
  /\ phase' = "results"
  /\ UNCHANGED <<ledger, warehouse, manifest,
                 at, outputs, skipped, routeTaken, fan, cancel, verdict, resumed>>

WriteFailures ==
  /\ phase = "results"
  /\ SetFailures(FailureLines(at))
  /\ phase' = "files"
  /\ UNCHANGED <<ledger, warehouse, manifest,
                 at, outputs, skipped, routeTaken, fan, cancel, verdict, resumed>>

(***************************************************************************)
(* A write of one of the files that stops halfway, by an error or a crash, *)
(* leaves only some of its lines.                                          *)
(***************************************************************************)
MayTearFile ==
  \/ files' = files
  \/ /\ ItemsDone
     /\ fan.succeeded > 0
     /\ \E lines \in SUBSET ResultLines(at) : SetResults(lines)
  \/ /\ phase = "results"
     /\ \E lines \in SUBSET FailureLines(at) : SetFailures(lines)

Collected == [succeeded |-> fan.succeeded, failed |-> fan.failed]

RecordCollection ==
  /\ phase = "files"
  /\ whole' = Checkpoint(at, Collected)
  /\ outputs' = [outputs EXCEPT ![at] = Collected]
  /\ NextNode
  /\ UNCHANGED <<jobStatus, item, pin, disk, skipped, routeTaken, fan, cancel, verdict, resumed>>

-----------------------------------------------------------------------------
(***************************************************************************)
(* The end of the run                                                      *)
(***************************************************************************)

\* Mutant: the nodes searched from the first instead of the last.
FirstRan(n) == outputs[n] # NoOutput /\ \A m \in 1..(n - 1) : outputs[m] = NoOutput

\* The last node, in topological order, that has an output.
LastRan(n) == outputs[n] # NoOutput /\ \A m \in (n + 1)..N : outputs[m] = NoOutput

Conclude ==
  /\ AtNode(N + 1)
  /\ \/ \E n \in Node : LastRan(n) /\ verdict' = Envelope("completed", outputs[n])
     \/ /\ \A n \in Node : outputs[n] = NoOutput
        /\ verdict' = Envelope("failed", NoOutput)
  /\ phase' = "finishing"
  /\ UNCHANGED <<ledger, disk, at, outputs, skipped, routeTaken, fan, cancel, resumed>>

(***************************************************************************)
(* A ledger read or write, or a results file write, returned an error: the *)
(* run breaks off as failed.                                               *)
(***************************************************************************)
StorageFault ==
  /\ StorageFaults
  /\ phase \in {"nodes", "items", "inflight", "results", "files"}
  /\ at \in Node
  /\ MayTearFile
  /\ BreakRun("failed")
  /\ UNCHANGED <<ledger, warehouse, manifest>>

AfterFinish == IF Warehouse THEN "finished" ELSE "done"

Finish ==
  /\ phase = "finishing"
  /\ \/ jobStatus' = verdict.status
     \/ StorageFaults /\ jobStatus' = jobStatus   \* logged, not fatal
  /\ phase' = AfterFinish
  /\ UNCHANGED <<whole, item, pin, disk,
                 at, outputs, skipped, routeTaken, fan, cancel, verdict, resumed>>

\* The projection of everything recorded, rewritten whole; errors are swallowed.
WriteWarehouse ==
  /\ phase = "finished"
  /\ \/ warehouse' = [rows |-> item, result |-> verdict.result]
     \/ StorageFaults /\ warehouse' = warehouse
  /\ phase' = "done"
  /\ UNCHANGED <<ledger, files, manifest,
                 at, outputs, skipped, routeTaken, fan, cancel, verdict, resumed>>

-----------------------------------------------------------------------------
(***************************************************************************)
(* The events of the run                                                   *)
(***************************************************************************)

\* Mutant: submit holds its receiver unread as well.
NeverForwarded == FALSE

\* A submitted run's events are taken by a task of their own; a resumed run's
\* receiver is held and never read.
Forwarded == ~resumed

\* Before a node it decides afresh and before an item it runs, the run sends
\* its progress; while either runs, its block and its model send more.
Sends ==
  \/ \E n \in Node : AtNode(n) /\ Pending(n)
  \/ AtItem /\ ~cancel /\ ~Concluded(at, fan.next)
  \/ phase = "inflight"

(***************************************************************************)
(* A send that finds the bounded channel full waits for room.  Events are  *)
(* not counted: where nobody reads, any of them may be the one too many,   *)
(* and the run is in that send for good.                                   *)
(***************************************************************************)
AwaitRoom ==
  /\ Sends
  /\ ~Forwarded
  /\ phase' = "sending"
  /\ UNCHANGED <<ledger, disk, at, outputs, skipped, routeTaken, fan, cancel, verdict, resumed>>

-----------------------------------------------------------------------------
(***************************************************************************)
(* The surroundings of the run                                             *)
(***************************************************************************)

RequestCancel ==
  /\ phase \notin {"down", "done"}
  /\ ~cancel
  /\ cancel' = TRUE
  /\ UNCHANGED <<ledger, disk, phase, at, outputs, skipped, routeTaken, fan, verdict, resumed>>

\* Cancelling a job that is only in the ledger writes its status there.
CancelInterrupted ==
  /\ phase = "down"
  /\ jobStatus = "running"
  /\ jobStatus' = "cancelled"
  /\ UNCHANGED <<whole, item, pin, disk, memory>>

\* The daemon dies: nothing of memory survives.
Crash ==
  /\ phase # "down"
  /\ MayTearFile
  /\ phase' = "down"
  /\ at' = 1
  /\ outputs' = [n \in Node |-> NoOutput]
  /\ skipped' = {}
  /\ routeTaken' = [n \in Node |-> NoRoute]
  /\ fan' = NoFan
  /\ cancel' = FALSE
  /\ verdict' = NoVerdict
  /\ resumed' = TRUE
  /\ UNCHANGED <<ledger, warehouse, manifest>>

EditManifest(n, m) ==
  /\ manifest[n] # m
  /\ manifest' = [manifest EXCEPT ![n] = m]
  /\ UNCHANGED <<ledger, files, warehouse, memory>>

-----------------------------------------------------------------------------

NodeStep(n) ==
  \/ VisitSkipped(n)
  \/ VisitCompleted(n)
  \/ SkipByBranch(n)
  \/ SkipTransitively(n)
  \/ \E v \in Values : RunNode(n, v)
  \/ \E v \in Values : RejectRoute(n, v)
  \/ ExhaustNode(n)
  \/ InterruptNode(n)
  \/ OpenManifest(n)
  \/ RejectManifest(n)

ItemStep ==
  \/ CancelBetweenItems
  \/ CountConcluded
  \/ MiscountConcluded
  \/ MismatchItem
  \/ StartItem
  \/ \E v \in Values : CompleteItem(v)
  \/ ExhaustItem
  \/ InterruptItem
  \/ AllItemsFailed
  \/ WriteResults
  \/ WriteFailures
  \/ RecordCollection

\* A step of run_job itself.
RunStep ==
  \/ StartLoop
  \/ RejectChecks
  \/ \E n \in Node : NodeStep(n)
  \/ ItemStep
  \/ AwaitRoom
  \/ Conclude
  \/ StorageFault
  \/ Finish
  \/ WriteWarehouse

Surroundings ==
  \/ Begin
  \/ RequestCancel
  \/ CancelInterrupted
  \/ Crash
  \/ \E n \in Fanout, m \in Manifests : EditManifest(n, m)

Next == RunStep \/ Surroundings

Spec == Init /\ [][Next]_vars

(***************************************************************************)
(* Once entered, run_job is a task of the runtime that is polled until it  *)
(* returns.  What it waits for ends, a send into a channel nobody reads    *)
(* excepted: the model answers or fails, or the cancellation is noticed.   *)
(* Nobody promises to resume, cancel, crash or edit.                       *)
(***************************************************************************)
FairSpec == Spec /\ WF_vars(RunStep)

-----------------------------------------------------------------------------
(***************************************************************************)
(* Properties                                                              *)
(***************************************************************************)

Phases == {"down", "start", "nodes", "items", "inflight", "results", "files", "sending",
           "finishing", "finished", "done"}

WholeRow == [status : {"none", "completed", "skipped", "escalated"},
             out    : OutputValue \cup {NoOutput}]

ItemRow == [status : {"none", "completed", "failed", "escalated"},
            out    : Values \cup {NoOutput},
            from   : Manifests \cup {NoManifest}]

ItemTable == [Fanout -> [ItemIndex -> ItemRow]]

LedgerType ==
  /\ jobStatus \in {"running", "completed", "failed", "cancelled"}
  /\ whole \in [Node -> WholeRow]
  /\ \A n \in Node : whole[n].out # NoOutput <=> whole[n].status = "completed"
  /\ item \in ItemTable
  /\ pin \in [Fanout -> Manifests \cup {NoManifest}]

FilePair == [results : SUBSET (ItemIndex \X (Values \cup {NoOutput})), failures : SUBSET ItemIndex]

\* No files is not a pair of empty ones.
ASSUME FilesAssumption == NoFiles \notin FilePair

DiskType ==
  /\ files \in [Fanout -> FilePair \cup {NoFiles}]
  /\ warehouse \in [rows : ItemTable, result : OutputValue \cup {NoOutput}] \cup {NoWarehouse}
  /\ manifest \in [Fanout -> Manifests]

FanLocals == [from : Manifests \cup {NoManifest}, next : 0..MaxItems, succeeded : Nat, failed : Nat]

Verdicts == [status : {"completed", "failed", "cancelled"}, result : OutputValue \cup {NoOutput}]

MemoryType ==
  /\ phase \in Phases
  /\ at \in 1..(N + 1)
  /\ outputs \in [Node -> OutputValue \cup {NoOutput}]
  /\ skipped \subseteq Node
  /\ routeTaken \in [Node -> Labels \cup {NoRoute}]
  /\ fan \in FanLocals
  /\ cancel \in BOOLEAN
  /\ verdict \in Verdicts \cup {NoVerdict}
  /\ resumed \in BOOLEAN

(***************************************************************************)
(* Every variable has the shape the code gives it, including that a node   *)
(* row has an output exactly when it says completed (run_job, ledger.rs).  *)
(***************************************************************************)
TypeOK == LedgerType /\ DiskType /\ MemoryType

\* What the ledger says of a node, as the walk's memory would hold it.
RecordedOutput(n) == whole[n].out
RecordedSkips     == {n \in Node : whole[n].status = "skipped"}
Decided(n)        == whole[n].status \in {"completed", "skipped"}

(***************************************************************************)
(* Resume rebuilds exactly the memory the ledger describes: for every node *)
(* the walk has passed, in this run or an earlier one, outputs, skips and  *)
(* routes are those of the rows, and nothing is known of later nodes       *)
(* (runner.rs: is_skipped, get_completed and the re-derived route_taken).  *)
(***************************************************************************)
Walking == phase \in {"nodes", "items", "inflight", "results", "files"}

MemoryMatchesLedger ==
  Walking =>
    /\ \A n \in 1..(at - 1) :
         /\ Decided(n)
         /\ outputs[n] = RecordedOutput(n)
         /\ n \in skipped <=> n \in RecordedSkips
         /\ routeTaken[n] = RouteOf(RecordedOutput(n))
    /\ \A n \in at..N :
         /\ outputs[n] = NoOutput
         /\ n \notin skipped
         /\ routeTaken[n] = NoRoute

(***************************************************************************)
(* A node runs only on inputs that exist: whenever a node is recorded as   *)
(* completed, every node its input references (itself apart) is completed  *)
(* too, so evaluate_input never fed it a null for a skipped node.          *)
(***************************************************************************)
CompletedInputsCompleted ==
  \A n \in Node : whole[n].status = "completed" =>
    \A m \in Inputs[n] \ {n} : whole[m].status = "completed"

(***************************************************************************)
(* Exactly one side of a decision runs, even when a crash falls between    *)
(* the decision and the nodes it gates: a completed node exclusive to a    *)
(* label never coexists with a decision recorded with another label.       *)
(***************************************************************************)
BranchRespected ==
  \A n \in Node :
    /\ Exclusive[n] # NoBranch
    /\ Exclusive[n].decision < n
    /\ whole[n].status = "completed"
    => RouteOf(whole[Exclusive[n].decision].out) \in {NoRoute, Exclusive[n].label}

(***************************************************************************)
(* Nothing is skipped without a cause that is itself on record: its        *)
(* decision went elsewhere or one of its inputs was skipped.               *)
(***************************************************************************)
SkipJustified ==
  \A n \in RecordedSkips :
    \/ /\ Exclusive[n] # NoBranch
       /\ RouteOf(whole[Exclusive[n].decision].out) \notin {NoRoute, Exclusive[n].label}
    \/ \E m \in Inputs[n] \ {n} : whole[m].status = "skipped"

\* What the dispatch loop decides of a node, run or skip, is what the rows of
\* the nodes before it say, over any number of runs.
DispatchRespected == CompletedInputsCompleted /\ BranchRespected /\ SkipJustified

(***************************************************************************)
(* Every item row of a node was produced from the one manifest the node is *)
(* pinned to, however often the file was edited between runs               *)
(* (check_or_record_manifest).                                             *)
(***************************************************************************)
ItemsMatchPin ==
  \A n \in Fanout : \A i \in ItemIndex :
    Concluded(n, i) => /\ pin[n] # NoManifest
                       /\ item[n][i].from = pin[n]
                       /\ i < ManifestLen[pin[n]]

(***************************************************************************)
(* A completed fan-out node's counts are those of its item rows and cover  *)
(* its whole manifest, even when some items were counted from an earlier   *)
(* run.  (Holds when storage reads do not fail: see MiscountConcluded.)    *)
(***************************************************************************)
CountsMatchLedger ==
  \A n \in Fanout : whole[n].status = "completed" =>
    /\ whole[n].out.succeeded = Cardinality(ItemsOf(n, {"completed"}))
    /\ whole[n].out.failed = Cardinality(ItemsOf(n, {"failed", "escalated"}))
    /\ whole[n].out.succeeded + whole[n].out.failed = ManifestLen[pin[n]]
    /\ whole[n].out.succeeded > 0

(***************************************************************************)
(* Once a fan-out node is completed, its two files have exactly one line   *)
(* for every item of its manifest, on the side its row says: a crash       *)
(* between or within the two writes is repaired by the next run before the *)
(* node is recorded (runner.rs: the files are projections of the ledger).  *)
(***************************************************************************)
FilesMatchLedger ==
  \A n \in Fanout : whole[n].status = "completed" =>
    LET lines == files[n] IN
    /\ lines # NoFiles
    /\ {l[1] : l \in lines.results} \cup lines.failures = 0..(ManifestLen[pin[n]] - 1)
    /\ \A l \in lines.results : /\ item[n][l[1]].status = "completed"
                                /\ item[n][l[1]].out = l[2]
    /\ \A i \in lines.failures : item[n][i].status \in {"failed", "escalated"}

\* What a completed fan-out hands on, its counts and its two files, is what
\* its item rows say, whichever of its runs wrote them.
CollectionMatchesLedger == CountsMatchLedger /\ FilesMatchLedger

(***************************************************************************)
(* A job is recorded as completed only when every node is decided, and the *)
(* envelope's result is what the ledger holds for the last node that ran.  *)
(***************************************************************************)
CompletedMeansDecided ==
  /\ jobStatus = "completed" =>
       /\ \A n \in Node : Decided(n)
       /\ \E n \in Node : whole[n].status = "completed"
  /\ (phase \in {"finishing", "finished", "done"} /\ verdict.status = "completed") =>
       \E n \in Node : /\ verdict.result = whole[n].out
                       /\ whole[n].status = "completed"
                       /\ \A m \in (n + 1)..N : whole[m].status = "skipped"

(***************************************************************************)
(* A conclusion is final: no step, in this run or after a crash, changes   *)
(* the row of a completed or skipped node, of a concluded item, the        *)
(* manifest a node is pinned to, or the status of a finished job.          *)
(***************************************************************************)
ConclusionsFinal ==
  [][/\ \A n \in Node : Decided(n) => whole'[n] = whole[n]
     /\ \A n \in Fanout : \A i \in ItemIndex : Concluded(n, i) => item'[n][i] = item[n][i]
     /\ \A n \in Fanout : pin[n] # NoManifest => pin'[n] = pin[n]
     /\ jobStatus # "running" => jobStatus' = jobStatus]_vars

(***************************************************************************)
(* A submitted job's run_job returns, unless the daemon dies first, and    *)
(* whatever it finds: unusable manifests, exhausted items, cancellations.  *)
(* Nothing of the kind holds of a resumed one, whose sends may never end.  *)
(***************************************************************************)
RunReturns == (~resumed /\ phase \notin {"down", "done"}) ~> (phase \in {"down", "done"})

(***************************************************************************)
(* The outputs a node may end with: a fan-out's counts over one of its     *)
(* manifests with at least one success, or an accepted value with a route  *)
(* the decision declares.                                                  *)
(***************************************************************************)
NodeOutputs(n) ==
  IF n \in Fanout
  THEN {c \in [succeeded : 1..MaxItems, failed : 0..MaxItems] :
          \E m \in Manifests : c.succeeded + c.failed = ManifestLen[m]}
  ELSE {v \in Values : RouteAcceptable(n, v)}

Execution == INSTANCE DagExecution WITH
  Outputs <- NodeOutputs,
  decided <- {n \in Node : Decided(n)},
  output  <- [n \in Node |-> RecordedOutput(n)],
  status  <- jobStatus

(***************************************************************************)
(* Crash and resume are invisible in what the ledger records: the job      *)
(* implements the uninterrupted execution of its graph (run_job's rule     *)
(* that a later run starts from exactly what an earlier one left).         *)
(***************************************************************************)
CrashTransparent == Execution!Spec
=============================================================================

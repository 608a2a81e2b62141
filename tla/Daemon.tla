-------------------------------- MODULE Daemon --------------------------------
(***************************************************************************)
(* The life of jobs in cuttlefishd (crates/cuttlefishd/src: api.rs,        *)
(* state.rs, lib.rs, main.rs): submission, the task that runs a job, the   *)
(* requests that cancel and resume it, the daemon's shutdown or death, and *)
(* the scan of the jobs root by the daemon started after it.               *)
(*                                                                         *)
(* A job is in two places: the ledger in its directory, which survives,    *)
(* and the JobStore of each daemon process, which does not.  Handlers and  *)
(* job tasks run concurrently; what one does under the JobStore's mutex,   *)
(* or in one statement of a ledger, is one step.                           *)
(*                                                                         *)
(* Abstractions.  What run_job does between its first node and its status  *)
(* is module JobRun; here it is one step to an outcome.  Of a spec only    *)
(* its identity and its graph fingerprint matter.  Events are left out.    *)
(***************************************************************************)
EXTENDS Integers, FiniteSets

CONSTANTS
  Daemons,    \* daemon processes over one jobs root; a restart reuses a name
  Jobs,       \* job ids
  Specs,      \* the specs a daemon may be serving
  GraphFingerprint,  \* of each: graph_fingerprint of its checked nodes
  Requests,   \* concurrent POST /jobs/{id}/resume handlers
  Lingers,    \* whether a daemon may start while another is still going down
  Faults,     \* whether a ledger or file operation may fail
  MaxStops,   \* bound: daemon deaths in a behaviour
  Submitter,  \* stands for POST /jobs where a task names what spawned it
  NoSpec, NoIntake, Idle

(***************************************************************************)
(* graph_fingerprint hashes the names, signatures, `over`, `accept` and    *)
(* `on_fail` of the nodes.  Specs that differ in what else a run follows   *)
(* (`in` expressions, branches, loops, blocks) share one.                  *)
(***************************************************************************)
Fingerprints == {GraphFingerprint[s] : s \in Specs}

Outcome == {"completed", "failed", "cancelled"}

LedgerStatus == {"absent", "running"} \cup Outcome

StoreStatus == {"unknown", "running", "interrupted"} \cup Outcome

\* A spawned run_job: still walking its graph, or what it returned.
Task == [daemon : Daemons, job : Jobs, by : Requests \cup {Submitter},
         at : {"walking"} \cup Outcome]

Intake == [daemon : Daemons, at : {"ledger", "input"}]

Resume == [daemon : Daemons, job : Jobs, at : {"seen", "checked"}]

ASSUME DaemonAssumption ==
  /\ DOMAIN GraphFingerprint = Specs
  /\ NoSpec \notin Specs /\ NoSpec \notin Fingerprints
  /\ NoIntake \notin Intake
  /\ Idle \notin Resume
  /\ Submitter \notin Requests
  /\ Lingers \in BOOLEAN
  /\ Faults \in BOOLEAN
  /\ MaxStops \in Nat

VARIABLES
  \* The jobs root: durable.
  ledger,       \* job_status.status of each job's ledger.sqlite
  fingerprint,  \* job_status.graph_fingerprint
  input,        \* jobs whose input.json is written
  \* Each daemon process.
  phase,        \* down, scanning, serving, or stopping
  serving,      \* the spec it serves
  unscanned,    \* job directories its startup scan has yet to visit
  store,        \* JobStore: a job's status
  envelope,     \* JobStore: the jobs with an envelope
  token,        \* JobStore: the jobs whose CancellationToken is cancelled
  tasks,        \* the spawned tasks that have not delivered an envelope
  \* Handlers in flight.
  intake,       \* a submit handler's progress on a job
  request,      \* a resume handler's progress
  \* History.
  accepted,     \* jobs whose submitter was answered 202
  submitted,    \* the spec each job was submitted against
  stops

durable  == <<ledger, fingerprint, input>>
process  == <<phase, serving, unscanned>>
jobs     == <<store, envelope, token>>
handlers == <<intake, request>>
history  == <<accepted, submitted, stops>>
vars     == <<durable, process, jobs, tasks, handlers, history>>

Spawned(d, j, by) == [daemon |-> d, job |-> j, by |-> by, at |-> "walking"]

Init ==
  /\ ledger = [j \in Jobs |-> "absent"]
  /\ fingerprint = [j \in Jobs |-> NoSpec]
  /\ input = {}
  /\ phase = [d \in Daemons |-> "down"]
  /\ serving = [d \in Daemons |-> NoSpec]
  /\ unscanned = [d \in Daemons |-> {}]
  /\ store = [d \in Daemons |-> [j \in Jobs |-> "unknown"]]
  /\ envelope = [d \in Daemons |-> {}]
  /\ token = [d \in Daemons |-> {}]
  /\ tasks = {}
  /\ intake = [j \in Jobs |-> NoIntake]
  /\ request = [q \in Requests |-> Idle]
  /\ accepted = {}
  /\ submitted = [j \in Jobs |-> NoSpec]
  /\ stops = 0

-----------------------------------------------------------------------------
(***************************************************************************)
(* The process: startup scan, shutdown, death                              *)
(***************************************************************************)

\* A new daemon waits for the endpoint, which a stopping one has closed.
MayStart ==
  \A e \in Daemons : phase[e] = "down" \/ (Lingers /\ phase[e] = "stopping")

Start(d, s) ==
  /\ phase[d] = "down"
  /\ MayStart
  /\ phase' = [phase EXCEPT ![d] = "scanning"]
  /\ serving' = [serving EXCEPT ![d] = s]
  /\ unscanned' = [unscanned EXCEPT ![d] = {j \in Jobs : ledger[j] # "absent"}]
  /\ UNCHANGED <<durable, jobs, tasks, handlers, history>>

ScanFinds(j) == ledger[j] = "running"

ScanJob(d, j) ==
  /\ phase[d] = "scanning"
  /\ j \in unscanned[d]
  /\ unscanned' = [unscanned EXCEPT ![d] = @ \ {j}]
  /\ store' = IF ScanFinds(j) THEN [store EXCEPT ![d][j] = "interrupted"] ELSE store
  /\ UNCHANGED <<durable, phase, serving, envelope, token, tasks, handlers, history>>

\* A ledger that cannot be opened or read is skipped with a warning.
SkipUnreadable(d, j) ==
  /\ Faults
  /\ phase[d] = "scanning"
  /\ j \in unscanned[d]
  /\ unscanned' = [unscanned EXCEPT ![d] = @ \ {j}]
  /\ UNCHANGED <<durable, phase, serving, jobs, tasks, handlers, history>>

Serve(d) ==
  /\ phase[d] = "scanning"
  /\ unscanned[d] = {}
  /\ phase' = [phase EXCEPT ![d] = "serving"]
  /\ UNCHANGED <<durable, serving, unscanned, jobs, tasks, handlers, history>>

\* POST /shutdown: no new connection is accepted; tasks run on.
Shutdown(d) ==
  /\ phase[d] = "serving"
  /\ stops < MaxStops
  /\ phase' = [phase EXCEPT ![d] = "stopping"]
  /\ UNCHANGED <<durable, serving, unscanned, jobs, tasks, handlers, history>>

\* The process ends: by main's return, by the grace period, or by a crash.
Stop(d) ==
  /\ phase[d] # "down"
  /\ stops < MaxStops
  /\ stops' = stops + 1
  /\ phase' = [phase EXCEPT ![d] = "down"]
  /\ serving' = [serving EXCEPT ![d] = NoSpec]
  /\ unscanned' = [unscanned EXCEPT ![d] = {}]
  /\ store' = [store EXCEPT ![d] = [j \in Jobs |-> "unknown"]]
  /\ envelope' = [envelope EXCEPT ![d] = {}]
  /\ token' = [token EXCEPT ![d] = {}]
  /\ tasks' = {t \in tasks : t.daemon # d}
  /\ intake' = [j \in Jobs |-> IF intake[j] # NoIntake /\ intake[j].daemon = d
                               THEN NoIntake ELSE intake[j]]
  /\ request' = [q \in Requests |-> IF request[q] # Idle /\ request[q].daemon = d
                                    THEN Idle ELSE request[q]]
  /\ UNCHANGED <<durable, accepted, submitted>>

-----------------------------------------------------------------------------
(***************************************************************************)
(* POST /jobs                                                              *)
(***************************************************************************)

\* The job's directory, and its ledger with the served graph's fingerprint.
OpenLedger(d, j) ==
  /\ phase[d] = "serving"
  /\ ledger[j] = "absent"
  /\ ledger' = [ledger EXCEPT ![j] = "running"]
  /\ fingerprint' = [fingerprint EXCEPT ![j] = GraphFingerprint[serving[d]]]
  /\ submitted' = [submitted EXCEPT ![j] = serving[d]]
  /\ intake' = [intake EXCEPT ![j] = [daemon |-> d, at |-> "ledger"]]
  /\ UNCHANGED <<input, process, jobs, tasks, request, accepted, stops>>

WriteInput(d, j) ==
  /\ intake[j] = [daemon |-> d, at |-> "ledger"]
  /\ input' = input \cup {j}
  /\ intake' = [intake EXCEPT ![j] = [daemon |-> d, at |-> "input"]]
  /\ UNCHANGED <<ledger, fingerprint, process, jobs, tasks, request, history>>

\* input.json cannot be written: 500, and the ledger stays.
RefuseInput(d, j) ==
  /\ Faults
  /\ intake[j] = [daemon |-> d, at |-> "ledger"]
  /\ intake' = [intake EXCEPT ![j] = NoIntake]
  /\ UNCHANGED <<durable, process, jobs, tasks, request, history>>

\* Mutant: the submitter is answered before input.json is written.
AcceptEarly(d, j) ==
  /\ intake[j] # NoIntake
  /\ intake[j].daemon = d
  /\ store' = [store EXCEPT ![d][j] = "running"]
  /\ tasks' = tasks \cup {Spawned(d, j, Submitter)}
  /\ intake' = [intake EXCEPT ![j] = NoIntake]
  /\ accepted' = accepted \cup {j}
  /\ UNCHANGED <<durable, process, envelope, token, request, submitted, stops>>

\* The job is inserted, its task spawned, the submitter answered 202.
Accept(d, j) ==
  /\ intake[j] = [daemon |-> d, at |-> "input"]
  /\ store' = [store EXCEPT ![d][j] = "running"]
  /\ tasks' = tasks \cup {Spawned(d, j, Submitter)}
  /\ intake' = [intake EXCEPT ![j] = NoIntake]
  /\ accepted' = accepted \cup {j}
  /\ UNCHANGED <<durable, process, envelope, token, request, submitted, stops>>

-----------------------------------------------------------------------------
(***************************************************************************)
(* The job's task                                                          *)
(***************************************************************************)

Returned(t, o) == (tasks \ {t}) \cup {[t EXCEPT !.at = o]}

\* run_job records the outcome in the ledger and returns it.
RunReturns(t, o) ==
  /\ t.at = "walking"
  /\ o = "cancelled" => t.job \in token[t.daemon]
  /\ tasks' = Returned(t, o)
  /\ ledger' = [ledger EXCEPT ![t.job] = o]
  /\ UNCHANGED <<fingerprint, input, process, jobs, handlers, history>>

\* ledger.finish fails: a warning, and the outcome is returned all the same.
RunReturnsUnrecorded(t, o) ==
  /\ Faults
  /\ t.at = "walking"
  /\ o = "cancelled" => t.job \in token[t.daemon]
  /\ tasks' = Returned(t, o)
  /\ UNCHANGED <<durable, process, jobs, handlers, history>>

\* JobStore::finish.
Deliver(t) ==
  /\ t.at \in Outcome
  /\ store' = [store EXCEPT ![t.daemon][t.job] = t.at]
  /\ envelope' = [envelope EXCEPT ![t.daemon] = @ \cup {t.job}]
  /\ tasks' = tasks \ {t}
  /\ UNCHANGED <<durable, process, token, handlers, history>>

-----------------------------------------------------------------------------
(***************************************************************************)
(* DELETE /jobs/{id}                                                       *)
(***************************************************************************)

\* Mutant: the cancellation stays in memory.
CancelInMemory(d, j) ==
  /\ phase[d] = "serving"
  /\ store[d][j] = "interrupted"
  /\ store' = [store EXCEPT ![d][j] = "cancelled"]
  /\ UNCHANGED <<durable, process, envelope, token, tasks, handlers, history>>

\* JobStore::cancel of a job no task is running, under the mutex throughout.
CancelInterrupted(d, j) ==
  /\ phase[d] = "serving"
  /\ store[d][j] = "interrupted"
  /\ store' = [store EXCEPT ![d][j] = "cancelled"]
  /\ ledger' = [ledger EXCEPT ![j] = "cancelled"]
  /\ UNCHANGED <<fingerprint, input, process, envelope, token, tasks, handlers, history>>

\* The same when the ledger cannot be opened or written: best effort.
CancelUnrecorded(d, j) ==
  /\ Faults
  /\ phase[d] = "serving"
  /\ store[d][j] = "interrupted"
  /\ store' = [store EXCEPT ![d][j] = "cancelled"]
  /\ UNCHANGED <<durable, process, envelope, token, tasks, handlers, history>>

\* Any other job: its token is cancelled, which a finished one never sees.
CancelRunning(d, j) ==
  /\ phase[d] = "serving"
  /\ store[d][j] \notin {"unknown", "interrupted"}
  /\ token' = [token EXCEPT ![d] = @ \cup {j}]
  /\ UNCHANGED <<durable, process, store, envelope, tasks, handlers, history>>

-----------------------------------------------------------------------------
(***************************************************************************)
(* POST /jobs/{id}/resume                                                  *)
(***************************************************************************)

\* Mutant: the job is claimed before the other checks.
ResumeClaims(q, d, j) ==
  /\ phase[d] = "serving"
  /\ request[q] = Idle
  /\ store[d][j] = "interrupted"
  /\ store' = [store EXCEPT ![d][j] = "running"]
  /\ request' = [request EXCEPT ![q] = [daemon |-> d, job |-> j, at |-> "seen"]]
  /\ UNCHANGED <<durable, process, envelope, token, tasks, intake, history>>

\* The snapshot: only an interrupted job may be resumed.
ResumeSeen(q, d, j) ==
  /\ phase[d] = "serving"
  /\ request[q] = Idle
  /\ store[d][j] = "interrupted"
  /\ request' = [request EXCEPT ![q] = [daemon |-> d, job |-> j, at |-> "seen"]]
  /\ UNCHANGED <<durable, process, jobs, tasks, intake, history>>

\* Mutant: the fingerprint is not compared.
InputIsThere(d, j) == j \in input

\* The ledger's fingerprint is the served graph's, and input.json is readable.
Resumable(d, j) == fingerprint[j] = GraphFingerprint[serving[d]] /\ j \in input

ResumeChecked(q) ==
  /\ request[q] # Idle
  /\ request[q].at = "seen"
  /\ Resumable(request[q].daemon, request[q].job)
  /\ request' = [request EXCEPT ![q].at = "checked"]
  /\ UNCHANGED <<durable, process, jobs, tasks, intake, history>>

\* 409 or 500: another graph, no input, or an error reading them.
ResumeRefused(q) ==
  /\ request[q] # Idle
  /\ request[q].at = "seen"
  /\ Faults \/ ~Resumable(request[q].daemon, request[q].job)
  /\ request' = [request EXCEPT ![q] = Idle]
  /\ UNCHANGED <<durable, process, jobs, tasks, intake, history>>

\* Mutant: the earlier snapshot is trusted.
SnapshotTrusted(d, j) == TRUE

\* Mutant: only a running job is refused.
NotRunning(d, j) == store[d][j] # "running"

StillInterrupted(d, j) == store[d][j] = "interrupted"

\* JobStore::try_start_resume, then the task is spawned.
ResumeStarted(q) ==
  /\ request[q] # Idle
  /\ request[q].at = "checked"
  /\ LET d == request[q].daemon
         j == request[q].job
     IN  /\ StillInterrupted(d, j)
         /\ store' = [store EXCEPT ![d][j] = "running"]
         /\ tasks' = tasks \cup {Spawned(d, j, q)}
  /\ request' = [request EXCEPT ![q] = Idle]
  /\ UNCHANGED <<durable, process, envelope, token, intake, history>>

\* 409: another request claimed the job first, or it was cancelled.
ResumeLost(q) ==
  /\ request[q] # Idle
  /\ request[q].at = "checked"
  /\ ~StillInterrupted(request[q].daemon, request[q].job)
  /\ request' = [request EXCEPT ![q] = Idle]
  /\ UNCHANGED <<durable, process, jobs, tasks, intake, history>>

-----------------------------------------------------------------------------
ProcessStep(d) ==
  \/ \E s \in Specs : Start(d, s)
  \/ \E j \in Jobs : ScanJob(d, j) \/ SkipUnreadable(d, j)
  \/ Serve(d)

SubmitStep(d, j) == WriteInput(d, j) \/ RefuseInput(d, j) \/ Accept(d, j)

TaskStep(d, j) ==
  \E t \in {u \in tasks : u.daemon = d /\ u.job = j} :
    \/ \E o \in Outcome : RunReturns(t, o) \/ RunReturnsUnrecorded(t, o)
    \/ Deliver(t)

CancelStep(d, j) ==
  CancelInterrupted(d, j) \/ CancelUnrecorded(d, j) \/ CancelRunning(d, j)

ResumeStep(q) ==
  ResumeChecked(q) \/ ResumeRefused(q) \/ ResumeStarted(q) \/ ResumeLost(q)

Next ==
  \/ \E d \in Daemons : ProcessStep(d) \/ Shutdown(d) \/ Stop(d)
  \/ \E d \in Daemons, j \in Jobs :
       OpenLedger(d, j) \/ SubmitStep(d, j) \/ TaskStep(d, j) \/ CancelStep(d, j)
  \/ \E q \in Requests, d \in Daemons, j \in Jobs : ResumeSeen(q, d, j)
  \/ \E q \in Requests : ResumeStep(q)

Spec == Init /\ [][Next]_vars

(***************************************************************************)
(* A resume handler whose client waits for the answer is scheduled: it     *)
(* waits for the JobStore's mutex only.  Nothing else is promised: nobody  *)
(* has to start a daemon or to ask for a resume, and a task need not       *)
(* return.                                                                 *)
(***************************************************************************)
FairSpec == Spec /\ \A q \in Requests : WF_vars(ResumeStep(q))

-----------------------------------------------------------------------------
(***************************************************************************)
(* Properties                                                              *)
(***************************************************************************)

(***************************************************************************)
(* Types; a job has an envelope only once it is finished (state.rs:38).    *)
(***************************************************************************)
TypeOK ==
  /\ ledger \in [Jobs -> LedgerStatus]
  /\ fingerprint \in [Jobs -> Fingerprints \cup {NoSpec}]
  /\ input \subseteq Jobs
  /\ phase \in [Daemons -> {"down", "scanning", "serving", "stopping"}]
  /\ serving \in [Daemons -> Specs \cup {NoSpec}]
  /\ unscanned \in [Daemons -> SUBSET Jobs]
  /\ store \in [Daemons -> [Jobs -> StoreStatus]]
  /\ envelope \in [Daemons -> SUBSET Jobs]
  /\ \A d \in Daemons : \A j \in envelope[d] : store[d][j] \in Outcome
  /\ token \in [Daemons -> SUBSET Jobs]
  /\ tasks \subseteq Task
  /\ intake \in [Jobs -> Intake \cup {NoIntake}]
  /\ request \in [Requests -> Resume \cup {Idle}]
  /\ accepted \subseteq Jobs
  /\ submitted \in [Jobs -> Specs \cup {NoSpec}]
  /\ stops \in 0..MaxStops

(***************************************************************************)
(* Two tasks never work on one job's ledger at once, although resume       *)
(* requests race each other, cancellations and restarts (state.rs:217-219).*)
(***************************************************************************)
OneRunPerLedger == \A s, t \in tasks : s.job = t.job => s = t

(***************************************************************************)
(* A task only ever runs a graph with the fingerprint of the one its job   *)
(* was submitted against, whatever spec the daemon was restarted with      *)
(* (resume_job's fingerprint check).                                       *)
(***************************************************************************)
FingerprintsMatch ==
  \A t \in tasks : GraphFingerprint[serving[t.daemon]] = GraphFingerprint[submitted[t.job]]

(***************************************************************************)
(* The stronger claim of graph_fingerprint's comment, that graphs with the *)
(* same fingerprint are the same for resuming (dag.rs:267-269): a task     *)
(* only ever runs the spec its job was submitted against.                  *)
(***************************************************************************)
RunsItsOwnSpec == \A t \in tasks : serving[t.daemon] = submitted[t.job]

(***************************************************************************)
(* A daemon says a job is running exactly while one of its own tasks is at *)
(* it: none is left "running" by a refused resume, none is worked on under *)
(* another status (resume_job's ordering note), storage faults and         *)
(* overlapping daemons included.                                           *)
(***************************************************************************)
RunningIsRunning ==
  \A d \in Daemons, j \in Jobs :
    store[d][j] = "running" <=> \E t \in tasks : t.daemon = d /\ t.job = j

\* A task, its job's fingerprint and the status served for it belong together,
\* however daemons overlap.
TasksAreTheirJobs == FingerprintsMatch /\ RunningIsRunning

(***************************************************************************)
(* The other statuses are the ledger's: an interrupted job is running      *)
(* there and no task is at it, a finished one has the same outcome there.  *)
(* One daemon at a time, and no storage faults.                            *)
(***************************************************************************)
StatusRecorded ==
  \A d \in Daemons, j \in Jobs :
    /\ store[d][j] = "interrupted" =>
         ledger[j] = "running" /\ \A t \in tasks : t.job # j
    /\ store[d][j] \in Outcome => ledger[j] = store[d][j]

(***************************************************************************)
(* A job accepted and not finished is known to every daemon that serves,   *)
(* with the input to run it from: no restart loses it.                     *)
(***************************************************************************)
AcceptedKept ==
  \A d \in Daemons, j \in accepted :
    /\ j \in input
    /\ phase[d] \in {"serving", "stopping"} /\ ledger[j] = "running" =>
         store[d][j] \in {"running", "interrupted"}

\* What a daemon serves of a job and what the job's ledger keeps agree, and
\* neither forgets an accepted one.
StatusServed == StatusRecorded /\ AcceptedKept

(***************************************************************************)
(* A job's final status is final: a cancellation recorded is never undone  *)
(* by a resume that raced it, nor an outcome by a later cancellation.      *)
(***************************************************************************)
StatusFinal ==
  [][\A j \in Jobs : ledger[j] \in Outcome => ledger'[j] = ledger[j]]_vars

\* A resume of an accepted job is being handled by a daemon whose graph has the
\* job's fingerprint.
ResumeAsked(d, j) ==
  /\ j \in accepted
  /\ \E q \in Requests :
       request[q] # Idle /\ request[q].daemon = d /\ request[q].job = j
  /\ GraphFingerprint[serving[d]] = GraphFingerprint[submitted[j]]

(***************************************************************************)
(* Such a resume comes to something: the daemon runs the job or knows its  *)
(* end, unless it dies first.  Requests that race each other never refuse  *)
(* all of one another, nor does a cancellation leave the job unended.      *)
(***************************************************************************)
ResumeStarts ==
  \A d \in Daemons, j \in Jobs :
    ResumeAsked(d, j) ~>
      \/ \E t \in tasks : t.daemon = d /\ t.job = j
      \/ store[d][j] \in Outcome
      \/ phase[d] = "down"

=============================================================================

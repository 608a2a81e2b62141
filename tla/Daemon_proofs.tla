---------------------------- MODULE Daemon_proofs ----------------------------
(***************************************************************************)
(* Proofs about Daemon, for every number of daemons, jobs, specs and       *)
(* requests.                                                               *)
(***************************************************************************)
EXTENDS Daemon, TLAPS

USE DaemonAssumption

\* A daemon whose handlers and tasks may be running.
Up(d) == phase[d] \in {"serving", "stopping"}

(***************************************************************************)
(* A process that is not up has no task, no handler and no finished job.   *)
(***************************************************************************)
ProcessInv ==
  /\ \A t \in tasks : Up(t.daemon)
  /\ \A j \in Jobs : intake[j] # NoIntake => Up(intake[j].daemon)
  /\ \A q \in Requests : request[q] # Idle => Up(request[q].daemon)
  /\ \A d \in Daemons : ~Up(d) => envelope[d] = {} /\ token[d] = {}
  /\ \A d \in Daemons, j \in Jobs : phase[d] = "down" => store[d][j] = "unknown"

(***************************************************************************)
(* Only a submission makes a job known, and while it is at it nothing else *)
(* in its process knows the job.                                           *)
(***************************************************************************)
SubmissionInv ==
  /\ \A j \in Jobs, d \in Daemons :
       ledger[j] = "absent" => store[d][j] = "unknown" /\ j \notin unscanned[d]
  /\ \A j \in Jobs : intake[j] # NoIntake =>
       ledger[j] # "absent" /\ store[intake[j].daemon][j] = "unknown"
  /\ \A q \in Requests : request[q] # Idle => ledger[request[q].job] # "absent"

(***************************************************************************)
(* Within a process a job has one task, and exactly when it is running.    *)
(***************************************************************************)
TaskInv ==
  /\ RunningIsRunning
  /\ \A s, t \in tasks : s.daemon = t.daemon /\ s.job = t.job => s = t

(***************************************************************************)
(* The ledger has the fingerprint of the spec the job was submitted        *)
(* against, and whoever is about to spawn a task has compared it.          *)
(***************************************************************************)
GraphInv ==
  /\ \A j \in Jobs : ledger[j] # "absent" => fingerprint[j] = GraphFingerprint[submitted[j]]
  /\ \A t \in tasks : fingerprint[t.job] = GraphFingerprint[serving[t.daemon]]
  /\ \A j \in Jobs : intake[j] # NoIntake =>
       fingerprint[j] = GraphFingerprint[serving[intake[j].daemon]]
  /\ \A q \in Requests : request[q] # Idle /\ request[q].at = "checked" =>
       fingerprint[request[q].job] = GraphFingerprint[serving[request[q].daemon]]

OneDaemon == \A d, e \in Daemons : phase[d] # "down" /\ phase[e] # "down" => d = e

(***************************************************************************)
(* One daemon at a time and no storage faults: what a process knows of a   *)
(* job agrees with the ledger, as does a task.                             *)
(***************************************************************************)
RecordInv ==
  /\ StatusRecorded
  /\ \A t \in tasks : ledger[t.job] = IF t.at = "walking" THEN "running" ELSE t.at
  /\ \A j \in Jobs : intake[j] # NoIntake => ledger[j] = "running"

(***************************************************************************)
(* An accepted job's submission is over, and a scan will come to it.       *)
(***************************************************************************)
AcceptInv ==
  /\ \A j \in Jobs : intake[j] # NoIntake /\ intake[j].at = "input" => j \in input
  /\ \A j \in accepted : ledger[j] # "absent" /\ intake[j] = NoIntake
  /\ \A d \in Daemons, j \in accepted :
       phase[d] = "scanning" /\ ledger[j] = "running" =>
         j \in unscanned[d] \/ store[d][j] = "interrupted"
  /\ AcceptedKept

-----------------------------------------------------------------------------
\* Returning changes neither whose task it is nor how many there are.
LEMMA ReturnedTasks ==
  ASSUME tasks \subseteq Task, NEW t \in tasks, NEW o \in Outcome
  PROVE  /\ Returned(t, o) \subseteq Task
         /\ \A u \in Returned(t, o) : \E v \in tasks :
              /\ v.daemon = u.daemon /\ v.job = u.job /\ v.by = u.by
              /\ IF v = t THEN u.at = o ELSE u = v
         /\ \A v \in tasks : \E u \in Returned(t, o) :
              v.daemon = u.daemon /\ v.job = u.job
         /\ (\A u, v \in tasks : u.daemon = v.daemon /\ u.job = v.job => u = v) =>
              \A u, v \in Returned(t, o) : u.daemon = v.daemon /\ u.job = v.job => u = v
<1> DEFINE r == [t EXCEPT !.at = o]
<1>1. t \in Task
  OBVIOUS
<1>2. r \in Task /\ r.daemon = t.daemon /\ r.job = t.job /\ r.by = t.by /\ r.at = o
  BY <1>1 DEF Task, Outcome
<1>3. Returned(t, o) = (tasks \ {t}) \cup {r}
  BY DEF Returned
<1> HIDE DEF r
<1> QED
  BY <1>2, <1>3

\* One job's status changes, in one process.
LEMMA StoreUpdate ==
  ASSUME store \in [Daemons -> [Jobs -> StoreStatus]],
         NEW d \in Daemons, NEW j \in Jobs, NEW v \in StoreStatus
  PROVE  /\ [store EXCEPT ![d][j] = v] \in [Daemons -> [Jobs -> StoreStatus]]
         /\ \A e \in Daemons, k \in Jobs :
              [store EXCEPT ![d][j] = v][e][k] = IF e = d /\ k = j THEN v ELSE store[e][k]
<1>1. store[d] \in [Jobs -> StoreStatus]
  OBVIOUS
<1> QED
  BY <1>1

LEMMA SpawnedTask ==
  ASSUME NEW d \in Daemons, NEW j \in Jobs, NEW by \in Requests \cup {Submitter}
  PROVE  /\ Spawned(d, j, by) \in Task
         /\ Spawned(d, j, by).daemon = d
         /\ Spawned(d, j, by).job = j
         /\ Spawned(d, j, by).at = "walking"
BY DEF Spawned, Task

\* A process that is not down serves a spec.
ServedInv == \A d \in Daemons : phase[d] # "down" => serving[d] \in Specs

LEMMA ServedStep ==
  ASSUME TypeOK, ServedInv, [Next]_vars
  PROVE  ServedInv'
<1> USE DEF vars, durable, process, jobs, handlers, history, TypeOK, ServedInv
<1>1. CASE UNCHANGED <<phase, serving>>
  BY <1>1
<1>2. ASSUME NEW d \in Daemons, ProcessStep(d) PROVE ServedInv'
  <2>1. ASSUME NEW spec \in Specs, Start(d, spec) PROVE ServedInv'
    BY <2>1 DEF Start
  <2>2. ASSUME NEW j \in Jobs, ScanJob(d, j) \/ SkipUnreadable(d, j) PROVE ServedInv'
    BY <1>1, <2>2 DEF ScanJob, SkipUnreadable
  <2>3. CASE Serve(d)
    BY <2>3 DEF Serve
  <2> HIDE DEF ServedInv, TypeOK
  <2> QED
    BY <1>2, <2>1, <2>2, <2>3 DEF ProcessStep
<1>3. ASSUME NEW d \in Daemons, Shutdown(d) \/ Stop(d) PROVE ServedInv'
  BY <1>3 DEF Shutdown, Stop
<1>4. ASSUME NEW d \in Daemons, NEW j \in Jobs,
             OpenLedger(d, j) \/ SubmitStep(d, j) \/ TaskStep(d, j) \/ CancelStep(d, j)
      PROVE  UNCHANGED <<phase, serving>>
  BY <1>4 DEF OpenLedger, SubmitStep, WriteInput, RefuseInput, Accept, TaskStep, RunReturns,
     RunReturnsUnrecorded, Deliver, CancelStep, CancelInterrupted, CancelUnrecorded, CancelRunning
<1>5. ASSUME NEW q \in Requests,
             ResumeStep(q) \/ \E d \in Daemons, j \in Jobs : ResumeSeen(q, d, j)
      PROVE  UNCHANGED <<phase, serving>>
  BY <1>5 DEF ResumeStep, ResumeSeen, ResumeChecked, ResumeRefused, ResumeStarted, ResumeLost
<1> HIDE DEF ServedInv, TypeOK
<1> QED
  BY <1>1, <1>2, <1>3, <1>4, <1>5 DEF Next

LEMMA TypeStep ==
  TypeOK /\ ProcessInv /\ ServedInv /\ SubmissionInv /\ [Next]_vars => TypeOK'
<1> SUFFICES ASSUME TypeOK, ProcessInv, ServedInv, SubmissionInv, [Next]_vars PROVE TypeOK'
  OBVIOUS
<1> USE DEF vars, durable, process, jobs, handlers, history, TypeOK, Task, Intake, Resume,
      LedgerStatus, StoreStatus, Outcome, ProcessInv, SubmissionInv, Up
<1>1. ASSUME NEW d \in Daemons, NEW s \in Specs, Start(d, s) PROVE TypeOK'
  BY <1>1 DEF Start, MayStart
<1>2. ASSUME NEW d \in Daemons, NEW j \in Jobs, ScanJob(d, j) PROVE TypeOK'
  <2>1. CASE ScanFinds(j)
    <3>1. store' = [store EXCEPT ![d][j] = "interrupted"]
      BY <1>2, <2>1 DEF ScanJob
    <3>2. \A e \in Daemons, k \in Jobs :
           store'[e][k] = IF e = d /\ k = j THEN "interrupted" ELSE store[e][k]
      BY <1>2, <3>1, StoreUpdate DEF ScanJob
    <3>3. store' \in [Daemons -> [Jobs -> StoreStatus]]
      BY <1>2, <3>1, StoreUpdate
    <3>4. envelope[d] = {}
      BY <1>2 DEF ScanJob
    <3>5. \A e \in Daemons : \A k \in envelope'[e] : store'[e][k] \in Outcome
      BY <1>2, <3>2, <3>4 DEF ScanJob
    <3> QED
      BY <1>2, <3>3, <3>5 DEF ScanJob
  <2>2. CASE ~ScanFinds(j)
    BY <1>2, <2>2 DEF ScanJob
  <2> QED
    BY <2>1, <2>2
<1>3. ASSUME NEW d \in Daemons, NEW j \in Jobs, SkipUnreadable(d, j) PROVE TypeOK'
  BY <1>3 DEF SkipUnreadable
<1>4. ASSUME NEW d \in Daemons, Serve(d) PROVE TypeOK'
  BY <1>4 DEF Serve
<1>5. ASSUME NEW d \in Daemons, Shutdown(d) PROVE TypeOK'
  BY <1>5 DEF Shutdown
<1>6. ASSUME NEW d \in Daemons, Stop(d) PROVE TypeOK'
  BY <1>6 DEF Stop
<1>7. ASSUME NEW d \in Daemons, NEW j \in Jobs, OpenLedger(d, j) PROVE TypeOK'
  <2>1. serving[d] \in Specs
    BY <1>7 DEF OpenLedger, ServedInv
  <2>2. GraphFingerprint[serving[d]] \in Fingerprints
    BY <2>1 DEF Fingerprints
  <2> QED
    BY <1>7, <2>1, <2>2 DEF OpenLedger
<1>8. ASSUME NEW d \in Daemons, NEW j \in Jobs, WriteInput(d, j) PROVE TypeOK'
  BY <1>8 DEF WriteInput
<1>9. ASSUME NEW d \in Daemons, NEW j \in Jobs, RefuseInput(d, j) PROVE TypeOK'
  BY <1>9 DEF RefuseInput
<1>10. ASSUME NEW d \in Daemons, NEW j \in Jobs, Accept(d, j) PROVE TypeOK'
  BY <1>10 DEF Accept, Spawned
<1>11. ASSUME NEW t \in tasks, NEW o \in Outcome, RunReturns(t, o) PROVE TypeOK'
  BY <1>11, ReturnedTasks DEF RunReturns
<1>12. ASSUME NEW t \in tasks, NEW o \in Outcome, RunReturnsUnrecorded(t, o) PROVE TypeOK'
  BY <1>12, ReturnedTasks DEF RunReturnsUnrecorded
<1>13. ASSUME NEW t \in tasks, Deliver(t) PROVE TypeOK'
  BY <1>13 DEF Deliver
<1>14. ASSUME NEW d \in Daemons, NEW j \in Jobs, CancelInterrupted(d, j) PROVE TypeOK'
  BY <1>14 DEF CancelInterrupted
<1>15. ASSUME NEW d \in Daemons, NEW j \in Jobs, CancelUnrecorded(d, j) PROVE TypeOK'
  BY <1>15 DEF CancelUnrecorded
<1>16. ASSUME NEW d \in Daemons, NEW j \in Jobs, CancelRunning(d, j) PROVE TypeOK'
  BY <1>16 DEF CancelRunning
<1>17. ASSUME NEW q \in Requests, NEW d \in Daemons, NEW j \in Jobs, ResumeSeen(q, d, j) PROVE
      TypeOK'
  BY <1>17 DEF ResumeSeen
<1>18. ASSUME NEW q \in Requests, ResumeChecked(q) PROVE TypeOK'
  <2>1. request' \in [Requests -> Resume \cup {Idle}]
    <3>1. request[q] \in Resume /\ request \in [Requests -> Resume \cup {Idle}]
      BY <1>18 DEF ResumeChecked
    <3>2. [request[q] EXCEPT !.at = "checked"] \in Resume
      BY <3>1
    <3> HIDE DEF Resume, TypeOK
    <3> QED
      BY <1>18, <3>1, <3>2 DEF ResumeChecked
  <2> QED
    BY <1>18, <2>1 DEF ResumeChecked
<1>19. ASSUME NEW q \in Requests, ResumeRefused(q) PROVE TypeOK'
  BY <1>19 DEF ResumeRefused
<1>20. ASSUME NEW q \in Requests, ResumeStarted(q) PROVE TypeOK'
  BY <1>20, SMTT(30) DEF ResumeStarted, StillInterrupted, Spawned
<1>21. ASSUME NEW q \in Requests, ResumeLost(q) PROVE TypeOK'
  BY <1>21 DEF ResumeLost
<1>22. CASE UNCHANGED vars
  BY <1>22
<1> HIDE DEF vars, durable, process, jobs, handlers, history, TypeOK, Task, Intake, Resume,
      LedgerStatus, StoreStatus, Outcome, ProcessInv, SubmissionInv, Up
<1> QED
  BY <1>1, <1>2, <1>3, <1>4, <1>5, <1>6, <1>7, <1>8, <1>9, <1>10, <1>11, <1>12, <1>13, <1>14,
    <1>15, <1>16, <1>17, <1>18, <1>19, <1>20, <1>21, <1>22 DEF Next, ProcessStep, SubmitStep,
    TaskStep, CancelStep, ResumeStep

\* A task that returns is still its process's.
LEMMA ReturnKeepsProcesses ==
  ASSUME TypeOK, ProcessInv, NEW t \in tasks, NEW o \in Outcome, tasks' = Returned(t, o),
         UNCHANGED <<phase, store, envelope, token, intake, request>>
  PROVE  ProcessInv'
<1>1. \A u \in tasks' : \E v \in tasks : v.daemon = u.daemon
  BY ReturnedTasks DEF TypeOK
<1>2. \A d : Up(d)' = Up(d)
  BY DEF Up
<1> QED
  BY <1>1, <1>2 DEF ProcessInv

LEMMA ProcessInvStep ==
  TypeOK /\ ProcessInv /\ [Next]_vars => ProcessInv'
<1> SUFFICES ASSUME TypeOK, ProcessInv, [Next]_vars PROVE ProcessInv'
  OBVIOUS
<1> USE DEF vars, durable, process, jobs, handlers, history, TypeOK, Task, Intake, Resume,
      LedgerStatus, StoreStatus, Outcome, ProcessInv, Up
<1>1. ASSUME NEW d \in Daemons, NEW s \in Specs, Start(d, s) PROVE ProcessInv'
  BY <1>1 DEF Start, MayStart
<1>2. ASSUME NEW d \in Daemons, NEW j \in Jobs, ScanJob(d, j) PROVE ProcessInv'
  BY <1>2 DEF ScanJob, ScanFinds
<1>3. ASSUME NEW d \in Daemons, NEW j \in Jobs, SkipUnreadable(d, j) PROVE ProcessInv'
  BY <1>3 DEF SkipUnreadable
<1>4. ASSUME NEW d \in Daemons, Serve(d) PROVE ProcessInv'
  BY <1>4 DEF Serve
<1>5. ASSUME NEW d \in Daemons, Shutdown(d) PROVE ProcessInv'
  BY <1>5 DEF Shutdown
<1>6. ASSUME NEW d \in Daemons, Stop(d) PROVE ProcessInv'
  BY <1>6, SMTT(30) DEF Stop
<1>7. ASSUME NEW d \in Daemons, NEW j \in Jobs, OpenLedger(d, j) PROVE ProcessInv'
  BY <1>7 DEF OpenLedger
<1>8. ASSUME NEW d \in Daemons, NEW j \in Jobs, WriteInput(d, j) PROVE ProcessInv'
  BY <1>8 DEF WriteInput
<1>9. ASSUME NEW d \in Daemons, NEW j \in Jobs, RefuseInput(d, j) PROVE ProcessInv'
  BY <1>9 DEF RefuseInput
<1>10. ASSUME NEW d \in Daemons, NEW j \in Jobs, Accept(d, j) PROVE ProcessInv'
  <2>0. \A e \in Daemons, k \in Jobs :
         store'[e][k] = IF e = d /\ k = j THEN "running" ELSE store[e][k]
    BY <1>10, StoreUpdate DEF Accept
  <2>1. (\A u \in tasks : Up(u.daemon))'
    BY <1>10, SpawnedTask DEF Accept
  <2>2. (\A k \in Jobs : intake[k] # NoIntake => Up(intake[k].daemon))'
    BY <1>10 DEF Accept
  <2>3. (\A p \in Requests : request[p] # Idle => Up(request[p].daemon))'
    BY <1>10 DEF Accept
  <2>4. (\A e \in Daemons : ~Up(e) => envelope[e] = {} /\ token[e] = {})'
    BY <1>10 DEF Accept
  <2>5. (\A e \in Daemons, k \in Jobs : phase[e] = "down" => store[e][k] = "unknown")'
    <3>1. intake[j] # NoIntake /\ intake[j].daemon = d /\ phase' = phase
      BY <1>10 DEF Accept
    <3>2. phase[d] # "down"
      BY <3>1
    <3> HIDE DEF TypeOK
    <3> QED
      BY <2>0, <3>1, <3>2
  <2> QED
    BY <2>1, <2>2, <2>3, <2>4, <2>5
<1>11. ASSUME NEW t \in tasks, NEW o \in Outcome, RunReturns(t, o) PROVE ProcessInv'
  <2>1. tasks' = Returned(t, o) /\ UNCHANGED <<phase, store, envelope, token, intake, request>>
    BY <1>11 DEF RunReturns
  <2> HIDE DEF TypeOK, ProcessInv
  <2> QED
    BY <2>1, ReturnKeepsProcesses
<1>12. ASSUME NEW t \in tasks, NEW o \in Outcome, RunReturnsUnrecorded(t, o) PROVE ProcessInv'
  <2>1. tasks' = Returned(t, o) /\ UNCHANGED <<phase, store, envelope, token, intake, request>>
    BY <1>12 DEF RunReturnsUnrecorded
  <2> HIDE DEF TypeOK, ProcessInv
  <2> QED
    BY <2>1, ReturnKeepsProcesses
<1>13. ASSUME NEW t \in tasks, Deliver(t) PROVE ProcessInv'
  <2>0. \A e \in Daemons, k \in Jobs :
         store'[e][k] = IF e = t.daemon /\ k = t.job THEN t.at ELSE store[e][k]
    BY <1>13, StoreUpdate DEF Deliver
  <2>1. (\A u \in tasks : Up(u.daemon))'
    BY <1>13 DEF Deliver
  <2>2. (\A k \in Jobs : intake[k] # NoIntake => Up(intake[k].daemon))'
    BY <1>13 DEF Deliver
  <2>3. (\A p \in Requests : request[p] # Idle => Up(request[p].daemon))'
    BY <1>13 DEF Deliver
  <2>4. (\A e \in Daemons : ~Up(e) => envelope[e] = {} /\ token[e] = {})'
    BY <1>13 DEF Deliver
  <2>5. (\A e \in Daemons, k \in Jobs : phase[e] = "down" => store[e][k] = "unknown")'
    <3>1. phase[t.daemon] # "down"
      OBVIOUS
    <3> QED
      BY <1>13, <2>0, <3>1 DEF Deliver
  <2> QED
    BY <2>1, <2>2, <2>3, <2>4, <2>5
<1>14. ASSUME NEW d \in Daemons, NEW j \in Jobs, CancelInterrupted(d, j) PROVE ProcessInv'
  BY <1>14 DEF CancelInterrupted
<1>15. ASSUME NEW d \in Daemons, NEW j \in Jobs, CancelUnrecorded(d, j) PROVE ProcessInv'
  BY <1>15 DEF CancelUnrecorded
<1>16. ASSUME NEW d \in Daemons, NEW j \in Jobs, CancelRunning(d, j) PROVE ProcessInv'
  BY <1>16 DEF CancelRunning
<1>17. ASSUME NEW q \in Requests, NEW d \in Daemons, NEW j \in Jobs, ResumeSeen(q, d, j) PROVE
      ProcessInv'
  BY <1>17 DEF ResumeSeen
<1>18. ASSUME NEW q \in Requests, ResumeChecked(q) PROVE ProcessInv'
  BY <1>18 DEF ResumeChecked, Resumable
<1>19. ASSUME NEW q \in Requests, ResumeRefused(q) PROVE ProcessInv'
  BY <1>19 DEF ResumeRefused
<1>20. ASSUME NEW q \in Requests, ResumeStarted(q) PROVE ProcessInv'
  BY <1>20 DEF ResumeStarted, StillInterrupted, Spawned
<1>21. ASSUME NEW q \in Requests, ResumeLost(q) PROVE ProcessInv'
  BY <1>21 DEF ResumeLost
<1>22. CASE UNCHANGED vars
  BY <1>22
<1> HIDE DEF vars, durable, process, jobs, handlers, history, TypeOK, Task, Intake, Resume,
      LedgerStatus, StoreStatus, Outcome, ProcessInv, Up
<1> QED
  BY <1>1, <1>2, <1>3, <1>4, <1>5, <1>6, <1>7, <1>8, <1>9, <1>10, <1>11, <1>12, <1>13, <1>14,
    <1>15, <1>16, <1>17, <1>18, <1>19, <1>20, <1>21, <1>22 DEF Next, ProcessStep, SubmitStep,
    TaskStep, CancelStep, ResumeStep

LEMMA SubmissionStep ==
  TypeOK /\ ProcessInv /\ TaskInv /\ SubmissionInv /\ [Next]_vars => SubmissionInv'
<1> SUFFICES ASSUME TypeOK, ProcessInv, TaskInv, SubmissionInv, [Next]_vars PROVE SubmissionInv'
  OBVIOUS
<1> USE DEF vars, durable, process, jobs, handlers, history, TypeOK, Task, Intake, Resume,
      LedgerStatus, StoreStatus, Outcome, ProcessInv, SubmissionInv, TaskInv, RunningIsRunning,
      Up
<1>1. ASSUME NEW d \in Daemons, NEW s \in Specs, Start(d, s) PROVE SubmissionInv'
  BY <1>1 DEF Start, MayStart
<1>2. ASSUME NEW d \in Daemons, NEW j \in Jobs, ScanJob(d, j) PROVE SubmissionInv'
  <2>1. CASE ScanFinds(j)
    <3>1. store' = [store EXCEPT ![d][j] = "interrupted"]
      BY <1>2, <2>1 DEF ScanJob
    <3>2. \A e \in Daemons, k \in Jobs :
           store'[e][k] = IF e = d /\ k = j THEN "interrupted" ELSE store[e][k]
      BY <1>2, <3>1, StoreUpdate DEF ScanJob
    <3>3. (\A k \in Jobs, e \in Daemons :
             ledger[k] = "absent" => store[e][k] = "unknown" /\ k \notin unscanned[e])'
      BY <1>2, <2>1, <3>2 DEF ScanJob, ScanFinds
    <3>4. (\A k \in Jobs : intake[k] # NoIntake =>
             ledger[k] # "absent" /\ store[intake[k].daemon][k] = "unknown")'
      <4>1. phase[d] = "scanning" /\ UNCHANGED <<ledger, intake>>
        BY <1>2 DEF ScanJob
      <4>2. \A k \in Jobs : intake[k] # NoIntake =>
              intake[k].daemon \in Daemons /\ intake[k].daemon # d
        <5> SUFFICES ASSUME NEW k \in Jobs, intake[k] # NoIntake
                     PROVE  intake[k].daemon \in Daemons /\ intake[k].daemon # d
          OBVIOUS
        <5>1. intake \in [Jobs -> Intake \cup {NoIntake}]
          OBVIOUS
        <5>2. \A i \in Jobs : intake[i] # NoIntake => phase[intake[i].daemon] # "scanning"
          OBVIOUS
        <5> HIDE DEF TypeOK, ProcessInv, SubmissionInv, TaskInv, RunningIsRunning, Up
        <5>3. intake[k].daemon \in Daemons
          BY <5>1
        <5> QED
          BY <4>1, <5>2, <5>3
      <4>3. \A k \in Jobs : intake[k] # NoIntake =>
              ledger[k] # "absent" /\ store[intake[k].daemon][k] = "unknown"
        OBVIOUS
      <4>4. ASSUME NEW k \in Jobs, intake[k] # NoIntake
            PROVE  store'[intake[k].daemon][k] = store[intake[k].daemon][k]
        <5> DEFINE e == intake[k].daemon
        <5>1. e \in Daemons /\ e # d
          BY <4>2, <4>4
        <5> HIDE DEF e, TypeOK, ProcessInv, SubmissionInv, TaskInv
        <5>2. store'[e][k] = store[e][k]
          BY <3>2, <5>1
        <5> QED
          BY <5>2 DEF e
      <4> HIDE DEF TypeOK, ProcessInv, SubmissionInv, TaskInv
      <4> QED
        BY <4>1, <4>3, <4>4
    <3>5. (\A q \in Requests : request[q] # Idle => ledger[request[q].job] # "absent")'
      BY <1>2 DEF ScanJob
    <3> QED
      BY <3>3, <3>4, <3>5
  <2>2. CASE ~ScanFinds(j)
    BY <1>2, <2>2 DEF ScanJob
  <2> QED
    BY <2>1, <2>2
<1>3. ASSUME NEW d \in Daemons, NEW j \in Jobs, SkipUnreadable(d, j) PROVE SubmissionInv'
  BY <1>3 DEF SkipUnreadable
<1>4. ASSUME NEW d \in Daemons, Serve(d) PROVE SubmissionInv'
  BY <1>4 DEF Serve
<1>5. ASSUME NEW d \in Daemons, Shutdown(d) PROVE SubmissionInv'
  BY <1>5 DEF Shutdown
<1>6. ASSUME NEW d \in Daemons, Stop(d) PROVE SubmissionInv'
  BY <1>6, SMTT(30) DEF Stop
<1>7. ASSUME NEW d \in Daemons, NEW j \in Jobs, OpenLedger(d, j) PROVE SubmissionInv'
  BY <1>7 DEF OpenLedger
<1>8. ASSUME NEW d \in Daemons, NEW j \in Jobs, WriteInput(d, j) PROVE SubmissionInv'
  BY <1>8 DEF WriteInput
<1>9. ASSUME NEW d \in Daemons, NEW j \in Jobs, RefuseInput(d, j) PROVE SubmissionInv'
  BY <1>9 DEF RefuseInput
<1>10. ASSUME NEW d \in Daemons, NEW j \in Jobs, Accept(d, j) PROVE SubmissionInv'
  BY <1>10 DEF Accept, Spawned
<1>11. ASSUME NEW t \in tasks, NEW o \in Outcome, RunReturns(t, o) PROVE SubmissionInv'
  BY <1>11 DEF RunReturns, Returned
<1>12. ASSUME NEW t \in tasks, NEW o \in Outcome, RunReturnsUnrecorded(t, o) PROVE SubmissionInv'
  BY <1>12 DEF RunReturnsUnrecorded, Returned
<1>13. ASSUME NEW t \in tasks, Deliver(t) PROVE SubmissionInv'
  BY <1>13 DEF Deliver
<1>14. ASSUME NEW d \in Daemons, NEW j \in Jobs, CancelInterrupted(d, j) PROVE SubmissionInv'
  BY <1>14 DEF CancelInterrupted
<1>15. ASSUME NEW d \in Daemons, NEW j \in Jobs, CancelUnrecorded(d, j) PROVE SubmissionInv'
  BY <1>15 DEF CancelUnrecorded
<1>16. ASSUME NEW d \in Daemons, NEW j \in Jobs, CancelRunning(d, j) PROVE SubmissionInv'
  BY <1>16 DEF CancelRunning
<1>17. ASSUME NEW q \in Requests, NEW d \in Daemons, NEW j \in Jobs, ResumeSeen(q, d, j) PROVE
      SubmissionInv'
  BY <1>17 DEF ResumeSeen
<1>18. ASSUME NEW q \in Requests, ResumeChecked(q) PROVE SubmissionInv'
  BY <1>18 DEF ResumeChecked, Resumable
<1>19. ASSUME NEW q \in Requests, ResumeRefused(q) PROVE SubmissionInv'
  BY <1>19 DEF ResumeRefused
<1>20. ASSUME NEW q \in Requests, ResumeStarted(q) PROVE SubmissionInv'
  BY <1>20, SMTT(30) DEF ResumeStarted, StillInterrupted, Spawned
<1>21. ASSUME NEW q \in Requests, ResumeLost(q) PROVE SubmissionInv'
  BY <1>21 DEF ResumeLost
<1>22. CASE UNCHANGED vars
  BY <1>22
<1> HIDE DEF vars, durable, process, jobs, handlers, history, TypeOK, Task, Intake, Resume,
      LedgerStatus, StoreStatus, Outcome, ProcessInv, SubmissionInv, TaskInv, RunningIsRunning,
      Up
<1> QED
  BY <1>1, <1>2, <1>3, <1>4, <1>5, <1>6, <1>7, <1>8, <1>9, <1>10, <1>11, <1>12, <1>13, <1>14,
    <1>15, <1>16, <1>17, <1>18, <1>19, <1>20, <1>21, <1>22 DEF Next, ProcessStep, SubmitStep,
    TaskStep, CancelStep, ResumeStep

LEMMA TaskReturns ==
  ASSUME TypeOK, TaskInv, NEW t \in tasks, NEW o \in Outcome,
         tasks' = Returned(t, o), UNCHANGED store
  PROVE  TaskInv'
<1>1. tasks \subseteq Task
  BY DEF TypeOK
<1>2. /\ \A u \in tasks' : \E v \in tasks : v.daemon = u.daemon /\ v.job = u.job
      /\ \A v \in tasks : \E u \in tasks' : v.daemon = u.daemon /\ v.job = u.job
  BY <1>1, ReturnedTasks
<1>3. \A u, v \in tasks : u.daemon = v.daemon /\ u.job = v.job => u = v
  BY DEF TaskInv
<1>4. \A u, v \in tasks' : u.daemon = v.daemon /\ u.job = v.job => u = v
  BY <1>1, <1>3, ReturnedTasks
<1>5. RunningIsRunning'
  BY <1>2 DEF TaskInv, RunningIsRunning
<1> QED
  BY <1>4, <1>5 DEF TaskInv

LEMMA TaskStepInv ==
  TypeOK /\ ProcessInv /\ SubmissionInv /\ TaskInv /\ [Next]_vars => TaskInv'
<1> SUFFICES ASSUME TypeOK, ProcessInv, SubmissionInv, TaskInv, [Next]_vars PROVE TaskInv'
  OBVIOUS
<1> USE DEF vars, durable, process, jobs, handlers, history, TypeOK, Task, Intake, Resume,
      LedgerStatus, StoreStatus, Outcome, ProcessInv, SubmissionInv, TaskInv, RunningIsRunning,
      Up
<1>1. ASSUME NEW d \in Daemons, NEW s \in Specs, Start(d, s) PROVE TaskInv'
  BY <1>1 DEF Start, MayStart
<1>2. ASSUME NEW d \in Daemons, NEW j \in Jobs, ScanJob(d, j) PROVE TaskInv'
  <2>1. CASE ScanFinds(j)
    <3>1. store' = [store EXCEPT ![d][j] = "interrupted"]
      BY <1>2, <2>1 DEF ScanJob
    <3>2. \A e \in Daemons, k \in Jobs :
           store'[e][k] = IF e = d /\ k = j THEN "interrupted" ELSE store[e][k]
      BY <1>2, <3>1, StoreUpdate DEF ScanJob
    <3>3. store[d][j] # "running"
      BY <1>2, SMTT(30) DEF ScanJob
    <3>4. RunningIsRunning'
      BY <1>2, <3>2, <3>3 DEF ScanJob
    <3> QED
      BY <1>2, <3>4 DEF ScanJob
  <2>2. CASE ~ScanFinds(j)
    BY <1>2, <2>2 DEF ScanJob
  <2> QED
    BY <2>1, <2>2
<1>3. ASSUME NEW d \in Daemons, NEW j \in Jobs, SkipUnreadable(d, j) PROVE TaskInv'
  BY <1>3 DEF SkipUnreadable
<1>4. ASSUME NEW d \in Daemons, Serve(d) PROVE TaskInv'
  BY <1>4 DEF Serve
<1>5. ASSUME NEW d \in Daemons, Shutdown(d) PROVE TaskInv'
  BY <1>5 DEF Shutdown
<1>6. ASSUME NEW d \in Daemons, Stop(d) PROVE TaskInv'
  BY <1>6 DEF Stop
<1>7. ASSUME NEW d \in Daemons, NEW j \in Jobs, OpenLedger(d, j) PROVE TaskInv'
  BY <1>7 DEF OpenLedger
<1>8. ASSUME NEW d \in Daemons, NEW j \in Jobs, WriteInput(d, j) PROVE TaskInv'
  BY <1>8 DEF WriteInput
<1>9. ASSUME NEW d \in Daemons, NEW j \in Jobs, RefuseInput(d, j) PROVE TaskInv'
  BY <1>9 DEF RefuseInput
<1>10. ASSUME NEW d \in Daemons, NEW j \in Jobs, Accept(d, j) PROVE TaskInv'
  <2>0. \A e \in Daemons, k \in Jobs :
         store'[e][k] = IF e = d /\ k = j THEN "running" ELSE store[e][k]
    BY <1>10, StoreUpdate DEF Accept
  <2>1. RunningIsRunning'
    BY <1>10, <2>0, SpawnedTask, SMTT(30) DEF Accept
  <2>2. \A u, v \in tasks' : u.daemon = v.daemon /\ u.job = v.job => u = v
    BY <1>10, SpawnedTask DEF Accept
  <2> QED
    BY <2>1, <2>2
<1>11. ASSUME NEW t \in tasks, NEW o \in Outcome, RunReturns(t, o) PROVE TaskInv'
  <2>1. tasks' = Returned(t, o) /\ UNCHANGED store
    BY <1>11 DEF RunReturns
  <2> HIDE DEF TypeOK, TaskInv, Outcome
  <2> QED
    BY <2>1, TaskReturns
<1>12. ASSUME NEW t \in tasks, NEW o \in Outcome, RunReturnsUnrecorded(t, o) PROVE TaskInv'
  <2>1. tasks' = Returned(t, o) /\ UNCHANGED store
    BY <1>12 DEF RunReturnsUnrecorded
  <2> HIDE DEF TypeOK, TaskInv, Outcome
  <2> QED
    BY <2>1, TaskReturns
<1>13. ASSUME NEW t \in tasks, Deliver(t) PROVE TaskInv'
  BY <1>13 DEF Deliver
<1>14. ASSUME NEW d \in Daemons, NEW j \in Jobs, CancelInterrupted(d, j) PROVE TaskInv'
  BY <1>14 DEF CancelInterrupted
<1>15. ASSUME NEW d \in Daemons, NEW j \in Jobs, CancelUnrecorded(d, j) PROVE TaskInv'
  BY <1>15 DEF CancelUnrecorded
<1>16. ASSUME NEW d \in Daemons, NEW j \in Jobs, CancelRunning(d, j) PROVE TaskInv'
  BY <1>16 DEF CancelRunning
<1>17. ASSUME NEW q \in Requests, NEW d \in Daemons, NEW j \in Jobs, ResumeSeen(q, d, j) PROVE
      TaskInv'
  BY <1>17 DEF ResumeSeen
<1>18. ASSUME NEW q \in Requests, ResumeChecked(q) PROVE TaskInv'
  BY <1>18 DEF ResumeChecked, Resumable
<1>19. ASSUME NEW q \in Requests, ResumeRefused(q) PROVE TaskInv'
  BY <1>19 DEF ResumeRefused
<1>20. ASSUME NEW q \in Requests, ResumeStarted(q) PROVE TaskInv'
  <2>0. \A e \in Daemons, k \in Jobs :
         store'[e][k] = IF e = request[q].daemon /\ k = request[q].job THEN "running"
                        ELSE store[e][k]
    BY <1>20, StoreUpdate, SMTT(30) DEF ResumeStarted
  <2>1. RunningIsRunning'
    BY <1>20, <2>0, SpawnedTask DEF ResumeStarted, StillInterrupted
  <2>2. \A u, v \in tasks' : u.daemon = v.daemon /\ u.job = v.job => u = v
    BY <1>20, SpawnedTask DEF ResumeStarted, StillInterrupted
  <2> QED
    BY <2>1, <2>2
<1>21. ASSUME NEW q \in Requests, ResumeLost(q) PROVE TaskInv'
  BY <1>21 DEF ResumeLost
<1>22. CASE UNCHANGED vars
  BY <1>22
<1> HIDE DEF vars, durable, process, jobs, handlers, history, TypeOK, Task, Intake, Resume,
      LedgerStatus, StoreStatus, Outcome, ProcessInv, SubmissionInv, TaskInv, RunningIsRunning,
      Up
<1> QED
  BY <1>1, <1>2, <1>3, <1>4, <1>5, <1>6, <1>7, <1>8, <1>9, <1>10, <1>11, <1>12, <1>13, <1>14,
    <1>15, <1>16, <1>17, <1>18, <1>19, <1>20, <1>21, <1>22 DEF Next, ProcessStep, SubmitStep,
    TaskStep, CancelStep, ResumeStep

LEMMA GraphStep ==
  TypeOK /\ ProcessInv /\ SubmissionInv /\ TaskInv /\ GraphInv /\ [Next]_vars => GraphInv'
<1> SUFFICES ASSUME TypeOK, ProcessInv, SubmissionInv, TaskInv, GraphInv, [Next]_vars PROVE
      GraphInv'
  OBVIOUS
<1> USE DEF vars, durable, process, jobs, handlers, history, TypeOK, Task, Intake, Resume,
      LedgerStatus, StoreStatus, Outcome, ProcessInv, SubmissionInv, TaskInv, RunningIsRunning,
      GraphInv, Up
<1>1. ASSUME NEW d \in Daemons, NEW s \in Specs, Start(d, s) PROVE GraphInv'
  <2>1. \A e \in Daemons : Up(e) => serving'[e] = serving[e]
    BY <1>1 DEF Start
  <2> QED
    BY <1>1, <2>1 DEF Start
<1>2. ASSUME NEW d \in Daemons, NEW j \in Jobs, ScanJob(d, j) PROVE GraphInv'
  BY <1>2 DEF ScanJob, ScanFinds
<1>3. ASSUME NEW d \in Daemons, NEW j \in Jobs, SkipUnreadable(d, j) PROVE GraphInv'
  BY <1>3 DEF SkipUnreadable
<1>4. ASSUME NEW d \in Daemons, Serve(d) PROVE GraphInv'
  BY <1>4 DEF Serve
<1>5. ASSUME NEW d \in Daemons, Shutdown(d) PROVE GraphInv'
  BY <1>5 DEF Shutdown
<1>6. ASSUME NEW d \in Daemons, Stop(d) PROVE GraphInv'
  BY <1>6, SMTT(30) DEF Stop
<1>7. ASSUME NEW d \in Daemons, NEW j \in Jobs, OpenLedger(d, j) PROVE GraphInv'
  BY <1>7 DEF OpenLedger
<1>8. ASSUME NEW d \in Daemons, NEW j \in Jobs, WriteInput(d, j) PROVE GraphInv'
  BY <1>8 DEF WriteInput
<1>9. ASSUME NEW d \in Daemons, NEW j \in Jobs, RefuseInput(d, j) PROVE GraphInv'
  BY <1>9 DEF RefuseInput
<1>10. ASSUME NEW d \in Daemons, NEW j \in Jobs, Accept(d, j) PROVE GraphInv'
  BY <1>10 DEF Accept, Spawned
<1>11. ASSUME NEW t \in tasks, NEW o \in Outcome, RunReturns(t, o) PROVE GraphInv'
  <2>1. ledger' = [ledger EXCEPT ![t.job] = o] /\ tasks' = Returned(t, o)
        /\ UNCHANGED <<fingerprint, submitted, serving, intake, request>>
    BY <1>11 DEF RunReturns
  <2>2. t.daemon \in Daemons /\ t.job \in Jobs
    OBVIOUS
  <2>3. store[t.daemon][t.job] = "running"
    BY <2>2
  <2>4. ledger[t.job] # "absent"
    BY <2>2, <2>3
  <2>5. \A u \in tasks' : \E v \in tasks : v.daemon = u.daemon /\ v.job = u.job
    BY <2>1, ReturnedTasks
  <2> QED
    BY <2>1, <2>2, <2>4, <2>5
<1>12. ASSUME NEW t \in tasks, NEW o \in Outcome, RunReturnsUnrecorded(t, o) PROVE GraphInv'
  BY <1>12, ReturnedTasks DEF RunReturnsUnrecorded
<1>13. ASSUME NEW t \in tasks, Deliver(t) PROVE GraphInv'
  BY <1>13 DEF Deliver
<1>14. ASSUME NEW d \in Daemons, NEW j \in Jobs, CancelInterrupted(d, j) PROVE GraphInv'
  BY <1>14 DEF CancelInterrupted
<1>15. ASSUME NEW d \in Daemons, NEW j \in Jobs, CancelUnrecorded(d, j) PROVE GraphInv'
  BY <1>15 DEF CancelUnrecorded
<1>16. ASSUME NEW d \in Daemons, NEW j \in Jobs, CancelRunning(d, j) PROVE GraphInv'
  BY <1>16 DEF CancelRunning
<1>17. ASSUME NEW q \in Requests, NEW d \in Daemons, NEW j \in Jobs, ResumeSeen(q, d, j) PROVE
      GraphInv'
  BY <1>17 DEF ResumeSeen
<1>18. ASSUME NEW q \in Requests, ResumeChecked(q) PROVE GraphInv'
  BY <1>18 DEF ResumeChecked, Resumable
<1>19. ASSUME NEW q \in Requests, ResumeRefused(q) PROVE GraphInv'
  BY <1>19 DEF ResumeRefused
<1>20. ASSUME NEW q \in Requests, ResumeStarted(q) PROVE GraphInv'
  BY <1>20 DEF ResumeStarted, StillInterrupted, Spawned
<1>21. ASSUME NEW q \in Requests, ResumeLost(q) PROVE GraphInv'
  BY <1>21 DEF ResumeLost
<1>22. CASE UNCHANGED vars
  BY <1>22
<1> HIDE DEF vars, durable, process, jobs, handlers, history, TypeOK, Task, Intake, Resume,
      LedgerStatus, StoreStatus, Outcome, ProcessInv, SubmissionInv, TaskInv, RunningIsRunning,
      GraphInv, Up
<1> QED
  BY <1>1, <1>2, <1>3, <1>4, <1>5, <1>6, <1>7, <1>8, <1>9, <1>10, <1>11, <1>12, <1>13, <1>14,
    <1>15, <1>16, <1>17, <1>18, <1>19, <1>20, <1>21, <1>22 DEF Next, ProcessStep, SubmitStep,
    TaskStep, CancelStep, ResumeStep

LEMMA OneDaemonStep ==
  ASSUME TypeOK, OneDaemon, ~Lingers, [Next]_vars
  PROVE  OneDaemon'
<1> USE DEF vars, durable, process, jobs, handlers, history, TypeOK, OneDaemon
<1>1. ASSUME NEW d \in Daemons, NEW s \in Specs, Start(d, s) PROVE OneDaemon'
  BY <1>1 DEF Start, MayStart
<1>2. ASSUME NEW d \in Daemons, NEW j \in Jobs, ScanJob(d, j) PROVE OneDaemon'
  BY <1>2 DEF ScanJob, ScanFinds
<1>3. ASSUME NEW d \in Daemons, NEW j \in Jobs, SkipUnreadable(d, j) PROVE OneDaemon'
  BY <1>3 DEF SkipUnreadable
<1>4. ASSUME NEW d \in Daemons, Serve(d) PROVE OneDaemon'
  BY <1>4 DEF Serve
<1>5. ASSUME NEW d \in Daemons, Shutdown(d) PROVE OneDaemon'
  BY <1>5 DEF Shutdown
<1>6. ASSUME NEW d \in Daemons, Stop(d) PROVE OneDaemon'
  BY <1>6 DEF Stop
<1>7. ASSUME NEW d \in Daemons, NEW j \in Jobs, OpenLedger(d, j) PROVE OneDaemon'
  BY <1>7 DEF OpenLedger
<1>8. ASSUME NEW d \in Daemons, NEW j \in Jobs, WriteInput(d, j) PROVE OneDaemon'
  BY <1>8 DEF WriteInput
<1>9. ASSUME NEW d \in Daemons, NEW j \in Jobs, RefuseInput(d, j) PROVE OneDaemon'
  BY <1>9 DEF RefuseInput
<1>10. ASSUME NEW d \in Daemons, NEW j \in Jobs, Accept(d, j) PROVE OneDaemon'
  BY <1>10 DEF Accept, Spawned
<1>11. ASSUME NEW t \in tasks, NEW o \in Outcome, RunReturns(t, o) PROVE OneDaemon'
  BY <1>11 DEF RunReturns, Returned
<1>12. ASSUME NEW t \in tasks, NEW o \in Outcome, RunReturnsUnrecorded(t, o) PROVE OneDaemon'
  BY <1>12 DEF RunReturnsUnrecorded, Returned
<1>13. ASSUME NEW t \in tasks, Deliver(t) PROVE OneDaemon'
  BY <1>13 DEF Deliver
<1>14. ASSUME NEW d \in Daemons, NEW j \in Jobs, CancelInterrupted(d, j) PROVE OneDaemon'
  BY <1>14 DEF CancelInterrupted
<1>15. ASSUME NEW d \in Daemons, NEW j \in Jobs, CancelUnrecorded(d, j) PROVE OneDaemon'
  BY <1>15 DEF CancelUnrecorded
<1>16. ASSUME NEW d \in Daemons, NEW j \in Jobs, CancelRunning(d, j) PROVE OneDaemon'
  BY <1>16 DEF CancelRunning
<1>17. ASSUME NEW q \in Requests, NEW d \in Daemons, NEW j \in Jobs, ResumeSeen(q, d, j) PROVE
      OneDaemon'
  BY <1>17 DEF ResumeSeen
<1>18. ASSUME NEW q \in Requests, ResumeChecked(q) PROVE OneDaemon'
  BY <1>18 DEF ResumeChecked, Resumable
<1>19. ASSUME NEW q \in Requests, ResumeRefused(q) PROVE OneDaemon'
  BY <1>19 DEF ResumeRefused
<1>20. ASSUME NEW q \in Requests, ResumeStarted(q) PROVE OneDaemon'
  BY <1>20 DEF ResumeStarted, StillInterrupted, Spawned
<1>21. ASSUME NEW q \in Requests, ResumeLost(q) PROVE OneDaemon'
  BY <1>21 DEF ResumeLost
<1>22. CASE UNCHANGED vars
  BY <1>22
<1> HIDE DEF vars, durable, process, jobs, handlers, history, TypeOK, OneDaemon
<1> QED
  BY <1>1, <1>2, <1>3, <1>4, <1>5, <1>6, <1>7, <1>8, <1>9, <1>10, <1>11, <1>12, <1>13, <1>14,
    <1>15, <1>16, <1>17, <1>18, <1>19, <1>20, <1>21, <1>22 DEF Next, ProcessStep, SubmitStep,
    TaskStep, CancelStep, ResumeStep

\* While the one daemon scans, no task runs.
LEMMA ScanningIsIdle ==
  ASSUME TypeOK, ProcessInv, OneDaemon, NEW d \in Daemons, phase[d] = "scanning"
  PROVE  tasks = {}
<1>1. ASSUME NEW t \in tasks PROVE FALSE
  <2>1. t.daemon \in Daemons /\ Up(t.daemon)
    BY DEF TypeOK, Task, ProcessInv
  <2> QED
    BY <2>1 DEF Up, OneDaemon
<1> QED
  BY <1>1

\* A job being submitted is unknown to every process.
LEMMA SubmittedIsUnknown ==
  ASSUME TypeOK, ProcessInv, SubmissionInv, OneDaemon, NEW j \in Jobs, intake[j] # NoIntake
  PROVE  /\ intake[j].daemon \in Daemons
         /\ phase[intake[j].daemon] \in {"serving", "stopping"}
         /\ \A e \in Daemons : store[e][j] = "unknown"
<1>1. intake[j].daemon \in Daemons
  BY DEF TypeOK, Intake
<1>2. Up(intake[j].daemon)
  BY DEF ProcessInv
<1>3. store[intake[j].daemon][j] = "unknown"
  BY DEF SubmissionInv
<1>4. ASSUME NEW e \in Daemons, e # intake[j].daemon PROVE store[e][j] = "unknown"
  <2>1. phase[e] = "down"
    BY <1>1, <1>2, <1>4 DEF OneDaemon, Up
  <2> QED
    BY <2>1 DEF ProcessInv
<1> QED
  BY <1>1, <1>2, <1>3, <1>4 DEF Up

\* While daemons do not overlap, no other task is at a task's job, and no
\* process says of the job that it is over or interrupted.
LEMMA TaskIsAlone ==
  ASSUME TypeOK, ProcessInv, SubmissionInv, TaskInv, OneDaemon, NEW t \in tasks
  PROVE  /\ \A u \in tasks : u.job = t.job => u = t
         /\ \A e \in Daemons : store[e][t.job] \notin {"interrupted"} \cup Outcome
         /\ intake[t.job] = NoIntake
<1>1. t.daemon \in Daemons /\ t.job \in Jobs /\ phase[t.daemon] \in {"serving", "stopping"}
  BY DEF TypeOK, Task, ProcessInv, Up
<1>2. \A u \in tasks : u.daemon = t.daemon
  <2>1. \A u \in tasks : u.daemon \in Daemons /\ phase[u.daemon] # "down"
    BY DEF TypeOK, Task, ProcessInv, Up
  <2> QED
    BY <1>1, <2>1 DEF OneDaemon
<1>3. store[t.daemon][t.job] = "running"
  BY <1>1 DEF TaskInv, RunningIsRunning
<1>4. ASSUME NEW e \in Daemons PROVE store[e][t.job] \in {"running", "unknown"}
  <2>1. CASE e = t.daemon
    BY <1>3, <2>1
  <2>2. CASE e # t.daemon
    BY <1>1, <2>2 DEF OneDaemon, ProcessInv
  <2> QED
    BY <2>1, <2>2
<1>5. intake[t.job] = NoIntake
  BY <1>1, <1>3, SubmittedIsUnknown
<1> QED
  BY <1>2, <1>4, <1>5 DEF TaskInv, Outcome

\* The outcome of a job's only task, recorded.
LEMMA RecordedReturn ==
  ASSUME TypeOK, RecordInv, NEW t \in tasks, NEW o \in Outcome, t.job \in Jobs,
         tasks' = Returned(t, o), ledger' = [ledger EXCEPT ![t.job] = o],
         UNCHANGED <<store, intake>>,
         \A u \in tasks : u.job = t.job => u = t,
         \A e \in Daemons : store[e][t.job] \notin {"interrupted"} \cup Outcome,
         intake[t.job] = NoIntake
  PROVE  RecordInv'
<1>1. \A j \in Jobs : ledger'[j] = IF j = t.job THEN o ELSE ledger[j]
  BY DEF TypeOK
<1>2. \A u \in tasks' : IF u.job = t.job THEN u.at = o ELSE u \in tasks
  BY ReturnedTasks DEF TypeOK
<1>3. \A u \in tasks' : u.job \in Jobs
  BY ReturnedTasks DEF TypeOK, Task
<1>4. StatusRecorded'
  BY <1>1, <1>2 DEF RecordInv, StatusRecorded
<1>5. \A u \in tasks' : ledger'[u.job] = IF u.at = "walking" THEN "running" ELSE u.at
  BY <1>1, <1>2, <1>3 DEF RecordInv, Outcome
<1>6. \A j \in Jobs : intake'[j] # NoIntake => ledger'[j] = "running"
  BY <1>1 DEF RecordInv
<1> QED
  BY <1>4, <1>5, <1>6 DEF RecordInv

LEMMA RecordStep ==
  ASSUME TypeOK, ProcessInv, SubmissionInv, TaskInv, OneDaemon, ~Faults, RecordInv, [Next]_vars
  PROVE  RecordInv'
<1> USE DEF vars, durable, process, jobs, handlers, history, TypeOK, Task, Intake, Resume,
      LedgerStatus, StoreStatus, Outcome, ProcessInv, SubmissionInv, TaskInv, RunningIsRunning,
      OneDaemon, RecordInv, StatusRecorded, Up
<1>1. ASSUME NEW d \in Daemons, NEW s \in Specs, Start(d, s) PROVE RecordInv'
  BY <1>1 DEF Start, MayStart
<1>2. ASSUME NEW d \in Daemons, NEW j \in Jobs, ScanJob(d, j) PROVE RecordInv'
  <2>1. CASE ScanFinds(j)
    <3>1. store' = [store EXCEPT ![d][j] = "interrupted"]
      BY <1>2, <2>1 DEF ScanJob
    <3>2. \A e \in Daemons, k \in Jobs :
           store'[e][k] = IF e = d /\ k = j THEN "interrupted" ELSE store[e][k]
      BY <1>2, <3>1, StoreUpdate DEF ScanJob
    <3>3. tasks = {}
      <4>1. phase[d] = "scanning"
        BY <1>2 DEF ScanJob
      <4> HIDE DEF TypeOK, ProcessInv
      <4> QED
        BY <4>1, ScanningIsIdle
    <3>4. StatusRecorded'
      BY <1>2, <2>1, <3>2, <3>3 DEF ScanJob, ScanFinds
    <3> QED
      BY <1>2, <3>4 DEF ScanJob
  <2>2. CASE ~ScanFinds(j)
    BY <1>2, <2>2 DEF ScanJob
  <2> QED
    BY <2>1, <2>2
<1>3. ASSUME NEW d \in Daemons, NEW j \in Jobs, SkipUnreadable(d, j) PROVE RecordInv'
  BY <1>3 DEF SkipUnreadable
<1>4. ASSUME NEW d \in Daemons, Serve(d) PROVE RecordInv'
  BY <1>4 DEF Serve
<1>5. ASSUME NEW d \in Daemons, Shutdown(d) PROVE RecordInv'
  BY <1>5 DEF Shutdown
<1>6. ASSUME NEW d \in Daemons, Stop(d) PROVE RecordInv'
  BY <1>6 DEF Stop
<1>7. ASSUME NEW d \in Daemons, NEW j \in Jobs, OpenLedger(d, j) PROVE RecordInv'
  BY <1>7 DEF OpenLedger
<1>8. ASSUME NEW d \in Daemons, NEW j \in Jobs, WriteInput(d, j) PROVE RecordInv'
  BY <1>8 DEF WriteInput
<1>9. ASSUME NEW d \in Daemons, NEW j \in Jobs, RefuseInput(d, j) PROVE RecordInv'
  BY <1>9 DEF RefuseInput
<1>10. ASSUME NEW d \in Daemons, NEW j \in Jobs, Accept(d, j) PROVE RecordInv'
  <2>0. \A e \in Daemons, k \in Jobs :
         store'[e][k] = IF e = d /\ k = j THEN "running" ELSE store[e][k]
    BY <1>10, StoreUpdate DEF Accept
  <2>1. StatusRecorded'
    <3>1. \A t \in tasks' : t \in tasks \/ t.job = j
      BY <1>10, SpawnedTask DEF Accept
    <3>2. \A e \in Daemons : store[e][j] = "unknown"
      <4>1. intake[j] # NoIntake
        BY <1>10 DEF Accept
      <4> HIDE DEF TypeOK, ProcessInv, SubmissionInv
      <4> QED
        BY <4>1, SubmittedIsUnknown
    <3> QED
      BY <1>10, <2>0, <3>1, <3>2 DEF Accept
  <2>2. (\A t \in tasks : ledger[t.job] = IF t.at = "walking" THEN "running" ELSE t.at)'
    BY <1>10, SpawnedTask DEF Accept
  <2>3. (\A k \in Jobs : intake[k] # NoIntake => ledger[k] = "running")'
    BY <1>10 DEF Accept
  <2> QED
    BY <2>1, <2>2, <2>3
<1>11. ASSUME NEW t \in tasks, NEW o \in Outcome, RunReturns(t, o) PROVE RecordInv'
  <2>1. /\ t.job \in Jobs /\ tasks' = Returned(t, o) /\ ledger' = [ledger EXCEPT ![t.job] = o]
        /\ UNCHANGED <<store, intake>>
    BY <1>11 DEF RunReturns
  <2> HIDE DEF TypeOK, ProcessInv, SubmissionInv, TaskInv, RunningIsRunning, OneDaemon, RecordInv,
        StatusRecorded, Task
  <2>2. /\ \A u \in tasks : u.job = t.job => u = t
        /\ \A e \in Daemons : store[e][t.job] \notin {"interrupted"} \cup Outcome
        /\ intake[t.job] = NoIntake
    BY TaskIsAlone
  <2> QED
    BY <2>1, <2>2, RecordedReturn
<1>12. ASSUME NEW t \in tasks, NEW o \in Outcome, RunReturnsUnrecorded(t, o) PROVE RecordInv'
  BY <1>12 DEF RunReturnsUnrecorded, Returned
<1>13. ASSUME NEW t \in tasks, Deliver(t) PROVE RecordInv'
  BY <1>13 DEF Deliver
<1>14. ASSUME NEW d \in Daemons, NEW j \in Jobs, CancelInterrupted(d, j) PROVE RecordInv'
  <2>0. \A e \in Daemons, k \in Jobs :
         store'[e][k] = IF e = d /\ k = j THEN "cancelled" ELSE store[e][k]
    BY <1>14, StoreUpdate DEF CancelInterrupted
  <2>1. StatusRecorded'
    <3>1. /\ store[d][j] = "interrupted" /\ phase[d] = "serving"
          /\ ledger' = [ledger EXCEPT ![j] = "cancelled"] /\ tasks' = tasks
      BY <1>14 DEF CancelInterrupted
    <3>2. \A e \in Daemons : e # d => store[e][j] = "unknown"
      BY <3>1
    <3>3. \A e \in Daemons, k \in Jobs :
            store'[e][k] = "interrupted" => k # j /\ store[e][k] = "interrupted"
      BY <2>0, <3>1, <3>2
    <3>4. \A e \in Daemons, k \in Jobs : store'[e][k] \in Outcome =>
            IF k = j THEN store'[e][k] = "cancelled" ELSE store[e][k] \in Outcome
      BY <2>0, <3>1, <3>2
    <3>5. \A k \in Jobs : ledger'[k] = IF k = j THEN "cancelled" ELSE ledger[k]
      BY <3>1
    <3> HIDE DEF TypeOK, ProcessInv, SubmissionInv
    <3> QED
      BY <2>0, <3>1, <3>3, <3>4, <3>5
  <2>2. (\A t \in tasks : ledger[t.job] = IF t.at = "walking" THEN "running" ELSE t.at)'
    BY <1>14 DEF CancelInterrupted
  <2>3. (\A k \in Jobs : intake[k] # NoIntake => ledger[k] = "running")'
    <3>1. ledger' = [ledger EXCEPT ![j] = "cancelled"] /\ intake' = intake
          /\ store[d][j] = "interrupted"
      BY <1>14 DEF CancelInterrupted
    <3>2. \A k \in Jobs : intake[k] # NoIntake => ledger[k] = "running"
      OBVIOUS
    <3>3. ledger \in [Jobs -> LedgerStatus]
      OBVIOUS
    <3> HIDE DEF TypeOK, ProcessInv, SubmissionInv, TaskInv, RecordInv, OneDaemon
    <3>4. \A k \in Jobs : intake[k] # NoIntake => k # j
      BY <3>1, SubmittedIsUnknown
    <3> QED
      BY <3>1, <3>2, <3>3, <3>4
  <2> QED
    BY <2>1, <2>2, <2>3
<1>15. ASSUME NEW d \in Daemons, NEW j \in Jobs, CancelUnrecorded(d, j) PROVE RecordInv'
  BY <1>15 DEF CancelUnrecorded
<1>16. ASSUME NEW d \in Daemons, NEW j \in Jobs, CancelRunning(d, j) PROVE RecordInv'
  BY <1>16 DEF CancelRunning
<1>17. ASSUME NEW q \in Requests, NEW d \in Daemons, NEW j \in Jobs, ResumeSeen(q, d, j) PROVE
      RecordInv'
  BY <1>17 DEF ResumeSeen
<1>18. ASSUME NEW q \in Requests, ResumeChecked(q) PROVE RecordInv'
  BY <1>18 DEF ResumeChecked, Resumable
<1>19. ASSUME NEW q \in Requests, ResumeRefused(q) PROVE RecordInv'
  BY <1>19 DEF ResumeRefused
<1>20. ASSUME NEW q \in Requests, ResumeStarted(q) PROVE RecordInv'
  BY <1>20, SMTT(30) DEF ResumeStarted, StillInterrupted, Spawned
<1>21. ASSUME NEW q \in Requests, ResumeLost(q) PROVE RecordInv'
  BY <1>21 DEF ResumeLost
<1>22. CASE UNCHANGED vars
  BY <1>22
<1> HIDE DEF vars, durable, process, jobs, handlers, history, TypeOK, Task, Intake, Resume,
      LedgerStatus, StoreStatus, Outcome, ProcessInv, SubmissionInv, TaskInv, RunningIsRunning,
      OneDaemon, RecordInv, StatusRecorded, Up
<1> QED
  BY <1>1, <1>2, <1>3, <1>4, <1>5, <1>6, <1>7, <1>8, <1>9, <1>10, <1>11, <1>12, <1>13, <1>14,
    <1>15, <1>16, <1>17, <1>18, <1>19, <1>20, <1>21, <1>22 DEF Next, ProcessStep, SubmitStep,
    TaskStep, CancelStep, ResumeStep

LEMMA AcceptStep ==
  ASSUME TypeOK, ProcessInv, SubmissionInv, TaskInv, OneDaemon, ~Faults, RecordInv, AcceptInv,
    [Next]_vars
  PROVE  AcceptInv'
<1> USE DEF vars, durable, process, jobs, handlers, history, TypeOK, Task, Intake, Resume,
      LedgerStatus, StoreStatus, Outcome, ProcessInv, SubmissionInv, TaskInv, RunningIsRunning,
      OneDaemon, RecordInv, StatusRecorded, AcceptInv, AcceptedKept, Up
<1>1. ASSUME NEW d \in Daemons, NEW s \in Specs, Start(d, s) PROVE AcceptInv'
  BY <1>1 DEF Start, MayStart
<1>2. ASSUME NEW d \in Daemons, NEW j \in Jobs, ScanJob(d, j) PROVE AcceptInv'
  BY <1>2 DEF ScanJob, ScanFinds
<1>3. ASSUME NEW d \in Daemons, NEW j \in Jobs, SkipUnreadable(d, j) PROVE AcceptInv'
  BY <1>3 DEF SkipUnreadable
<1>4. ASSUME NEW d \in Daemons, Serve(d) PROVE AcceptInv'
  BY <1>4 DEF Serve
<1>5. ASSUME NEW d \in Daemons, Shutdown(d) PROVE AcceptInv'
  BY <1>5 DEF Shutdown
<1>6. ASSUME NEW d \in Daemons, Stop(d) PROVE AcceptInv'
  BY <1>6 DEF Stop
<1>7. ASSUME NEW d \in Daemons, NEW j \in Jobs, OpenLedger(d, j) PROVE AcceptInv'
  BY <1>7 DEF OpenLedger
<1>8. ASSUME NEW d \in Daemons, NEW j \in Jobs, WriteInput(d, j) PROVE AcceptInv'
  BY <1>8 DEF WriteInput
<1>9. ASSUME NEW d \in Daemons, NEW j \in Jobs, RefuseInput(d, j) PROVE AcceptInv'
  BY <1>9 DEF RefuseInput
<1>10. ASSUME NEW d \in Daemons, NEW j \in Jobs, Accept(d, j) PROVE AcceptInv'
  <2>0. \A e \in Daemons, k \in Jobs :
         store'[e][k] = IF e = d /\ k = j THEN "running" ELSE store[e][k]
    BY <1>10, StoreUpdate, SMTT(30) DEF Accept
  <2>1. (\A k \in Jobs : intake[k] # NoIntake /\ intake[k].at = "input" => k \in input)'
    BY <1>10 DEF Accept
  <2>2. (\A k \in accepted : ledger[k] # "absent" /\ intake[k] = NoIntake)'
    BY <1>10 DEF Accept
  <2>3. (\A e \in Daemons, k \in accepted :
          phase[e] = "scanning" /\ ledger[k] = "running" =>
            k \in unscanned[e] \/ store[e][k] = "interrupted")'
    <3>1. phase[d] \in {"serving", "stopping"}
      <4>1. intake[j] # NoIntake /\ intake[j].daemon = d
        BY <1>10 DEF Accept
      <4> HIDE DEF TypeOK, ProcessInv, SubmissionInv
      <4> QED
        BY <4>1, SubmittedIsUnknown
    <3>2. \A e \in Daemons : phase'[e] # "scanning"
      BY <1>10, <3>1 DEF Accept
    <3> QED
      BY <3>2
  <2>4. AcceptedKept'
    <3>1. /\ accepted' = accepted \cup {j} /\ intake[j] = [daemon |-> d, at |-> "input"]
          /\ UNCHANGED <<ledger, input, phase>>
      BY <1>10 DEF Accept
    <3>2. j \in input /\ accepted \subseteq Jobs
      BY <3>1
    <3>3. \A e \in Daemons : phase[e] \in {"serving", "stopping"} => e = d
      <4>1. phase[d] # "down"
        BY <3>1
      <4> QED
        BY <4>1
    <3> HIDE DEF TypeOK, ProcessInv, SubmissionInv
    <3> QED
      BY <2>0, <3>1, <3>2, <3>3
  <2> QED
    BY <2>1, <2>2, <2>3, <2>4
<1>11. ASSUME NEW t \in tasks, NEW o \in Outcome, RunReturns(t, o) PROVE AcceptInv'
  BY <1>11 DEF RunReturns, Returned
<1>12. ASSUME NEW t \in tasks, NEW o \in Outcome, RunReturnsUnrecorded(t, o) PROVE AcceptInv'
  BY <1>12 DEF RunReturnsUnrecorded, Returned
<1>13. ASSUME NEW t \in tasks, Deliver(t) PROVE AcceptInv'
  BY <1>13 DEF Deliver
<1>14. ASSUME NEW d \in Daemons, NEW j \in Jobs, CancelInterrupted(d, j) PROVE AcceptInv'
  BY <1>14 DEF CancelInterrupted
<1>15. ASSUME NEW d \in Daemons, NEW j \in Jobs, CancelUnrecorded(d, j) PROVE AcceptInv'
  BY <1>15 DEF CancelUnrecorded
<1>16. ASSUME NEW d \in Daemons, NEW j \in Jobs, CancelRunning(d, j) PROVE AcceptInv'
  BY <1>16 DEF CancelRunning
<1>17. ASSUME NEW q \in Requests, NEW d \in Daemons, NEW j \in Jobs, ResumeSeen(q, d, j) PROVE
      AcceptInv'
  BY <1>17 DEF ResumeSeen
<1>18. ASSUME NEW q \in Requests, ResumeChecked(q) PROVE AcceptInv'
  BY <1>18 DEF ResumeChecked, Resumable
<1>19. ASSUME NEW q \in Requests, ResumeRefused(q) PROVE AcceptInv'
  BY <1>19 DEF ResumeRefused
<1>20. ASSUME NEW q \in Requests, ResumeStarted(q) PROVE AcceptInv'
  <2>0. \A e \in Daemons, k \in Jobs :
         store'[e][k] = IF e = request[q].daemon /\ k = request[q].job THEN "running"
                        ELSE store[e][k]
    BY <1>20, StoreUpdate, SMTT(30) DEF ResumeStarted
  <2>1. (\A k \in Jobs : intake[k] # NoIntake /\ intake[k].at = "input" => k \in input)'
    BY <1>20 DEF ResumeStarted
  <2>2. (\A k \in accepted : ledger[k] # "absent" /\ intake[k] = NoIntake)'
    BY <1>20 DEF ResumeStarted
  <2>3. (\A e \in Daemons, k \in accepted :
          phase[e] = "scanning" /\ ledger[k] = "running" =>
            k \in unscanned[e] \/ store[e][k] = "interrupted")'
    <3>1. phase[request[q].daemon] # "scanning"
      BY <1>20 DEF ResumeStarted
    <3>2. UNCHANGED <<phase, ledger, unscanned>>
      BY <1>20 DEF ResumeStarted
    <3>3. \A e \in Daemons, k \in Jobs :
           phase[e] = "scanning" => store'[e][k] = store[e][k]
      BY <2>0, <3>1
    <3> QED
      BY <1>20, <3>2, <3>3 DEF ResumeStarted
  <2>4. AcceptedKept'
    BY <1>20, <2>0 DEF ResumeStarted
  <2> QED
    BY <2>1, <2>2, <2>3, <2>4
<1>21. ASSUME NEW q \in Requests, ResumeLost(q) PROVE AcceptInv'
  BY <1>21 DEF ResumeLost
<1>22. CASE UNCHANGED vars
  BY <1>22
<1> HIDE DEF vars, durable, process, jobs, handlers, history, TypeOK, Task, Intake, Resume,
      LedgerStatus, StoreStatus, Outcome, ProcessInv, SubmissionInv, TaskInv, RunningIsRunning,
      OneDaemon, RecordInv, StatusRecorded, AcceptInv, AcceptedKept, Up
<1> QED
  BY <1>1, <1>2, <1>3, <1>4, <1>5, <1>6, <1>7, <1>8, <1>9, <1>10, <1>11, <1>12, <1>13, <1>14,
    <1>15, <1>16, <1>17, <1>18, <1>19, <1>20, <1>21, <1>22 DEF Next, ProcessStep, SubmitStep,
    TaskStep, CancelStep, ResumeStep

\* Only tasks, submissions and cancellations write a status.
LedgerStep == \A j \in Jobs : ledger[j] \in Outcome => ledger'[j] = ledger[j]

LEMMA FinalStep ==
  ASSUME TypeOK, RecordInv, [Next]_vars
  PROVE  LedgerStep
<1> USE DEF vars, durable, process, jobs, handlers, history, TypeOK, Task, Intake, Resume,
      LedgerStatus, StoreStatus, Outcome, RecordInv, StatusRecorded, LedgerStep
<1>1. ASSUME NEW d \in Daemons, NEW s \in Specs, Start(d, s) PROVE LedgerStep
  BY <1>1 DEF Start, MayStart
<1>2. ASSUME NEW d \in Daemons, NEW j \in Jobs, ScanJob(d, j) PROVE LedgerStep
  BY <1>2 DEF ScanJob, ScanFinds
<1>3. ASSUME NEW d \in Daemons, NEW j \in Jobs, SkipUnreadable(d, j) PROVE LedgerStep
  BY <1>3 DEF SkipUnreadable
<1>4. ASSUME NEW d \in Daemons, Serve(d) PROVE LedgerStep
  BY <1>4 DEF Serve
<1>5. ASSUME NEW d \in Daemons, Shutdown(d) PROVE LedgerStep
  BY <1>5 DEF Shutdown
<1>6. ASSUME NEW d \in Daemons, Stop(d) PROVE LedgerStep
  BY <1>6 DEF Stop
<1>7. ASSUME NEW d \in Daemons, NEW j \in Jobs, OpenLedger(d, j) PROVE LedgerStep
  BY <1>7 DEF OpenLedger
<1>8. ASSUME NEW d \in Daemons, NEW j \in Jobs, WriteInput(d, j) PROVE LedgerStep
  BY <1>8 DEF WriteInput
<1>9. ASSUME NEW d \in Daemons, NEW j \in Jobs, RefuseInput(d, j) PROVE LedgerStep
  BY <1>9 DEF RefuseInput
<1>10. ASSUME NEW d \in Daemons, NEW j \in Jobs, Accept(d, j) PROVE LedgerStep
  BY <1>10 DEF Accept, Spawned
<1>11. ASSUME NEW t \in tasks, NEW o \in Outcome, RunReturns(t, o) PROVE LedgerStep
  BY <1>11 DEF RunReturns
<1>12. ASSUME NEW t \in tasks, NEW o \in Outcome, RunReturnsUnrecorded(t, o) PROVE LedgerStep
  BY <1>12 DEF RunReturnsUnrecorded
<1>13. ASSUME NEW t \in tasks, Deliver(t) PROVE LedgerStep
  BY <1>13 DEF Deliver
<1>14. ASSUME NEW d \in Daemons, NEW j \in Jobs, CancelInterrupted(d, j) PROVE LedgerStep
  BY <1>14 DEF CancelInterrupted
<1>15. ASSUME NEW d \in Daemons, NEW j \in Jobs, CancelUnrecorded(d, j) PROVE LedgerStep
  BY <1>15 DEF CancelUnrecorded
<1>16. ASSUME NEW d \in Daemons, NEW j \in Jobs, CancelRunning(d, j) PROVE LedgerStep
  BY <1>16 DEF CancelRunning
<1>17. ASSUME NEW q \in Requests, NEW d \in Daemons, NEW j \in Jobs, ResumeSeen(q, d, j) PROVE
      LedgerStep
  BY <1>17 DEF ResumeSeen
<1>18. ASSUME NEW q \in Requests, ResumeChecked(q) PROVE LedgerStep
  BY <1>18 DEF ResumeChecked, Resumable
<1>19. ASSUME NEW q \in Requests, ResumeRefused(q) PROVE LedgerStep
  BY <1>19 DEF ResumeRefused
<1>20. ASSUME NEW q \in Requests, ResumeStarted(q) PROVE LedgerStep
  BY <1>20 DEF ResumeStarted, StillInterrupted, Spawned
<1>21. ASSUME NEW q \in Requests, ResumeLost(q) PROVE LedgerStep
  BY <1>21 DEF ResumeLost
<1>22. CASE UNCHANGED vars
  BY <1>22
<1> HIDE DEF vars, durable, process, jobs, handlers, history, TypeOK, Task, Intake, Resume,
      LedgerStatus, StoreStatus, Outcome, RecordInv, StatusRecorded, LedgerStep
<1> QED
  BY <1>1, <1>2, <1>3, <1>4, <1>5, <1>6, <1>7, <1>8, <1>9, <1>10, <1>11, <1>12, <1>13, <1>14,
    <1>15, <1>16, <1>17, <1>18, <1>19, <1>20, <1>21, <1>22 DEF Next, ProcessStep, SubmitStep,
    TaskStep, CancelStep, ResumeStep

-----------------------------------------------------------------------------
Inv == TypeOK /\ ProcessInv /\ ServedInv /\ SubmissionInv /\ TaskInv /\ GraphInv

LEMMA InitInv == Init => Inv /\ OneDaemon /\ RecordInv /\ AcceptInv
<1> SUFFICES ASSUME Init PROVE Inv /\ OneDaemon /\ RecordInv /\ AcceptInv
  OBVIOUS
<1>1. TypeOK
  BY DEF Init, TypeOK, LedgerStatus, StoreStatus
<1>2. ProcessInv /\ ServedInv /\ SubmissionInv
  BY DEF Init, ProcessInv, ServedInv, SubmissionInv, Up
<1>3. TaskInv /\ GraphInv
  BY DEF Init, TaskInv, RunningIsRunning, GraphInv
<1>4. OneDaemon
  BY DEF Init, OneDaemon
<1>5. RecordInv /\ AcceptInv
  BY DEF Init, RecordInv, StatusRecorded, AcceptInv, AcceptedKept, Outcome
<1> QED
  BY <1>1, <1>2, <1>3, <1>4, <1>5 DEF Inv

LEMMA Invariance == Spec => []Inv
<1>1. Init => Inv
  BY InitInv
<1>2. Inv /\ [Next]_vars => Inv'
  BY TypeStep, ProcessInvStep, ServedStep, SubmissionStep, TaskStepInv, GraphStep DEF Inv
<1> QED
  BY <1>1, <1>2, PTL DEF Spec

LEMMA AloneInvariance == ASSUME ~Lingers PROVE Spec => []OneDaemon
<1>1. Init => OneDaemon
  BY InitInv
<1>2. TypeOK /\ OneDaemon /\ [Next]_vars => OneDaemon'
  BY OneDaemonStep
<1>3. Inv => TypeOK
  BY DEF Inv
<1> QED
  BY <1>1, <1>2, <1>3, Invariance, PTL DEF Spec

LEMMA RecordInvariance == ASSUME ~Lingers, ~Faults PROVE Spec => [](RecordInv /\ AcceptInv)
<1>1. Init => RecordInv /\ AcceptInv
  BY InitInv
<1>2. Inv /\ OneDaemon /\ RecordInv /\ AcceptInv /\ [Next]_vars => (RecordInv /\ AcceptInv)'
  BY RecordStep, AcceptStep DEF Inv
<1> QED
  BY <1>1, <1>2, Invariance, AloneInvariance, PTL DEF Spec

(***************************************************************************)
(* The daemon's state keeps its types, and no job has an envelope before   *)
(* it is finished.                                                         *)
(***************************************************************************)
THEOREM TypeCorrect == Spec => []TypeOK
<1>1. Inv => TypeOK
  BY DEF Inv
<1> QED
  BY <1>1, Invariance, PTL

(***************************************************************************)
(* A daemon calls a job running exactly while one of its tasks is at it,   *)
(* whatever fails and however many daemons share the jobs root.            *)
(***************************************************************************)
THEOREM RunningHasTask == Spec => []RunningIsRunning
<1>1. Inv => RunningIsRunning
  BY DEF Inv, TaskInv
<1> QED
  BY <1>1, Invariance, PTL

(***************************************************************************)
(* No task runs a graph with another fingerprint than that of the spec its *)
(* job was submitted against, whichever specs share one.                   *)
(***************************************************************************)
THEOREM FingerprintKept == Spec => []FingerprintsMatch
<1>1. Inv => FingerprintsMatch
  <2> SUFFICES ASSUME Inv, NEW t \in tasks
               PROVE  GraphFingerprint[serving[t.daemon]] = GraphFingerprint[submitted[t.job]]
    BY DEF FingerprintsMatch
  <2>1. t.daemon \in Daemons /\ t.job \in Jobs
    BY DEF Inv, TypeOK, Task
  <2>2. store[t.daemon][t.job] = "running"
    BY <2>1 DEF Inv, TaskInv, RunningIsRunning
  <2>3. ledger[t.job] # "absent"
    BY <2>1, <2>2 DEF Inv, SubmissionInv
  <2> QED
    BY <2>1, <2>3 DEF Inv, GraphInv
<1> QED
  BY <1>1, Invariance, PTL

(***************************************************************************)
(* Both at once: task, fingerprint and served status belong together,      *)
(* however many daemons share the jobs root and whatever fails.            *)
(***************************************************************************)
THEOREM TasksServeTheirJobs == Spec => []TasksAreTheirJobs
<1>1. RunningIsRunning /\ FingerprintsMatch => TasksAreTheirJobs
  BY DEF TasksAreTheirJobs
<1> QED
  BY <1>1, RunningHasTask, FingerprintKept, PTL

(***************************************************************************)
(* While daemons do not overlap, no two tasks work on one ledger, even     *)
(* when storage fails.                                                     *)
(***************************************************************************)
THEOREM OneRun == ASSUME ~Lingers PROVE Spec => []OneRunPerLedger
<1>1. Inv /\ OneDaemon => OneRunPerLedger
  <2> SUFFICES ASSUME Inv, OneDaemon, NEW s \in tasks, NEW t \in tasks, s.job = t.job
               PROVE  s = t
    BY DEF OneRunPerLedger
  <2>1. s.daemon \in Daemons /\ t.daemon \in Daemons
    BY DEF Inv, TypeOK, Task
  <2>2. phase[s.daemon] # "down" /\ phase[t.daemon] # "down"
    BY DEF Inv, ProcessInv, Up
  <2>3. s.daemon = t.daemon
    BY <2>1, <2>2 DEF OneDaemon
  <2> QED
    BY <2>3 DEF Inv, TaskInv
<1> QED
  BY <1>1, Invariance, AloneInvariance, PTL

(***************************************************************************)
(* While daemons do not overlap and storage does not fail, what a daemon   *)
(* says of a job is what the ledger says, and every daemon that serves     *)
(* knows every accepted job that has not ended.                            *)
(***************************************************************************)
THEOREM ServedIsRecorded ==
  ASSUME ~Lingers, ~Faults PROVE Spec => []StatusServed
<1>1. RecordInv /\ AcceptInv => StatusServed
  BY DEF RecordInv, AcceptInv, StatusServed
<1> QED
  BY <1>1, RecordInvariance, PTL

(***************************************************************************)
(* Under the same conditions a final status in the ledger is never         *)
(* overwritten, by a run, a resume or a cancellation.                      *)
(***************************************************************************)
THEOREM FinalStatus == ASSUME ~Lingers, ~Faults PROVE Spec => StatusFinal
<1>1. Inv /\ RecordInv /\ [Next]_vars
        => [\A j \in Jobs : ledger[j] \in Outcome => ledger'[j] = ledger[j]]_vars
  BY FinalStep DEF Inv, LedgerStep
<1> QED
  BY <1>1, Invariance, RecordInvariance, PTL DEF Spec, StatusFinal

=============================================================================

--------------------------------- MODULE Drain ---------------------------------
(***************************************************************************)
(* Draining the escalations of every job: POST /escalations/drain          *)
(* (crates/cuttlefishd/src/api.rs), the ledger statements it makes         *)
(* (cuttlefish-host/src/ledger.rs) and the client that writes the manifest *)
(* (crates/cuttlefish/src/main.rs), beside jobs that go on escalating.     *)
(*                                                                         *)
(* The handler reads each job's ledger with one query, builds the answer,  *)
(* then marks the rows one statement at a time; the client writes the      *)
(* manifest when it has the answer.                                        *)
(*                                                                         *)
(* Abstractions.  A row is one (job, node, item); an escalation's reason   *)
(* and input are its serial number in the row.  Rows are marked in any     *)
(* order.                                                                  *)
(***************************************************************************)
EXTENDS Integers

CONSTANTS
  Jobs,
  Rows,
  JobOf,         \* JobOf[r]: the job whose ledger holds row r
  WholeNode,     \* rows of whole nodes, run again by a resume; others are items
  Legacy,        \* items escalated before inputs were recorded
  Clients,       \* `cuttlefish escalations --manifest` invocations
  Faults,        \* whether a ledger may be unreadable or refuse a mark
  MaxSerial,     \* bound: escalations of one row
  MaxDeaths      \* bound: daemon deaths

Serial == 0..MaxSerial

Line == Rows \X Serial

ASSUME DrainAssumption ==
  /\ JobOf \in [Rows -> Jobs]
  /\ WholeNode \subseteq Rows
  /\ Legacy \subseteq Rows \ WholeNode
  /\ Faults \in BOOLEAN
  /\ MaxSerial \in Nat \ {0}
  /\ MaxDeaths \in Nat

VARIABLES
  \* The ledgers: durable.
  status,     \* checkpoints.status of each row
  serial,     \* which escalation of the row this is: its input and reason
  drained,    \* rows with drained_at set
  \* The jobs' runs.
  concluded,  \* rows concluded by the current run
  \* Drains: the handler, then its client.
  stage,      \* idle, reading, marking, answered
  toRead,     \* jobs whose ledger the handler has yet to read
  found,      \* lines read
  toMark,     \* lines of the answer not yet marked
  \* History, of each row's current escalation.
  offered,    \* rows put in an answer
  unmarked,   \* rows reported in an answer's mark_errors
  contested,  \* rows read while another drain had them still to mark
  handed,     \* the number of manifests on disk that hold each row
  deaths

ledgers == <<status, serial, drained>>
drains  == <<stage, toRead, found, toMark>>
history == <<offered, unmarked, contested, handed, deaths>>
vars    == <<ledgers, concluded, drains, history>>

Init ==
  /\ status = [r \in Rows |-> IF r \in Legacy THEN "escalated" ELSE "none"]
  /\ serial = [r \in Rows |-> IF r \in Legacy THEN 1 ELSE 0]
  /\ drained = {}
  /\ concluded = {}
  /\ stage = [c \in Clients |-> "idle"]
  /\ toRead = [c \in Clients |-> {}]
  /\ found = [c \in Clients |-> {}]
  /\ toMark = [c \in Clients |-> {}]
  /\ offered = {}
  /\ unmarked = {}
  /\ contested = {}
  /\ handed = [r \in Rows |-> 0]
  /\ deaths = 0

-----------------------------------------------------------------------------
(***************************************************************************)
(* The jobs                                                                *)
(***************************************************************************)

\* run_job reaches r: not decided yet, or a node a resume runs again.
Reaches(r) ==
  /\ r \notin concluded
  /\ status[r] = "none" \/ (status[r] = "escalated" /\ r \in WholeNode)

\* write_escalated: INSERT OR REPLACE, with drained_at left NULL.
Escalate(r) ==
  /\ Reaches(r)
  /\ serial[r] < MaxSerial
  /\ status' = [status EXCEPT ![r] = "escalated"]
  /\ serial' = [serial EXCEPT ![r] = @ + 1]
  /\ drained' = drained \ {r}
  /\ offered' = offered \ {r}
  /\ unmarked' = unmarked \ {r}
  /\ contested' = contested \ {r}
  /\ handed' = [handed EXCEPT ![r] = 0]
  /\ concluded' = concluded \cup {r}
  /\ UNCHANGED <<drains, deaths>>

\* write_completed: the same statement with another status.
Complete(r) ==
  /\ Reaches(r)
  /\ status' = [status EXCEPT ![r] = "completed"]
  /\ drained' = drained \ {r}
  /\ concluded' = concluded \cup {r}
  /\ UNCHANGED <<serial, drains, history>>

\* The daemon dies, and with it the handlers that have not answered; jobs
\* not finished may be resumed.  A finished job takes no further step.
Die ==
  /\ deaths < MaxDeaths
  /\ deaths' = deaths + 1
  /\ concluded' = {}
  /\ stage' = [c \in Clients |-> IF stage[c] = "answered" THEN "answered" ELSE "idle"]
  /\ found' = [c \in Clients |-> IF stage[c] = "answered" THEN found[c] ELSE {}]
  /\ toRead' = [c \in Clients |-> {}]
  /\ toMark' = [c \in Clients |-> {}]
  /\ UNCHANGED <<ledgers, offered, unmarked, contested, handed>>

-----------------------------------------------------------------------------
(***************************************************************************)
(* drain_escalations                                                       *)
(***************************************************************************)

Request(c) ==
  /\ stage[c] = "idle"
  /\ stage' = [stage EXCEPT ![c] = "reading"]
  /\ toRead' = [toRead EXCEPT ![c] = Jobs]
  /\ UNCHANGED <<ledgers, concluded, found, toMark, history>>

\* Mutant: rows already drained are read again.
AllEscalations(j) ==
  {<<r, serial[r]>> : r \in {s \in Rows : JobOf[s] = j /\ status[s] = "escalated"}}

\* Ledger::escalations: this job's rows escalated and not drained.
Escalations(j) ==
  {<<r, serial[r]>> : r \in {s \in Rows : /\ JobOf[s] = j
                                          /\ status[s] = "escalated"
                                          /\ s \notin drained}}

\* The rows whose current escalation is among the lines.
Current(lines) == {r \in Rows : <<r, serial[r]>> \in lines}

\* Drain b has read l and not come to marking it.
Pending(b, l) == (stage[b] = "reading" /\ l \in found[b]) \/ l \in toMark[b]

ReadLedger(c, j) ==
  /\ stage[c] = "reading"
  /\ j \in toRead[c]
  /\ toRead' = [toRead EXCEPT ![c] = @ \ {j}]
  /\ found' = [found EXCEPT ![c] = @ \cup Escalations(j)]
  /\ contested' = contested \cup
       Current({l \in Escalations(j) : \E b \in Clients : Pending(b, l)})
  /\ UNCHANGED <<ledgers, concluded, stage, toMark, offered, unmarked, handed, deaths>>

\* A ledger that cannot be read is skipped with a warning.
SkipLedger(c, j) ==
  /\ Faults
  /\ stage[c] = "reading"
  /\ j \in toRead[c]
  /\ toRead' = [toRead EXCEPT ![c] = @ \ {j}]
  /\ UNCHANGED <<ledgers, concluded, stage, found, toMark, history>>

\* Mutant: rows without an input are answered like the others.
Everything(lines) == lines

\* Lines with an input; the others are answered as unrecoverable.
Drainable(lines) == {l \in lines : l[1] \notin Legacy}

\* Mutant: the rows answered as unrecoverable are marked too.
BuildMarkingAll(c) ==
  /\ stage[c] = "reading"
  /\ toRead[c] = {}
  /\ stage' = [stage EXCEPT ![c] = "marking"]
  /\ found' = [found EXCEPT ![c] = Drainable(@)]
  /\ toMark' = [toMark EXCEPT ![c] = found[c]]
  /\ offered' = offered \cup Current(Drainable(found[c]))
  /\ UNCHANGED <<ledgers, concluded, toRead, unmarked, contested, handed, deaths>>

BuildAnswer(c) ==
  /\ stage[c] = "reading"
  /\ toRead[c] = {}
  /\ stage' = [stage EXCEPT ![c] = "marking"]
  /\ found' = [found EXCEPT ![c] = Drainable(@)]
  /\ toMark' = [toMark EXCEPT ![c] = Drainable(found[c])]
  /\ offered' = offered \cup Current(Drainable(found[c]))
  /\ UNCHANGED <<ledgers, concluded, toRead, unmarked, contested, handed, deaths>>

\* Mutant: the stamp reaches every row of the job.
MarkJob(r) == {s \in Rows : JobOf[s] = JobOf[r] /\ status[s] = "escalated"}

\* UPDATE .. WHERE status = 'escalated'.
Marked(r) == {s \in {r} : status[s] = "escalated"}

MarkDrained(c, l) ==
  /\ stage[c] = "marking"
  /\ l \in toMark[c]
  /\ toMark' = [toMark EXCEPT ![c] = @ \ {l}]
  /\ drained' = drained \cup Marked(l[1])
  /\ UNCHANGED <<status, serial, concluded, stage, toRead, found, history>>

\* The mark fails: reported in mark_errors, the line is answered all the same.
MarkFails(c, l) ==
  /\ Faults
  /\ stage[c] = "marking"
  /\ l \in toMark[c]
  /\ toMark' = [toMark EXCEPT ![c] = @ \ {l}]
  /\ unmarked' = unmarked \cup Current({l})
  /\ UNCHANGED <<ledgers, concluded, stage, toRead, found, offered, contested, handed, deaths>>

Answer(c) ==
  /\ stage[c] = "marking"
  /\ toMark[c] = {}
  /\ stage' = [stage EXCEPT ![c] = "answered"]
  /\ UNCHANGED <<ledgers, concluded, toRead, found, toMark, history>>

-----------------------------------------------------------------------------
(***************************************************************************)
(* The client                                                              *)
(***************************************************************************)

Close(c) ==
  /\ stage' = [stage EXCEPT ![c] = "idle"]
  /\ found' = [found EXCEPT ![c] = {}]

\* The manifest's line for row r is its current escalation.
HandedBy(c, r) == IF r \in Current(found[c]) /\ handed[r] < 2 THEN 1 ELSE 0

WriteManifest(c) ==
  /\ stage[c] = "answered"
  /\ Close(c)
  /\ handed' = [r \in Rows |-> handed[r] + HandedBy(c, r)]
  /\ UNCHANGED <<ledgers, concluded, toRead, toMark, offered, unmarked, contested, deaths>>

\* The answer is lost on its way, or the manifest cannot be written.
ManifestLost(c) ==
  /\ stage[c] = "answered"
  /\ Close(c)
  /\ UNCHANGED <<ledgers, concluded, toRead, toMark, history>>

Next ==
  \/ \E r \in Rows : Escalate(r) \/ Complete(r)
  \/ Die
  \/ \E c \in Clients :
       \/ Request(c)
       \/ \E j \in Jobs : ReadLedger(c, j) \/ SkipLedger(c, j)
       \/ BuildAnswer(c)
       \/ \E l \in Line : MarkDrained(c, l) \/ MarkFails(c, l)
       \/ Answer(c)
       \/ WriteManifest(c)
       \/ ManifestLost(c)

Spec == Init /\ [][Next]_vars

-----------------------------------------------------------------------------
(***************************************************************************)
(* Properties                                                              *)
(***************************************************************************)

(***************************************************************************)
(* Types; a client with nothing in flight holds no lines.                  *)
(***************************************************************************)
TypeOK ==
  /\ status \in [Rows -> {"none", "escalated", "completed"}]
  /\ serial \in [Rows -> Serial]
  /\ drained \subseteq Rows
  /\ concluded \subseteq Rows
  /\ stage \in [Clients -> {"idle", "reading", "marking", "answered"}]
  /\ toRead \in [Clients -> SUBSET Jobs]
  /\ found \in [Clients -> SUBSET Line]
  /\ toMark \in [Clients -> SUBSET Line]
  /\ \A c \in Clients : toMark[c] \subseteq found[c]
  /\ offered \subseteq Rows
  /\ unmarked \subseteq offered
  /\ contested \subseteq Rows
  /\ handed \in [Rows -> 0..2]
  /\ deaths \in 0..MaxDeaths

(***************************************************************************)
(* An escalation goes into a second manifest for two reasons only: an      *)
(* answer reported that it could not be marked (mark_errors), or a second  *)
(* drain read it before the first had marked it.                           *)
(***************************************************************************)
RepeatsExplained ==
  \A r \in Rows : handed[r] > 1 => r \in unmarked \cup contested

(***************************************************************************)
(* Only what was put in an answer is marked: a row is never stamped for a  *)
(* payload no caller was sent (drain_escalations).  It takes a row that no *)
(* resume escalates again.                                                 *)
(***************************************************************************)
DrainedWasOffered == drained \ WholeNode \subseteq offered

(***************************************************************************)
(* A row without an input is never marked: it stays in the queue, however  *)
(* often it is drained (drain_escalations: unrecoverable).                 *)
(***************************************************************************)
UnrecoverableStays == drained \cap Legacy = {}

\* A mark is the trace of an offer: no row leaves the queue unseen, whoever
\* drains, dies or fails.
MarksAccountedFor == DrainedWasOffered /\ UnrecoverableStays

-----------------------------------------------------------------------------
(***************************************************************************)
(* What comments say and the code does not do                              *)
(***************************************************************************)

(***************************************************************************)
(* api.rs:164-167: read-and-mark is a single operation, so that no second  *)
(* caller drains the same rows into a second manifest.                     *)
(***************************************************************************)
ExportedOnce == \A r \in Rows : handed[r] <= 1
=============================================================================

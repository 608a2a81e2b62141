-------------------------------- MODULE Ladder --------------------------------
(***************************************************************************)
(* The recovery ladder of one node or one fan-out item: Ladder::run and    *)
(* Ladder::attempt (crates/cuttlefish-host/src/runner.rs), and the judges  *)
(* they ask (accept.rs).                                                   *)
(*                                                                         *)
(* An attempt runs the block, in a bounded loop if the node has one, holds *)
(* its output to the declared type and the schemas, then asks every judge. *)
(* A failed attempt climbs the `on_fail` rungs: retries, another model, an *)
(* escalation.                                                             *)
(*                                                                         *)
(* Abstractions.  run_stage is two steps, its start and its end, with the  *)
(* envelopes it can end with; an output is told apart only by the checks   *)
(* it has passed, and a reply by the verdicts in it.  A judge that rejects  *)
(* and one that gives no verdict differ in the reason recorded alone.      *)
(***************************************************************************)
EXTENDS Integers, Sequences

CONSTANTS
  Nodes,       \* declarations: [rungs, judges, loops, maxIterations]
  Models,
  Default,     \* the job's own backend
  Alternates,  \* models resolved at startup
  NoModel,     \* a judge that names no model
  Allowance    \* Allowance[d][i]: attempts the first i rungs of d add

Rung == [kind : {"retry"}, times : Nat \ {0}]
          \cup [kind : {"reroute"}, model : Models]
          \cup [kind : {"escalate"}]

Declaration ==
  [rungs : Seq(Rung), judges : Seq(Models \cup {NoModel}),
   loops : BOOLEAN, maxIterations : Nat]

\* The attempts a rung adds.
Tries(r) == CASE r.kind = "retry" -> r.times
              [] r.kind = "reroute" -> 1
              [] OTHER -> 0

(***************************************************************************)
(* GraphParser::ladder: `escalate` is the last rung or absent, and no      *)
(* retry is of zero times.                                                 *)
(***************************************************************************)
ASSUME LadderAssumption ==
  /\ Nodes \subseteq Declaration
  /\ \A d \in Nodes : \A i \in DOMAIN d.rungs :
       d.rungs[i].kind = "escalate" => i = Len(d.rungs)
  /\ Default \in Models
  /\ Alternates \subseteq Models
  /\ NoModel \notin Models

ASSUME AllowanceAssumption ==
  \A d \in Nodes :
    /\ Allowance[d] \in [0..Len(d.rungs) -> Nat]
    /\ Allowance[d][0] = 0
    /\ \A i \in DOMAIN d.rungs : Allowance[d][i] = Allowance[d][i - 1] + Tries(d.rungs[i])

VARIABLES
  node,         \* the node's declaration: never assigned
  phase,        \* ready, running, checking, judging, deciding, ended
  \* Locals of run.
  backend, rung, retriesLeft,
  envelope,     \* whether the last failure carries the block's envelope
  \* Locals of attempt and run_judges.
  iterations,
  judge,        \* the judge being asked
  \* The rest.
  cancelled,    \* the job's CancellationToken
  outcome,
  \* History.
  attempts,     \* attempts begun
  passed,       \* checks the block's last output passed: 0 is type and schemas
  lastFailure   \* what ended the last attempt

climbing == <<backend, rung, retriesLeft>>
history  == <<attempts, passed, lastFailure>>
vars     == <<node, phase, climbing, envelope, iterations, judge, cancelled, outcome, history>>

Init ==
  /\ node \in Nodes
  /\ phase = "ready"
  /\ backend = Default
  /\ rung = 0
  /\ retriesLeft = 0
  /\ envelope = FALSE
  /\ iterations = 0
  /\ judge = 0
  /\ cancelled = FALSE
  /\ outcome = "none"
  /\ attempts = 1
  /\ passed = {}
  /\ lastFailure = "none"

End(o) == phase' = "ended" /\ outcome' = o

-----------------------------------------------------------------------------
(***************************************************************************)
(* attempt                                                                 *)
(***************************************************************************)

\* Mutant: an envelope of an earlier attempt is kept.
KeepEnvelope(own) == envelope \/ own

\* The envelope of this attempt only.
LastEnvelope(own) == own

\* The attempt failed; `own` when the block itself did.
Fails(own) ==
  /\ phase' = "deciding"
  /\ envelope' = LastEnvelope(own)
  /\ lastFailure' = IF own THEN "block" ELSE "check"

StartStage ==
  /\ phase = "ready"
  /\ phase' = "running"
  /\ UNCHANGED <<node, climbing, envelope, iterations, judge, cancelled, outcome, history>>

\* run_stage looks at the token before it returns what the block answered.
StageEnds == phase = "running" /\ ~cancelled

StageCancelled ==
  /\ phase = "running"
  /\ cancelled
  /\ End("cancelled")
  /\ UNCHANGED <<node, climbing, envelope, iterations, judge, cancelled, history>>

\* A trap may come before the token is looked at.
StageFails ==
  /\ phase = "running"
  /\ Fails(TRUE)
  /\ UNCHANGED <<node, climbing, iterations, judge, cancelled, outcome, attempts, passed>>

\* Mutant: the iteration is not counted.
Uncounted(i) == i

Counted(i) == i + 1

\* The block answered and its loop, if any, is done.
Produce ==
  /\ StageEnds
  /\ iterations' = IF node.loops THEN Counted(iterations) ELSE iterations
  /\ passed' = {}
  /\ phase' = "checking"
  /\ UNCHANGED <<node, climbing, envelope, judge, cancelled, outcome, attempts, lastFailure>>

\* Mutant: the bound is met one iteration late.
PastLimit(i) == i > node.maxIterations

AtLimit(i) == i >= node.maxIterations

\* The loop is not done: the output is the next iteration's input.
IterateAgain ==
  /\ StageEnds
  /\ node.loops
  /\ ~AtLimit(Counted(iterations))
  /\ iterations' = Counted(iterations)
  /\ passed' = {}
  /\ phase' = "ready"
  /\ UNCHANGED <<node, climbing, envelope, judge, cancelled, outcome, attempts, lastFailure>>

IterationsSpent ==
  /\ StageEnds
  /\ node.loops
  /\ AtLimit(Counted(iterations))
  /\ iterations' = Counted(iterations)
  /\ passed' = {}
  /\ Fails(FALSE)
  /\ UNCHANGED <<node, climbing, judge, cancelled, outcome, attempts>>

\* matches_value, check_schemas.
StructureRejected ==
  /\ phase = "checking"
  /\ Fails(FALSE)
  /\ UNCHANGED <<node, climbing, iterations, judge, cancelled, outcome, attempts, passed>>

\* Mutant: the judges an earlier attempt asked are not asked again.
ResumedJudge == IF judge = 0 THEN 1 ELSE judge

FirstJudge == 1

StructurePassed ==
  /\ phase = "checking"
  /\ phase' = "judging"
  /\ passed' = passed \cup {0}
  /\ judge' = FirstJudge
  /\ UNCHANGED <<node, climbing, envelope, iterations, cancelled, outcome, attempts, lastFailure>>

\* A judge that names no model is asked on the job's own.
JudgeResolved(j) == node.judges[j] = NoModel \/ node.judges[j] \in Alternates

\* What a judge replies: the `accept` of each `{...}` in it, whatever stands
\* around them.  A failed inference gives no verdict, as an empty reply does.
Replies == UNION {[1..n -> {"true", "false", "neither"}] : n \in 0..2}

\* extract_json: from the first `{` to the last `}`, which is JSON when it is
\* one object.
ExtractJson(reply) == IF DOMAIN reply = {1} THEN reply[1] ELSE "neither"

\* Only a Boolean is a verdict: a judge that does not give one has not rejected.
ParseVerdict(reply) ==
  CASE ExtractJson(reply) = "true" -> "accepted"
    [] ExtractJson(reply) = "false" -> "rejected"
    [] OTHER -> "unusable"

\* Every object of the reply says yes.
Approves(reply) == DOMAIN reply # {} /\ \A i \in DOMAIN reply : reply[i] = "true"

JudgeAccepts ==
  /\ phase = "judging"
  /\ judge \in DOMAIN node.judges
  /\ JudgeResolved(judge)
  /\ \E reply \in Replies :
       /\ ParseVerdict(reply) = "accepted"
       /\ passed' = IF Approves(reply) THEN passed \cup {judge} ELSE passed
  /\ judge' = judge + 1
  /\ UNCHANGED <<node, phase, climbing, envelope, iterations, cancelled, outcome, attempts,
                 lastFailure>>

\* The judge said no, gave no verdict, or could not be asked.
JudgeRejects ==
  /\ phase = "judging"
  /\ judge \in DOMAIN node.judges
  /\ ~JudgeResolved(judge) \/ \E reply \in Replies : ParseVerdict(reply) # "accepted"
  /\ Fails(FALSE)
  /\ UNCHANGED <<node, climbing, iterations, judge, cancelled, outcome, attempts, passed>>

Accept ==
  /\ phase = "judging"
  /\ judge \notin DOMAIN node.judges
  /\ End("accepted")
  /\ UNCHANGED <<node, climbing, envelope, iterations, judge, cancelled, history>>

-----------------------------------------------------------------------------
(***************************************************************************)
(* run: the next move                                                      *)
(***************************************************************************)

NextRung(kind) ==
  /\ phase = "deciding"
  /\ retriesLeft = 0
  /\ rung < Len(node.rungs)
  /\ node.rungs[rung + 1].kind = kind

AttemptAgain ==
  /\ phase' = "ready"
  /\ iterations' = 0
  /\ attempts' = attempts + 1
  /\ UNCHANGED <<node, envelope, judge, cancelled, outcome, passed, lastFailure>>

\* Mutant: a retry goes back to the job's own model.
RetryBackend == Default

SameBackend == backend

\* Mutant: one retry too many.
OneMoreRetry == retriesLeft >= 0

RetryLeft == retriesLeft > 0

Retry ==
  /\ phase = "deciding"
  /\ RetryLeft
  /\ retriesLeft' = retriesLeft - 1
  /\ backend' = SameBackend
  /\ AttemptAgain
  /\ UNCHANGED rung

\* Mutant: the attempt that failed is counted among the retries.
RetriesLess(r) == r.times - 1

Retries(r) == r.times

ClimbRetry ==
  /\ NextRung("retry")
  /\ rung' = rung + 1
  /\ retriesLeft' = Retries(node.rungs[rung + 1])
  /\ UNCHANGED <<node, phase, backend, envelope, iterations, judge, cancelled, outcome, history>>

Reroute ==
  /\ NextRung("reroute")
  /\ node.rungs[rung + 1].model \in Alternates
  /\ rung' = rung + 1
  /\ backend' = node.rungs[rung + 1].model
  /\ AttemptAgain
  /\ UNCHANGED retriesLeft

\* The model was not resolved at startup: no further rung is tried.
RerouteUnresolved ==
  /\ NextRung("reroute")
  /\ node.rungs[rung + 1].model \notin Alternates
  /\ rung' = rung + 1
  /\ envelope' = FALSE
  /\ End("misrouted")
  /\ UNCHANGED <<node, backend, retriesLeft, iterations, judge, cancelled, history>>

Escalate ==
  /\ NextRung("escalate")
  /\ End("escalated")
  /\ UNCHANGED <<node, climbing, envelope, iterations, judge, cancelled, history>>

OutOfRungs ==
  /\ phase = "deciding"
  /\ retriesLeft = 0
  /\ rung = Len(node.rungs)
  /\ End("exhausted")
  /\ UNCHANGED <<node, climbing, envelope, iterations, judge, cancelled, history>>

RequestCancel ==
  /\ ~cancelled
  /\ cancelled' = TRUE
  /\ UNCHANGED <<node, phase, climbing, envelope, iterations, judge, outcome, history>>

Attempt ==
  \/ StartStage \/ StageCancelled \/ StageFails
  \/ Produce \/ IterateAgain \/ IterationsSpent
  \/ StructureRejected \/ StructurePassed
  \/ JudgeAccepts \/ JudgeRejects \/ Accept

Climb ==
  \/ Retry \/ ClimbRetry
  \/ Reroute \/ RerouteUnresolved
  \/ Escalate \/ OutOfRungs

Next == Attempt \/ Climb \/ RequestCancel

Spec == Init /\ [][Next]_vars

(***************************************************************************)
(* A stage ends (its inference does, or is cancelled), and so do the       *)
(* judges' inferences.                                                     *)
(***************************************************************************)
FairSpec == Spec /\ WF_vars(Attempt \/ Climb)

-----------------------------------------------------------------------------
(***************************************************************************)
(* Properties                                                              *)
(***************************************************************************)

\* Types; a ladder has ended exactly when it has an outcome.
TypeOK ==
  /\ phase \in {"ready", "running", "checking", "judging", "deciding", "ended"}
  /\ backend \in Models
  /\ rung \in 0..Len(node.rungs)
  /\ retriesLeft \in Nat
  /\ envelope \in BOOLEAN
  /\ iterations \in Nat
  /\ judge \in 0..(Len(node.judges) + 1)
  /\ cancelled \in BOOLEAN
  /\ outcome \in {"none", "accepted", "exhausted", "escalated", "misrouted", "cancelled"}
  /\ (phase = "ended") <=> (outcome # "none")
  /\ attempts \in Nat
  /\ passed \subseteq 0..Len(node.judges)
  /\ lastFailure \in {"none", "block", "check"}

GaveUp == outcome \in {"exhausted", "escalated"}

(***************************************************************************)
(* A ladder gives up only when it has made every attempt its rungs allow   *)
(* and not one more, whatever failed in between, and it escalates exactly  *)
(* when its last rung says so (Ladder::run).                               *)
(***************************************************************************)
EveryRungClimbed ==
  GaveUp =>
    /\ attempts = 1 + Allowance[node][Len(node.rungs)]
    /\ outcome = "escalated" <=>
         node.rungs # <<>> /\ node.rungs[Len(node.rungs)].kind = "escalate"

(***************************************************************************)
(* What is accepted passed the type, the schemas and every judge itself: a *)
(* verdict on an earlier attempt's output counts for nothing, nor does a   *)
(* reply that says both yes and no (Ladder::attempt, run_judges).          *)
(***************************************************************************)
AcceptedPassed == outcome = "accepted" => passed = 0..Len(node.judges)

(***************************************************************************)
(* An attempt runs the block as often as `max_iterations` allows, and once *)
(* even when that is 0; a retry starts the count again (repeat_until).     *)
(***************************************************************************)
LoopBounded == iterations <= (IF node.maxIterations = 0 THEN 1 ELSE node.maxIterations)

(***************************************************************************)
(* After a reroute every attempt, retries too, goes to the model named     *)
(* last; before one, to the job's own.                                     *)
(***************************************************************************)
Reroutes == {i \in 1..rung : node.rungs[i].kind = "reroute"}

RerouteHolds ==
  outcome # "misrouted" =>
    \/ Reroutes = {} /\ backend = Default
    \/ \E i \in Reroutes : /\ \A k \in Reroutes : k <= i
                           /\ backend = node.rungs[i].model

(***************************************************************************)
(* The job fails with the block's own error code when the block was what   *)
(* failed last, and with that of a rejected output otherwise (LadderError: *)
(* Exhausted.envelope).                                                    *)
(***************************************************************************)
ErrorCodeKept == GaveUp => (envelope <=> lastFailure = "block")

\* Every ladder ends: no mix of loops, retries and reroutes goes on for ever.
LadderEnds == <>(phase = "ended")
=============================================================================

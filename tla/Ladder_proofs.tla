----------------------------- MODULE Ladder_proofs -----------------------------
(***************************************************************************)
(* Proofs about Ladder, for every ladder, list of judges and loop bound.   *)
(***************************************************************************)
EXTENDS Ladder, TLAPS

(***************************************************************************)
(* The attempts made and the retries in hand are what the rungs climbed    *)
(* allow.                                                                  *)
(***************************************************************************)
AttemptInv ==
  /\ \A i \in 1..rung : node.rungs[i].kind # "escalate"
  /\ outcome # "misrouted" => attempts + retriesLeft = 1 + Allowance[node][rung]
  /\ GaveUp => retriesLeft = 0
  /\ outcome = "exhausted" => rung = Len(node.rungs)
  /\ outcome = "escalated" => /\ rung < Len(node.rungs)
                              /\ node.rungs[rung + 1].kind = "escalate"

(***************************************************************************)
(* While judges are asked, the output passed everything before them.       *)
(***************************************************************************)
JudgeInv ==
  /\ phase = "checking" => passed = {}
  /\ phase = "judging" => judge > 0 /\ passed = 0..(judge - 1)
  /\ AcceptedPassed

\* A stage is begun only while the loop has an iteration left.
Limit == IF node.maxIterations = 0 THEN 1 ELSE node.maxIterations

LoopInv ==
  /\ iterations <= Limit
  /\ phase \in {"ready", "running"} => iterations < Limit

EnvelopeInv == phase = "deciding" \/ GaveUp => (envelope <=> lastFailure = "block")

LadderInv == node \in Nodes /\ TypeOK /\ AttemptInv /\ JudgeInv /\ LoopInv /\ EnvelopeInv

-----------------------------------------------------------------------------
(***************************************************************************)
(* An accepting verdict is the only one in its reply.                      *)
(***************************************************************************)
LEMMA VerdictApproves ==
  ASSUME NEW reply \in Replies, ParseVerdict(reply) = "accepted"
  PROVE  Approves(reply)
<1>1. ExtractJson(reply) = "true"
  BY DEF ParseVerdict
<1> QED
  BY <1>1 DEF ExtractJson, Approves

-----------------------------------------------------------------------------
(***************************************************************************)
(* A declaration and its rungs.                                            *)
(***************************************************************************)
LEMMA DeclarationType ==
  ASSUME NEW d \in Nodes
  PROVE  /\ d.rungs \in Seq(Rung)
         /\ d.judges \in Seq(Models \cup {NoModel})
         /\ d.loops \in BOOLEAN
         /\ d.maxIterations \in Nat
         /\ Len(d.rungs) \in Nat
         /\ Len(d.judges) \in Nat
         /\ DOMAIN d.judges = 1..Len(d.judges)
         /\ DOMAIN d.rungs = 1..Len(d.rungs)
  BY LadderAssumption DEF Declaration

LEMMA RungType ==
  ASSUME NEW d \in Nodes, NEW i \in 1..Len(d.rungs)
  PROVE  /\ d.rungs[i].kind = "retry" => d.rungs[i].times \in Nat \ {0}
         /\ d.rungs[i].kind = "reroute" => d.rungs[i].model \in Models
         /\ d.rungs[i].kind = "escalate" => i = Len(d.rungs)
         /\ d.rungs[i].kind \in {"retry", "reroute", "escalate"}
<1>1. d.rungs[i] \in Rung
  BY DeclarationType
<1>2. d.rungs[i].kind = "escalate" => i = Len(d.rungs)
  BY DeclarationType, LadderAssumption
<1> QED
  BY <1>1, <1>2 DEF Rung

LEMMA AllowanceStep ==
  ASSUME NEW d \in Nodes, NEW i \in 0..(Len(d.rungs) - 1)
  PROVE  /\ Allowance[d][i] \in Nat
         /\ Allowance[d][0] = 0
         /\ d.rungs[i + 1].kind = "retry" =>
              Allowance[d][i + 1] = Allowance[d][i] + d.rungs[i + 1].times
         /\ d.rungs[i + 1].kind = "reroute" => Allowance[d][i + 1] = Allowance[d][i] + 1
         /\ d.rungs[i + 1].kind = "escalate" => Allowance[d][i + 1] = Allowance[d][i]
<1>1. i + 1 \in DOMAIN d.rungs /\ (i + 1) - 1 = i /\ i \in 0..Len(d.rungs)
  BY DeclarationType
<1>2. Allowance[d][i + 1] = Allowance[d][i] + Tries(d.rungs[i + 1])
  BY <1>1, AllowanceAssumption
<1>3. Allowance[d][i] \in Nat /\ Allowance[d][0] = 0
  BY <1>1, AllowanceAssumption
<1> QED
  BY <1>2, <1>3 DEF Tries

-----------------------------------------------------------------------------
LEMMA InitLadder == Init => LadderInv
<1> SUFFICES ASSUME Init PROVE LadderInv
  OBVIOUS
<1> node \in Nodes
  BY DEF Init
<1>1. Allowance[node][0] = 0 /\ Default \in Models
  BY AllowanceAssumption, LadderAssumption
<1>2. Len(node.rungs) \in Nat /\ Len(node.judges) \in Nat /\ node.maxIterations \in Nat
  BY DeclarationType
<1>3. TypeOK
  <2>1. rung \in 0..Len(node.rungs) /\ judge \in 0..(Len(node.judges) + 1)
    BY <1>2 DEF Init
  <2>2. passed \subseteq 0..Len(node.judges)
    BY DEF Init
  <2>3. backend \in Models
    BY <1>1 DEF Init
  <2> QED
    BY <2>1, <2>2, <2>3 DEF Init, TypeOK
<1>4. AttemptInv
  BY <1>1, <1>2 DEF Init, AttemptInv, GaveUp
<1>5. JudgeInv /\ LoopInv /\ EnvelopeInv
  BY <1>2 DEF Init, JudgeInv, LoopInv, Limit, EnvelopeInv, AcceptedPassed, GaveUp
<1> QED
  BY <1>3, <1>4, <1>5 DEF LadderInv

(***************************************************************************)
(* The steps of an attempt leave the climb alone.                          *)
(***************************************************************************)
LEMMA AttemptStep == ASSUME LadderInv, Attempt PROVE LadderInv'
<1> USE DEF GaveUp, climbing, history
<1>0. /\ node' = node /\ node \in Nodes /\ backend' = backend /\ rung' = rung
      /\ retriesLeft' = retriesLeft /\ attempts' = attempts
  BY DEF LadderInv, Attempt, StartStage, StageCancelled, StageFails, Produce, IterateAgain,
         IterationsSpent, StructureRejected, StructurePassed, JudgeAccepts, JudgeRejects, Accept
<1>1. /\ Len(node.judges) \in Nat /\ DOMAIN node.judges = 1..Len(node.judges)
      /\ node.maxIterations \in Nat /\ Limit \in Nat \ {0}
  BY <1>0, DeclarationType DEF Limit
<1>2. TypeOK /\ AttemptInv /\ JudgeInv /\ LoopInv /\ EnvelopeInv
  BY DEF LadderInv
<1>3. Limit' = Limit
  BY <1>0 DEF Limit
<1> USE <1>0, <1>1, <1>2, <1>3
<1>4. CASE StartStage
  <2>1. TypeOK'
    BY <1>4 DEF StartStage, TypeOK
  <2>2. AttemptInv'
    BY <1>4 DEF StartStage, TypeOK, AttemptInv
  <2>3. JudgeInv'
    BY <1>4 DEF StartStage, TypeOK, JudgeInv, AcceptedPassed
  <2>4. LoopInv'
    BY <1>4 DEF StartStage, TypeOK, LoopInv
  <2>5. EnvelopeInv'
    BY <1>4 DEF StartStage, TypeOK, EnvelopeInv
  <2> QED
    BY <2>1, <2>2, <2>3, <2>4, <2>5 DEF LadderInv
<1>5. CASE StageCancelled
  <2>1. TypeOK'
    BY <1>5 DEF StageCancelled, End, TypeOK
  <2>2. AttemptInv'
    BY <1>5 DEF StageCancelled, End, TypeOK, AttemptInv
  <2>3. JudgeInv'
    BY <1>5 DEF StageCancelled, End, TypeOK, JudgeInv, AcceptedPassed
  <2>4. LoopInv'
    BY <1>5 DEF StageCancelled, End, TypeOK, LoopInv
  <2>5. EnvelopeInv'
    BY <1>5 DEF StageCancelled, End, TypeOK, EnvelopeInv
  <2> QED
    BY <2>1, <2>2, <2>3, <2>4, <2>5 DEF LadderInv
<1>6. CASE StageFails
  <2>1. TypeOK'
    BY <1>6 DEF StageFails, Fails, LastEnvelope, TypeOK
  <2>2. AttemptInv'
    BY <1>6 DEF StageFails, Fails, LastEnvelope, TypeOK, AttemptInv
  <2>3. JudgeInv'
    BY <1>6 DEF StageFails, Fails, LastEnvelope, TypeOK, JudgeInv, AcceptedPassed
  <2>4. LoopInv'
    BY <1>6 DEF StageFails, Fails, LastEnvelope, TypeOK, LoopInv
  <2>5. EnvelopeInv'
    BY <1>6 DEF StageFails, Fails, LastEnvelope, TypeOK, EnvelopeInv
  <2> QED
    BY <2>1, <2>2, <2>3, <2>4, <2>5 DEF LadderInv
<1>7. CASE Produce
  <2>1. TypeOK'
    BY <1>7 DEF Produce, StageEnds, Counted, TypeOK
  <2>2. AttemptInv'
    BY <1>7 DEF Produce, StageEnds, Counted, TypeOK, AttemptInv
  <2>3. JudgeInv'
    BY <1>7 DEF Produce, StageEnds, Counted, TypeOK, JudgeInv, AcceptedPassed
  <2>4. LoopInv'
    BY <1>7 DEF Produce, StageEnds, Counted, TypeOK, LoopInv
  <2>5. EnvelopeInv'
    BY <1>7 DEF Produce, StageEnds, Counted, TypeOK, EnvelopeInv
  <2> QED
    BY <2>1, <2>2, <2>3, <2>4, <2>5 DEF LadderInv
<1>8. CASE IterateAgain
  <2>1. TypeOK'
    BY <1>8 DEF IterateAgain, StageEnds, Counted, AtLimit, TypeOK
  <2>2. AttemptInv'
    BY <1>8 DEF IterateAgain, StageEnds, Counted, AtLimit, TypeOK, AttemptInv
  <2>3. JudgeInv'
    BY <1>8 DEF IterateAgain, StageEnds, Counted, AtLimit, TypeOK, JudgeInv, AcceptedPassed
  <2>4. LoopInv'
    BY <1>8 DEF IterateAgain, StageEnds, Counted, AtLimit, TypeOK, LoopInv, Limit
  <2>5. EnvelopeInv'
    BY <1>8 DEF IterateAgain, StageEnds, Counted, AtLimit, TypeOK, EnvelopeInv
  <2> QED
    BY <2>1, <2>2, <2>3, <2>4, <2>5 DEF LadderInv
<1>9. CASE IterationsSpent
  <2>1. TypeOK'
    <3>1. passed' = {} /\ iterations' \in Nat /\ phase' = "deciding" /\ outcome' = outcome
      BY <1>9 DEF IterationsSpent, Counted, Fails, TypeOK
    <3>2. phase = "running" /\ outcome = "none"
      BY <1>9 DEF IterationsSpent, StageEnds, TypeOK
    <3> QED
      BY <1>9, <3>1, <3>2 DEF IterationsSpent, Fails, LastEnvelope, TypeOK
  <2>2. AttemptInv'
    BY <1>9 DEF IterationsSpent, StageEnds, Counted, Fails, LastEnvelope, TypeOK, AttemptInv
  <2>3. JudgeInv'
    BY <1>9 DEF IterationsSpent, StageEnds, Counted, Fails, LastEnvelope, TypeOK, JudgeInv, AcceptedPassed
  <2>4. LoopInv'
    BY <1>9 DEF IterationsSpent, StageEnds, Counted, Fails, LastEnvelope, TypeOK, LoopInv
  <2>5. EnvelopeInv'
    BY <1>9 DEF IterationsSpent, StageEnds, Counted, Fails, LastEnvelope, TypeOK, EnvelopeInv
  <2> QED
    BY <2>1, <2>2, <2>3, <2>4, <2>5 DEF LadderInv
<1>10. CASE StructureRejected
  <2>1. TypeOK'
    BY <1>10 DEF StructureRejected, Fails, LastEnvelope, TypeOK
  <2>2. AttemptInv'
    BY <1>10 DEF StructureRejected, Fails, LastEnvelope, TypeOK, AttemptInv
  <2>3. JudgeInv'
    BY <1>10 DEF StructureRejected, Fails, LastEnvelope, TypeOK, JudgeInv, AcceptedPassed
  <2>4. LoopInv'
    BY <1>10 DEF StructureRejected, Fails, LastEnvelope, TypeOK, LoopInv
  <2>5. EnvelopeInv'
    BY <1>10 DEF StructureRejected, Fails, LastEnvelope, TypeOK, EnvelopeInv
  <2> QED
    BY <2>1, <2>2, <2>3, <2>4, <2>5 DEF LadderInv
<1>11. CASE StructurePassed
  <2>1. TypeOK'
    BY <1>11 DEF StructurePassed, FirstJudge, TypeOK
  <2>2. AttemptInv'
    BY <1>11 DEF StructurePassed, FirstJudge, TypeOK, AttemptInv
  <2>3. JudgeInv'
    <3>1. judge' = 1 /\ phase' = "judging" /\ outcome' = outcome /\ outcome = "none"
      BY <1>11 DEF StructurePassed, FirstJudge, TypeOK
    <3>2. passed' = 0..(judge' - 1)
      <4>1. passed = {}
        BY <1>11 DEF StructurePassed, JudgeInv
      <4>2. 0..0 = {0}
        OBVIOUS
      <4> QED
        BY <1>11, <3>1, <4>1, <4>2 DEF StructurePassed
    <3> QED
      BY <3>1, <3>2 DEF JudgeInv, AcceptedPassed
  <2>4. LoopInv'
    BY <1>11 DEF StructurePassed, FirstJudge, TypeOK, LoopInv
  <2>5. EnvelopeInv'
    BY <1>11 DEF StructurePassed, FirstJudge, TypeOK, EnvelopeInv
  <2> QED
    BY <2>1, <2>2, <2>3, <2>4, <2>5 DEF LadderInv
<1>12. CASE JudgeAccepts
  <2>0. passed' = passed \cup {judge}
    BY <1>12, VerdictApproves DEF JudgeAccepts
  <2>1. TypeOK'
    <3>1. judge \in 1..Len(node.judges)
      BY <1>12 DEF JudgeAccepts
    <3>2. judge' \in 0..(Len(node.judges) + 1)
      BY <1>12, <3>1 DEF JudgeAccepts
    <3>3. judge \in 0..Len(node.judges) /\ passed \subseteq 0..Len(node.judges)
      BY <3>1 DEF TypeOK
    <3>4. passed' \subseteq 0..Len(node.judges)
      BY <2>0, <3>1, <3>3
    <3> QED
      BY <1>12, <3>2, <3>4 DEF JudgeAccepts, TypeOK
  <2>2. AttemptInv'
    BY <1>12 DEF JudgeAccepts, TypeOK, AttemptInv
  <2>3. JudgeInv'
    <3>1. phase' = "judging" /\ judge' = judge + 1 /\ outcome' = outcome /\ node' = node
      BY <1>12 DEF JudgeAccepts
    <3>2. judge \in 1..Len(node.judges) /\ passed = 0..(judge - 1) /\ outcome = "none"
      BY <1>12 DEF JudgeAccepts, JudgeInv, TypeOK
    <3> QED
      BY <2>0, <3>1, <3>2 DEF JudgeInv, AcceptedPassed
  <2>4. LoopInv'
    BY <1>12 DEF JudgeAccepts, TypeOK, LoopInv
  <2>5. EnvelopeInv'
    BY <1>12 DEF JudgeAccepts, TypeOK, EnvelopeInv
  <2> QED
    BY <2>1, <2>2, <2>3, <2>4, <2>5 DEF LadderInv
<1>13. CASE JudgeRejects
  <2>1. TypeOK'
    BY <1>13 DEF JudgeRejects, Fails, LastEnvelope, TypeOK
  <2>2. AttemptInv'
    BY <1>13 DEF JudgeRejects, Fails, LastEnvelope, TypeOK, AttemptInv
  <2>3. JudgeInv'
    BY <1>13 DEF JudgeRejects, Fails, LastEnvelope, TypeOK, JudgeInv, AcceptedPassed
  <2>4. LoopInv'
    BY <1>13 DEF JudgeRejects, Fails, LastEnvelope, TypeOK, LoopInv
  <2>5. EnvelopeInv'
    BY <1>13 DEF JudgeRejects, Fails, LastEnvelope, TypeOK, EnvelopeInv
  <2> QED
    BY <2>1, <2>2, <2>3, <2>4, <2>5 DEF LadderInv
<1>14. CASE Accept
  <2>1. TypeOK'
    BY <1>14 DEF Accept, End, TypeOK
  <2>2. AttemptInv'
    BY <1>14 DEF Accept, End, TypeOK, AttemptInv
  <2>3. JudgeInv'
    BY <1>14 DEF Accept, End, TypeOK, JudgeInv, AcceptedPassed
  <2>4. LoopInv'
    BY <1>14 DEF Accept, End, TypeOK, LoopInv
  <2>5. EnvelopeInv'
    BY <1>14 DEF Accept, End, TypeOK, EnvelopeInv
  <2> QED
    BY <2>1, <2>2, <2>3, <2>4, <2>5 DEF LadderInv
<1> QED
  BY <1>4, <1>5, <1>6, <1>7, <1>8, <1>9, <1>10, <1>11, <1>12, <1>13, <1>14 DEF Attempt

(***************************************************************************)
(* The steps of the climb, each with what it adds to the allowance.        *)
(***************************************************************************)
LEMMA ClimbStep == ASSUME LadderInv, Climb PROVE LadderInv'
<1> USE DEF LadderInv, GaveUp
<1> DEFINE r == node.rungs[rung + 1]
<1>0. /\ node' = node /\ node \in Nodes /\ rung \in Nat /\ retriesLeft \in Nat /\ attempts \in Nat
      /\ Len(node.rungs) \in Nat /\ node.maxIterations \in Nat /\ Limit > 0
      /\ phase = "deciding" /\ outcome = "none"
  BY DeclarationType
     DEF Climb, Retry, ClimbRetry, Reroute, RerouteUnresolved, Escalate, OutOfRungs, NextRung,
         AttemptAgain, TypeOK, Limit
<1>1. CASE Retry
  BY <1>0, <1>1 DEF Retry, RetryLeft, SameBackend, AttemptAgain, TypeOK, AttemptInv, JudgeInv,
       LoopInv, Limit, EnvelopeInv, AcceptedPassed
<1>2. CASE ClimbRetry
  <2>1. rung \in 0..(Len(node.rungs) - 1) /\ rung + 1 \in 1..Len(node.rungs)
    BY <1>0, <1>2 DEF ClimbRetry, NextRung
  <2>2. r.times \in Nat \ {0} /\ Allowance[node][rung + 1] = Allowance[node][rung] + r.times
    BY <1>0, <1>2, <2>1, RungType, AllowanceStep DEF ClimbRetry, NextRung
  <2>3. \A i \in 1..(rung + 1) : node.rungs[i].kind # "escalate"
    BY <1>0, <1>2 DEF ClimbRetry, NextRung, AttemptInv
  <2>4. TypeOK'
    BY <1>0, <1>2, <2>1, <2>2 DEF ClimbRetry, NextRung, Retries, history, TypeOK
  <2>5. AttemptInv'
    <3>1. /\ rung' = rung + 1 /\ retriesLeft' = r.times /\ attempts' = attempts
          /\ outcome' = outcome /\ retriesLeft = 0
      BY <1>2 DEF ClimbRetry, NextRung, Retries, history
    <3>2. attempts + retriesLeft = 1 + Allowance[node][rung] /\ Allowance[node][rung] \in Nat
      BY <1>0, <2>1, AllowanceStep DEF AttemptInv
    <3>3. attempts' + retriesLeft' = 1 + Allowance[node][rung + 1]
      <4>1. r.times \in Nat /\ attempts \in Nat /\ attempts = 1 + Allowance[node][rung]
        BY <1>0, <2>2, <3>1, <3>2
      <4> HIDE DEF r
      <4> QED
        BY <2>2, <3>1, <3>2, <4>1
    <3> HIDE DEF r
    <3> QED
      BY <1>0, <2>3, <3>1, <3>3 DEF AttemptInv
  <2> QED
    BY <1>0, <1>2, <2>4, <2>5
       DEF ClimbRetry, history, JudgeInv, LoopInv, Limit, EnvelopeInv, AcceptedPassed
<1>3. CASE Reroute
  <2>1. rung \in 0..(Len(node.rungs) - 1) /\ rung + 1 \in 1..Len(node.rungs)
    BY <1>0, <1>3 DEF Reroute, NextRung
  <2>2. r.model \in Models /\ Allowance[node][rung + 1] = Allowance[node][rung] + 1
    BY <1>0, <1>3, <2>1, RungType, AllowanceStep DEF Reroute, NextRung
  <2>3. \A i \in 1..(rung + 1) : node.rungs[i].kind # "escalate"
    BY <1>0, <1>3 DEF Reroute, NextRung, AttemptInv
  <2> QED
    BY <1>0, <1>3, <2>1, <2>2, <2>3, AllowanceStep
       DEF Reroute, NextRung, AttemptAgain, TypeOK, AttemptInv, JudgeInv, LoopInv, Limit,
           EnvelopeInv, AcceptedPassed
<1>4. CASE RerouteUnresolved
  <2>1. \A i \in 1..(rung + 1) : node.rungs[i].kind # "escalate"
    BY <1>0, <1>4 DEF RerouteUnresolved, NextRung, AttemptInv
  <2>2. rung + 1 \in 0..Len(node.rungs)
    BY <1>0, <1>4 DEF RerouteUnresolved, NextRung
  <2>3. TypeOK'
    BY <1>0, <1>4, <2>2 DEF RerouteUnresolved, End, history, TypeOK
  <2>4. AttemptInv'
    BY <1>0, <1>4, <2>1 DEF RerouteUnresolved, End, AttemptInv
  <2> QED
    BY <1>0, <1>4, <2>3, <2>4
       DEF RerouteUnresolved, End, history, JudgeInv, LoopInv, Limit, EnvelopeInv, AcceptedPassed
<1>5. CASE Escalate
  BY <1>0, <1>5
     DEF Escalate, NextRung, End, climbing, TypeOK, AttemptInv, JudgeInv, LoopInv, Limit,
         EnvelopeInv, AcceptedPassed, history
<1>6. CASE OutOfRungs
  BY <1>0, <1>6
     DEF OutOfRungs, End, climbing, TypeOK, AttemptInv, JudgeInv, LoopInv, Limit,
         EnvelopeInv, AcceptedPassed, history
<1> QED
  BY <1>1, <1>2, <1>3, <1>4, <1>5, <1>6 DEF Climb

LEMMA NextLadder == LadderInv /\ [Next]_vars => LadderInv'
<1> SUFFICES ASSUME LadderInv, [Next]_vars PROVE LadderInv'
  OBVIOUS
<1>1. CASE RequestCancel
  BY <1>1
     DEF RequestCancel, climbing, history, LadderInv, TypeOK, AttemptInv, JudgeInv, LoopInv, Limit,
         EnvelopeInv, AcceptedPassed, GaveUp
<1>2. CASE UNCHANGED vars
  BY <1>2
     DEF vars, climbing, history, LadderInv, TypeOK, AttemptInv, JudgeInv, LoopInv, Limit,
         EnvelopeInv, AcceptedPassed, GaveUp
<1> QED
  BY <1>1, <1>2, AttemptStep, ClimbStep DEF Next

LEMMA Invariance == Spec => []LadderInv
  BY InitLadder, NextLadder, PTL DEF Spec

-----------------------------------------------------------------------------
(***************************************************************************)
(* Types, for every declaration (Ladder).                                  *)
(***************************************************************************)
THEOREM TypeCorrect == Spec => []TypeOK
<1>1. LadderInv => TypeOK
  BY DEF LadderInv
<1> QED
  BY <1>1, Invariance, PTL

(***************************************************************************)
(* No ladder gives up early or late, and it escalates exactly when it is   *)
(* declared to (Ladder::run).                                              *)
(***************************************************************************)
THEOREM BudgetSpent == Spec => []EveryRungClimbed
<1>1. LadderInv => EveryRungClimbed
  <2> SUFFICES ASSUME LadderInv, GaveUp
               PROVE  /\ attempts = 1 + Allowance[node][Len(node.rungs)]
                      /\ outcome = "escalated" <=>
                           node.rungs # <<>> /\ node.rungs[Len(node.rungs)].kind = "escalate"
    BY DEF EveryRungClimbed
  <2>0. /\ node \in Nodes /\ rung \in 0..Len(node.rungs) /\ Len(node.rungs) \in Nat
        /\ node.rungs \in Seq(Rung) /\ attempts \in Nat /\ retriesLeft = 0
        /\ attempts = 1 + Allowance[node][rung]
    BY DeclarationType DEF LadderInv, TypeOK, AttemptInv, GaveUp
  <2>1. CASE outcome = "exhausted"
    <3>1. rung = Len(node.rungs)
      BY <2>1 DEF LadderInv, AttemptInv
    <3>2. node.rungs # <<>> => Len(node.rungs) \in 1..rung
      BY <2>0, <3>1
    <3> QED
      BY <2>0, <2>1, <3>1, <3>2 DEF LadderInv, AttemptInv
  <2>2. CASE outcome = "escalated"
    <3>1. rung + 1 \in 1..Len(node.rungs) /\ node.rungs[rung + 1].kind = "escalate"
      BY <2>0, <2>2 DEF LadderInv, AttemptInv
    <3>2. rung + 1 = Len(node.rungs) /\ rung \in 0..(Len(node.rungs) - 1)
      BY <2>0, <3>1, RungType
    <3>3. Allowance[node][rung + 1] = Allowance[node][rung]
      BY <2>0, <3>1, <3>2, AllowanceStep
    <3> QED
      BY <2>0, <2>2, <3>1, <3>2, <3>3
  <2> QED
    BY <2>1, <2>2 DEF GaveUp
<1> QED
  BY <1>1, Invariance, PTL

(***************************************************************************)
(* Nothing is accepted that its own attempt did not check (attempt).       *)
(***************************************************************************)
THEOREM NothingUnchecked == Spec => []AcceptedPassed
<1>1. LadderInv => AcceptedPassed
  BY DEF LadderInv, JudgeInv
<1> QED
  BY <1>1, Invariance, PTL

(***************************************************************************)
(* No attempt runs the block more often than its loop allows (attempt).    *)
(***************************************************************************)
THEOREM LoopsBounded == Spec => []LoopBounded
<1>1. LadderInv => LoopBounded
  BY DEF LadderInv, LoopInv, Limit, LoopBounded
<1> QED
  BY <1>1, Invariance, PTL

(***************************************************************************)
(* The error code the job fails with is that of the last failure           *)
(* (LadderError::Exhausted).                                               *)
(***************************************************************************)
THEOREM CodeKept == Spec => []ErrorCodeKept
<1>1. LadderInv => ErrorCodeKept
  BY DEF LadderInv, EnvelopeInv, ErrorCodeKept
<1> QED
  BY <1>1, Invariance, PTL

(***************************************************************************)
(* A rung that is not a reroute leaves the model; a reroute becomes the    *)
(* last one.                                                               *)
(***************************************************************************)
LEMMA RerouteStep ==
  LadderInv /\ RerouteHolds /\ [Next]_vars => RerouteHolds'
<1> SUFFICES ASSUME LadderInv, RerouteHolds, [Next]_vars PROVE RerouteHolds'
  OBVIOUS
<1>0. rung \in Nat /\ node' = node
  <2>1. rung \in Nat
    BY DeclarationType DEF LadderInv, TypeOK
  <2>2. node' = node
    BY DEF Next, Attempt, StartStage, StageCancelled, StageFails, Produce, IterateAgain,
           IterationsSpent, StructureRejected, StructurePassed, JudgeAccepts, JudgeRejects, Accept,
           Climb, Retry, ClimbRetry, Reroute, RerouteUnresolved, Escalate, OutOfRungs, AttemptAgain,
           RequestCancel, vars
  <2> QED
    BY <2>1, <2>2
<1>1. CASE ClimbRetry \/ Reroute \/ RerouteUnresolved
  <2>0. rung' = rung + 1 /\ outcome = "none"
    BY <1>1 DEF ClimbRetry, Reroute, RerouteUnresolved, NextRung, LadderInv, TypeOK
  <2>1. CASE ClimbRetry
    <3>1. Reroutes' = Reroutes
      BY <1>0, <2>0, <2>1 DEF ClimbRetry, NextRung, Reroutes
    <3> QED
      BY <1>0, <2>0, <2>1, <3>1 DEF ClimbRetry, RerouteHolds
  <2>2. CASE Reroute
    <3>1. rung + 1 \in Reroutes' /\ \A k \in Reroutes' : k <= rung + 1
      BY <1>0, <2>0, <2>2 DEF Reroute, NextRung, Reroutes
    <3> QED
      BY <1>0, <2>0, <2>2, <3>1 DEF Reroute, RerouteHolds
  <2>3. CASE RerouteUnresolved
    BY <2>3 DEF RerouteUnresolved, End, RerouteHolds
  <2> QED
    BY <1>1, <2>1, <2>2, <2>3
<1>2. CASE ~(ClimbRetry \/ Reroute \/ RerouteUnresolved)
  <2>1. rung' = rung /\ backend' = backend
    BY <1>2
       DEF Next, Attempt, StartStage, StageCancelled, StageFails, Produce, IterateAgain,
           IterationsSpent, StructureRejected, StructurePassed, JudgeAccepts, JudgeRejects, Accept,
           Climb, Retry, SameBackend, Escalate, OutOfRungs, RequestCancel, climbing, vars
  <2>2. outcome = "misrouted" => outcome' = "misrouted"
    BY <1>2
       DEF LadderInv, TypeOK, Next, Attempt, StartStage, StageCancelled, StageFails, Produce,
           IterateAgain, IterationsSpent, StructureRejected, StructurePassed, JudgeAccepts,
           JudgeRejects, Accept, Climb, Retry, Escalate, OutOfRungs, NextRung, RequestCancel,
           StageEnds, vars
  <2>3. Reroutes' = Reroutes
    BY <1>0, <2>1 DEF Reroutes
  <2> QED
    BY <1>0, <2>1, <2>2, <2>3 DEF RerouteHolds
<1> QED
  BY <1>1, <1>2

(***************************************************************************)
(* After a reroute, attempts go to the model named last (Ladder::run).     *)
(***************************************************************************)
THEOREM ModelHeld == Spec => []RerouteHolds
<1>1. Init => RerouteHolds
  BY DEF Init, RerouteHolds, Reroutes
<1> QED
  BY <1>1, RerouteStep, Invariance, PTL DEF Spec
=============================================================================

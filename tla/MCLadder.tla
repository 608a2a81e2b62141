------------------------------- MODULE MCLadder -------------------------------
(***************************************************************************)
(* Every short ladder, to model-check Ladder with.                         *)
(***************************************************************************)
EXTENDS Ladder, SequencesExt

CONSTANTS m0, m1, m2, mx  \* the job's model, two alternates, one not resolved

Rungs == {[kind |-> "retry", times |-> n] : n \in 1..2}
           \cup {[kind |-> "reroute", model |-> m] : m \in {m1, m2, mx}}

\* Up to three rungs, and an `escalate` or not.
Ladders == {l \o e : l \in SeqOf(Rungs, 3), e \in {<<>>, <<[kind |-> "escalate"]>>}}

Declared(ladders, judges, loops, max) ==
  {[rungs |-> l, judges |-> j, loops |-> loops, maxIterations |-> max] :
     l \in ladders, j \in judges}

MCNodes ==
  Declared(Ladders, {<<>>, <<NoModel>>, <<NoModel, m1>>, <<mx>>}, FALSE, 0)
    \cup UNION {Declared(Ladders, {<<m2>>}, TRUE, max) : max \in 0..2}

MCAllowance ==
  [d \in MCNodes |->
     LET sum[i \in 0..Len(d.rungs)] == IF i = 0 THEN 0 ELSE sum[i - 1] + Tries(d.rungs[i])
     IN  sum]
=============================================================================
